---------------------------- MODULE Pipeline_proofs ----------------------------
(* Theorems about one run, from its request to its rows.                   *)
EXTENDS Pipeline, DataLemmas

-----------------------------------------------------------------------------
(* Sequences taken apart and joined.                                       *)

\* A sequence with one more element.
LEMMA FirstAndLast ==
    ASSUME NEW S, NEW q \in Seq(S), NEW x \in S
    PROVE  /\ Append(q, x) \in Seq(S)
           /\ DOMAIN q = 1..Len(q) /\ Len(q) \in Nat
           /\ DOMAIN Append(q, x) = 1..(Len(q) + 1)
           /\ Len(Append(q, x)) = Len(q) + 1
           /\ \A i \in 1..Len(q) : Append(q, x)[i] = q[i]
           /\ Append(q, x)[Len(q) + 1] = x
  OBVIOUS

\* Two sequences joined.
LEMMA Joined ==
    ASSUME NEW S, NEW u \in Seq(S), NEW v \in Seq(S)
    PROVE  /\ u \o v \in Seq(S)
           /\ ToSet(u \o v) = ToSet(u) \cup ToSet(v)
           /\ Len(u \o v) = Len(u) + Len(v) /\ Len(u) \in Nat /\ Len(v) \in Nat
           /\ DOMAIN (u \o v) = 1..(Len(u) + Len(v))
           /\ DOMAIN u = 1..Len(u) /\ DOMAIN v = 1..Len(v)
           /\ \A i \in 1..Len(u) : (u \o v)[i] = u[i]
           /\ \A i \in 1..(Len(u) + Len(v)) :
                i \notin 1..Len(u) =>
                    i - Len(u) \in 1..Len(v) /\ (u \o v)[i] = v[i - Len(u)]
           /\ \A i \in 1..Len(v) :
                i + Len(u) \in 1..(Len(u) + Len(v)) /\ (u \o v)[i + Len(u)] = v[i]
<1>1. /\ u \o v \in Seq(S) /\ Len(u) \in Nat /\ Len(v) \in Nat
      /\ Len(u \o v) = Len(u) + Len(v)
      /\ DOMAIN (u \o v) = 1..(Len(u) + Len(v))
      /\ DOMAIN u = 1..Len(u) /\ DOMAIN v = 1..Len(v)
      /\ \A i \in 1..Len(u) : (u \o v)[i] = u[i]
      /\ \A i \in 1..(Len(u) + Len(v)) :
            i \notin 1..Len(u) => i - Len(u) \in 1..Len(v) /\ (u \o v)[i] = v[i - Len(u)]
      /\ \A i \in 1..Len(v) :
            i + Len(u) \in 1..(Len(u) + Len(v)) /\ (u \o v)[i + Len(u)] = v[i]
    OBVIOUS
<1>2. ToSet(u \o v) \subseteq ToSet(u) \cup ToSet(v)
    <2>1. \A i \in DOMAIN (u \o v) : (u \o v)[i] \in ToSet(u) \cup ToSet(v)
        BY <1>1 DEF ToSet
    <2>2. QED  BY <2>1 DEF ToSet
<1>3. ToSet(u) \subseteq ToSet(u \o v)
    <2>1. \A i \in DOMAIN u : i \in DOMAIN (u \o v)
        BY <1>1
    <2>2. QED  BY <1>1, <2>1 DEF ToSet
<1>4. ToSet(v) \subseteq ToSet(u \o v)
    <2>1. \A i \in DOMAIN v : v[i] \in ToSet(u \o v)
        BY <1>1 DEF ToSet
    <2>2. QED  BY <2>1 DEF ToSet
<1>5. QED  BY <1>1, <1>2, <1>3, <1>4

\* A sequence is one over any set that holds its elements.
LEMMA SeqOver ==
    ASSUME NEW S, NEW q \in Seq(S), NEW U
    PROVE  /\ ToSet(q) \subseteq S
           /\ ToSet(q) \subseteq U => q \in Seq(U)
<1>1. PICK n \in Nat : n = Len(q) /\ DOMAIN q = 1..n /\ q = [i \in 1..n |-> q[i]]
    OBVIOUS
<1>2. ToSet(q) \subseteq S
    <2>1. \A i \in 1..n : q[i] \in S
        BY <1>1
    <2>2. QED  BY <1>1, <2>1 DEF ToSet
<1>3. ASSUME ToSet(q) \subseteq U  PROVE q \in Seq(U)
    <2>1. \A i \in 1..n : q[i] \in U
        BY <1>1, <1>3 DEF ToSet
    <2>2. q \in [1..n -> U]
        BY <1>1, <2>1
    <2>3. QED  BY <2>2
<1>4. QED  BY <1>2, <1>3

\* A sequence computed element by element.
LEMMA Mapped ==
    ASSUME NEW n \in Nat, NEW f, NEW U, f = [i \in 1..n |-> f[i]], \A i \in 1..n : f[i] \in U
    PROVE  f \in Seq(U) /\ Len(f) = n /\ DOMAIN f = 1..n /\ ToSet(f) = {f[i] : i \in 1..n}
<1>1. f \in [1..n -> U] /\ DOMAIN f = 1..n
    OBVIOUS
<1>2. f \in Seq(U) /\ Len(f) = n
    BY <1>1
<1>3. QED  BY <1>1, <1>2 DEF ToSet

-----------------------------------------------------------------------------
(* Loops over a sequence.  FoldLeft takes the greatest index away first.   *)

\* The greatest element of a set of indices.
LEMMA GreatestIndex ==
    ASSUME NEW n \in Nat, NEW s \in SUBSET (1..n), s # {}
    PROVE  Max(s) \in s /\ \A y \in s : Max(s) >= y
<1> DEFINE Gaps == {n - x : x \in s}
<1>1. Gaps \in SUBSET Nat /\ Gaps # {}
    <2>1. \A x \in s : x \in Nat /\ x <= n /\ n - x \in Nat
        OBVIOUS
    <2>2. QED  BY <2>1
<1>2. PICK gap \in Gaps : \A k \in Gaps : ~ (k < gap)
    BY <1>1, Smallest
<1>3. PICK x \in s : gap = n - x
    BY <1>2
<1>4. \A y \in s : x >= y
    <2> SUFFICES ASSUME NEW y \in s  PROVE x >= y
        OBVIOUS
    <2>1. n - y \in Gaps /\ x \in Nat /\ y \in Nat
        OBVIOUS
    <2>2. ~ (n - y < n - x)
        BY <1>2, <1>3, <2>1
    <2>3. QED  BY <2>1, <2>2
<1>5. QED  BY <1>4 DEF Max

\* The first i indices, with the greatest one taken off.
LEMMA UpToIndex ==
    ASSUME NEW i \in Nat \ {0}
    PROVE  Max(1..i) = i /\ (1..i) \ {i} = 1..(i - 1) /\ 1..i # {}
<1>1. 1..i \in SUBSET (1..i) /\ i \in 1..i
    OBVIOUS
<1>2. Max(1..i) \in 1..i /\ Max(1..i) >= i
    BY <1>1, GreatestIndex
<1>3. QED  BY <1>2

LoopsBy(fold, n, base, step) ==
    \A s \in SUBSET (1..n) :
        fold[s] = IF s = {} THEN base ELSE step[Max(s)][fold[s \ {Max(s)}]]

\* A fold over the indices 1..n of a sequence has a value.
LEMMA LoopExists ==
    ASSUME NEW n \in Nat, NEW V, NEW base \in V, NEW step \in [1..n -> [V -> V]]
    PROVE  \E fold \in [SUBSET (1..n) -> V] : LoopsBy(fold, n, base, step)
<1>1. PICK D, pick : D = 1..n /\ pick = [s \in SUBSET D |-> Max(s)]
    OBVIOUS
<1>2. \A s \in SUBSET D : s # {} => pick[s] \in s
    BY <1>1, GreatestIndex
<1>3. IsFiniteSet(D) /\ step \in [D -> [V -> V]]
    BY <1>1, FS_Interval
<1>4. PICK fold \in [SUBSET D -> V] : FoldsBy(fold, D, base, step, pick)
    BY <1>2, <1>3, FoldExists
<1>5. QED  BY <1>1, <1>4 DEF FoldsBy, LoopsBy

\* The values a fold goes through, after each of n steps.
GoesThrough(at, fold, n) ==
    /\ at[0] = fold[{}]
    /\ at[n] = fold[1..n]
    /\ \A i \in 1..n : \E s \in SUBSET (1..n) :
        s # {} /\ Max(s) = i /\ at[i] = fold[s] /\ at[i - 1] = fold[s \ {i}]

\* A fold goes from its base through n values.
LEMMA LoopGoes ==
    ASSUME NEW n \in Nat, NEW fold
    PROVE  \E at : GoesThrough(at, fold, n)
<1> DEFINE at == [i \in 0..n |-> fold[1..i]]
<1>1. at[0] = fold[{}] /\ at[n] = fold[1..n]
    <2>1. 1..0 = {} /\ 0 \in 0..n /\ n \in 0..n
        OBVIOUS
    <2>2. QED  BY <2>1
<1>2. ASSUME NEW i \in 1..n
      PROVE  \E s \in SUBSET (1..n) :
                s # {} /\ Max(s) = i /\ at[i] = fold[s] /\ at[i - 1] = fold[s \ {i}]
    <2>1. i \in Nat \ {0} /\ i \in 0..n /\ i - 1 \in 0..n
        OBVIOUS
    <2>2. PICK s : s = 1..i
        OBVIOUS
    <2>3. Max(s) = i /\ s \ {i} = 1..(i - 1) /\ s # {}
        BY <2>1, <2>2, UpToIndex
    <2>4. at[i] = fold[s] /\ at[i - 1] = fold[1..(i - 1)]
        BY <2>1, <2>2
    <2>5. at[i - 1] = fold[s \ {i}]
        BY <2>3, <2>4
    <2>6. s \in SUBSET (1..n)
        BY <2>2
    <2> HIDE DEF at
    <2>7. QED  BY <2>3, <2>4, <2>5, <2>6
<1> HIDE DEF at
<1>3. QED  BY <1>1, <1>2 DEF GoesThrough

\* Only, as the loop that it is.
LEMMA OnlySteps ==
    ASSUME NEW S, NEW list \in Seq(S), NEW wanted
    PROVE  \E kept : /\ kept[0] = <<>>
                     /\ \A i \in 1..Len(list) :
                          kept[i] = IF list[i] \in wanted
                                    THEN Append(kept[i - 1], list[i])
                                    ELSE kept[i - 1]
                     /\ Only(wanted, list) = kept[Len(list)]
<1>1. PICK n \in Nat : n = Len(list) /\ DOMAIN list = 1..n
    OBVIOUS
<1> DEFINE Loop(g, s) ==
        IF s = {} THEN <<>>
        ELSE IF list[Max(s)] \in wanted THEN Append(g[s \ {Max(s)}], list[Max(s)])
             ELSE g[s \ {Max(s)}]
           fold == CHOOSE g : g = [s \in SUBSET (1..n) |-> Loop(g, s)]
<1>2. \E g : g = [s \in SUBSET (1..n) |-> Loop(g, s)]
    <2>1. PICK step : step = [i \in 1..n |-> [kept \in Seq(S) |->
                IF list[i] \in wanted THEN Append(kept, list[i]) ELSE kept]]
        OBVIOUS
    <2>2. step \in [1..n -> [Seq(S) -> Seq(S)]] /\ <<>> \in Seq(S)
        BY <1>1, <2>1
    <2>3. PICK g \in [SUBSET (1..n) -> Seq(S)] : LoopsBy(g, n, <<>>, step)
        BY <2>2, LoopExists
    <2>4. \A s \in SUBSET (1..n) : g[s] = Loop(g, s)
        BY <2>1, <2>3, GreatestIndex DEF LoopsBy
    <2>5. QED  BY <2>3, <2>4
<1>3. fold = [s \in SUBSET (1..n) |-> Loop(fold, s)]
    BY <1>2
<1>4. Only(wanted, list) = fold[1..n]
    BY <1>1 DEF Only, FoldLeft, MapThenFoldSet
<1>5. PICK kept : GoesThrough(kept, fold, n)
    BY LoopGoes
<1> HIDE DEF fold
<1>6. kept[0] = <<>>
    BY <1>3, <1>5 DEF GoesThrough
<1>7. \A i \in 1..n : kept[i] = IF list[i] \in wanted THEN Append(kept[i - 1], list[i])
                                                      ELSE kept[i - 1]
    <2> SUFFICES ASSUME NEW i \in 1..n
                 PROVE  kept[i] = IF list[i] \in wanted THEN Append(kept[i - 1], list[i])
                                                       ELSE kept[i - 1]
        OBVIOUS
    <2>1. PICK s \in SUBSET (1..n) :
            s # {} /\ Max(s) = i /\ kept[i] = fold[s] /\ kept[i - 1] = fold[s \ {i}]
        BY <1>5 DEF GoesThrough
    <2>2. fold[s] = Loop(fold, s)
        BY <1>3
    <2>3. QED  BY <2>1, <2>2
<1>8. QED  BY <1>1, <1>4, <1>5, <1>6, <1>7 DEF GoesThrough

\* What passes the test is kept, in order, and nothing else is.
LEMMA OnlyKeeps ==
    ASSUME NEW S, NEW list \in Seq(S), NEW wanted
    PROVE  /\ Only(wanted, list) \in Seq(S)
           /\ ToSet(Only(wanted, list)) = ToSet(list) \cap wanted
           /\ IsInjective(list) => IsInjective(Only(wanted, list))
<1>1. PICK kept :
        /\ kept[0] = <<>>
        /\ \A i \in 1..Len(list) :
             kept[i] = IF list[i] \in wanted THEN Append(kept[i - 1], list[i]) ELSE kept[i - 1]
        /\ Only(wanted, list) = kept[Len(list)]
    BY OnlySteps
<1>2. PICK n \in Nat : n = Len(list) /\ DOMAIN list = 1..n
    OBVIOUS
<1> DEFINE Seen(i) == {list[j] : j \in 1..i}
           Good(i) == /\ kept[i] \in Seq(S)
                      /\ ToSet(kept[i]) = Seen(i) \cap wanted
                      /\ IsInjective(list) => IsInjective(kept[i])
           T == {i \in 0..n : Good(i)}
<1>3. 0 \in T
    <2>1. kept[0] \in Seq(S) /\ DOMAIN kept[0] = {} /\ Seen(0) = {}
        BY <1>1
    <2>2. QED  BY <2>1 DEF ToSet, IsInjective
<1>4. ASSUME NEW i \in 0..n, i \in T, i < n
      PROVE  i + 1 \in T
    <2> DEFINE x == list[i + 1]
    <2>1. i + 1 \in 1..n /\ (i + 1) - 1 = i /\ x \in S
        BY <1>2, <1>4
    <2>2. kept[i + 1] = IF x \in wanted THEN Append(kept[i], x) ELSE kept[i]
        BY <1>1, <1>2, <2>1
    <2>3. Seen(i + 1) = Seen(i) \cup {x}
        <3>1. 1..(i + 1) = (1..i) \cup {i + 1}
            BY <2>1
        <3>2. QED  BY <3>1
    <2>4. Good(i)
        BY <1>4
    <2>5. CASE x \notin wanted
        <3>1. Good(i + 1)
            BY <2>2, <2>3, <2>4, <2>5
        <3>2. QED  BY <2>1, <3>1
    <2>6. CASE x \in wanted
        <3>1. PICK k \in Seq(S) : k = kept[i]
            BY <2>4
        <3>2. /\ kept[i + 1] = Append(k, x) /\ Append(k, x) \in Seq(S)
              /\ DOMAIN k = 1..Len(k) /\ Len(k) \in Nat
              /\ DOMAIN Append(k, x) = 1..(Len(k) + 1)
              /\ \A j \in 1..Len(k) : Append(k, x)[j] = k[j]
              /\ Append(k, x)[Len(k) + 1] = x
            BY <2>1, <2>2, <2>6, <3>1
        <3>3. ToSet(Append(k, x)) = ToSet(k) \cup {x}
            BY <3>2 DEF ToSet
        <3>4. ASSUME IsInjective(list)
              PROVE  IsInjective(Append(k, x))
            <4>1. x \notin Seen(i)
                <5>1. \A j \in 1..i : j \in 1..n /\ j # i + 1
                    BY <2>1
                <5>2. QED  BY <1>2, <2>1, <3>4, <5>1 DEF IsInjective
            <4>2. x \notin ToSet(k)
                BY <2>4, <3>1, <4>1
            <4>3. \A j \in 1..Len(k) : k[j] # x
                BY <3>2, <4>2 DEF ToSet
            <4>4. IsInjective(k)
                BY <2>4, <3>1, <3>4
            <4>5. QED  BY <3>2, <4>3, <4>4 DEF IsInjective
        <3>5. Good(i + 1)
            BY <2>3, <2>4, <2>6, <3>1, <3>2, <3>3, <3>4
        <3>6. QED  BY <2>1, <3>5
    <2>7. QED  BY <2>5, <2>6
<1>5. \A i \in 0..n : i \in T
    <2> HIDE DEF T
    <2>1. QED  BY <1>3, <1>4, CountUp
<1>6. Good(n)
    <2>1. n \in 0..n
        OBVIOUS
    <2>2. n \in T
        BY <1>5, <2>1
    <2>3. QED  BY <2>2
<1>7. Seen(n) = ToSet(list)
    BY <1>2 DEF ToSet
<1>8. QED  BY <1>1, <1>2, <1>6, <1>7

-----------------------------------------------------------------------------
(* The other loops of a run.                                               *)

\* What FirstOfEach has kept after each element.
KeepsFirsts(kept, key, wanted, list) ==
    /\ kept[0] = <<>>
    /\ \A i \in 1..Len(list) :
         kept[i] = IF /\ list[i] \in wanted
                      /\ \A h \in DOMAIN kept[i - 1] : key[kept[i - 1][h]] # key[list[i]]
                   THEN Append(kept[i - 1], list[i]) ELSE kept[i - 1]

\* FirstOfEach, as the loop that it is.
LEMMA FirstOfEachSteps ==
    ASSUME NEW S, NEW list \in Seq(S), NEW key, NEW wanted
    PROVE  \E kept : /\ KeepsFirsts(kept, key, wanted, list)
                     /\ FirstOfEach(key, wanted, list) = kept[Len(list)]
<1>1. PICK n \in Nat : n = Len(list) /\ DOMAIN list = 1..n
    OBVIOUS
<1> DEFINE Step(v, i) == IF /\ list[i] \in wanted
                            /\ \A h \in DOMAIN v : key[v[h]] # key[list[i]]
                         THEN Append(v, list[i]) ELSE v
           Loop(g, s) == IF s = {} THEN <<>> ELSE Step(g[s \ {Max(s)}], Max(s))
           fold == CHOOSE g : g = [s \in SUBSET (1..n) |-> Loop(g, s)]
<1>2. \E g : g = [s \in SUBSET (1..n) |-> Loop(g, s)]
    <2>1. PICK step : step = [i \in 1..n |-> [v \in Seq(S) |-> Step(v, i)]]
        OBVIOUS
    <2>2. step \in [1..n -> [Seq(S) -> Seq(S)]] /\ <<>> \in Seq(S)
        <3>1. \A i \in 1..n : \A v \in Seq(S) : Step(v, i) \in Seq(S)
            BY <1>1
        <3> HIDE DEF Step
        <3>2. QED  BY <2>1, <3>1
    <2>3. PICK g \in [SUBSET (1..n) -> Seq(S)] : LoopsBy(g, n, <<>>, step)
        BY <2>2, LoopExists
    <2> HIDE DEF Step
    <2>4. \A s \in SUBSET (1..n) : g[s] = Loop(g, s)
        BY <2>1, <2>3, GreatestIndex DEF LoopsBy
    <2>5. QED  BY <2>3, <2>4
<1>3. fold = [s \in SUBSET (1..n) |-> Loop(fold, s)]
    BY <1>2
<1>4. FirstOfEach(key, wanted, list) = fold[1..n]
    BY <1>1 DEF FirstOfEach, FoldLeft, MapThenFoldSet
<1>5. PICK kept : GoesThrough(kept, fold, n)
    BY LoopGoes
<1> HIDE DEF fold
<1>6. kept[0] = <<>>
    BY <1>3, <1>5 DEF GoesThrough
<1>7. \A i \in 1..n : kept[i] = Step(kept[i - 1], i)
    <2> SUFFICES ASSUME NEW i \in 1..n  PROVE kept[i] = Step(kept[i - 1], i)
        OBVIOUS
    <2>1. PICK s \in SUBSET (1..n) :
            s # {} /\ Max(s) = i /\ kept[i] = fold[s] /\ kept[i - 1] = fold[s \ {i}]
        BY <1>5 DEF GoesThrough
    <2>2. fold[s] = Loop(fold, s)
        BY <1>3
    <2> HIDE DEF Step
    <2>3. QED  BY <2>1, <2>2
<1>8. QED  BY <1>1, <1>4, <1>5, <1>6, <1>7 DEF GoesThrough, KeepsFirsts

\* The indices of the wanted elements of list that are the first of their keys.
FirstsIn(key, wanted, list) ==
    {n \in DOMAIN list :
        /\ list[n] \in wanted
        /\ \A i \in 1..(n - 1) : list[i] \in wanted => key[list[i]] # key[list[n]]}

KeysUnder(key, S) == {key[x] : x \in S}

\* No two elements of a sequence have one key.
Distinct(key, list) == \A i, j \in DOMAIN list : key[list[i]] = key[list[j]] => i = j

\* Of the wanted elements of each key the first is kept, and nothing else is.
LEMMA FirstOfEachKeeps ==
    ASSUME NEW S, NEW list \in Seq(S), NEW key, NEW wanted
    PROVE  LET kept == FirstOfEach(key, wanted, list)
           IN  /\ kept \in Seq(S)
               /\ ToSet(kept) = {list[n] : n \in FirstsIn(key, wanted, list)}
               /\ KeysUnder(key, ToSet(kept)) = KeysUnder(key, ToSet(list) \cap wanted)
               /\ Distinct(key, kept)
<1>1. PICK kept :
        /\ KeepsFirsts(kept, key, wanted, list)
        /\ FirstOfEach(key, wanted, list) = kept[Len(list)]
    BY FirstOfEachSteps
<1>2. PICK n \in Nat : n = Len(list) /\ DOMAIN list = 1..n
    OBVIOUS
<1>3. PICK Firsts : Firsts = FirstsIn(key, wanted, list)
    OBVIOUS
<1> DEFINE Keys(i) == {key[list[j]] : j \in {k \in 1..i : list[k] \in wanted}}
           Good(i) == /\ kept[i] \in Seq(S)
                      /\ ToSet(kept[i]) = {list[j] : j \in {k \in 1..i : k \in Firsts}}
                      /\ {key[x] : x \in ToSet(kept[i])} = Keys(i)
                      /\ Distinct(key, kept[i])
           T == {i \in 0..n : Good(i)}
<1>4. 0 \in T
    <2>1. kept[0] \in Seq(S) /\ DOMAIN kept[0] = {} /\ 1..0 = {}
        BY <1>1 DEF KeepsFirsts
    <2>2. QED  BY <2>1 DEF ToSet, Distinct
<1>5. ASSUME NEW i \in 0..n, i \in T, i < n
      PROVE  i + 1 \in T
    <2>1. /\ i + 1 \in 1..n /\ (i + 1) - 1 = i /\ 1..(i + 1) = (1..i) \cup {i + 1}
          /\ i + 1 \notin 1..i
        BY <1>2, <1>5
    <2>2. PICK x \in S : x = list[i + 1]
        BY <1>2, <2>1
    <2>3. Good(i)
        BY <1>5
    <2>4. PICK k \in Seq(S) : k = kept[i]
        BY <2>3
    <2>5. PICK new \in BOOLEAN : new = (x \in wanted /\ key[x] \notin Keys(i))
        OBVIOUS
    <2>6. new <=> x \in wanted /\ \A h \in DOMAIN k : key[k[h]] # key[x]
        <3>1. {key[y] : y \in ToSet(k)} = {key[k[h]] : h \in DOMAIN k}
            BY DEF ToSet
        <3>2. Keys(i) = {key[k[h]] : h \in DOMAIN k}
            BY <2>3, <2>4, <3>1
        <3> HIDE DEF Keys
        <3>3. QED  BY <2>5, <3>2
    <2>7. kept[i + 1] = IF new THEN Append(k, x) ELSE k
        <3>1. kept[i + 1] = IF x \in wanted /\ \A h \in DOMAIN kept[i] : key[kept[i][h]] # key[x]
                            THEN Append(kept[i], x) ELSE kept[i]
            BY <1>1, <1>2, <2>1, <2>2 DEF KeepsFirsts
        <3>2. QED  BY <2>4, <2>6, <3>1
    <2>8. new <=> i + 1 \in Firsts
        BY <1>2, <1>3, <2>1, <2>2, <2>5 DEF FirstsIn
    <2>9. {list[j] : j \in {h \in 1..(i + 1) : h \in Firsts}} =
            {list[j] : j \in {h \in 1..i : h \in Firsts}} \cup (IF new THEN {x} ELSE {})
        BY <2>1, <2>2, <2>8
    <2>10. Keys(i + 1) = Keys(i) \cup (IF x \in wanted THEN {key[x]} ELSE {})
        BY <2>1, <2>2
    <2>11. CASE ~ new
        <3>1. Keys(i + 1) = Keys(i)
            <4>1. x \in wanted => key[x] \in Keys(i)
                BY <2>5, <2>11
            <4> HIDE DEF Keys
            <4>2. QED  BY <2>10, <4>1
        <3>2. kept[i + 1] = kept[i]
            BY <2>4, <2>7, <2>11
        <3> HIDE DEF Keys
        <3>3. Good(i + 1)
            BY <2>3, <2>9, <2>11, <3>1, <3>2
        <3> HIDE DEF Good
        <3>4. QED  BY <2>1, <3>3
    <2>12. CASE new
        <3>1. kept[i + 1] = Append(k, x)
            BY <2>7, <2>12
        <3>2. /\ Append(k, x) \in Seq(S)
              /\ DOMAIN k = 1..Len(k) /\ Len(k) \in Nat
              /\ DOMAIN Append(k, x) = 1..(Len(k) + 1)
              /\ \A j \in 1..Len(k) : Append(k, x)[j] = k[j]
              /\ Append(k, x)[Len(k) + 1] = x
            BY FirstAndLast
        <3>3. ToSet(Append(k, x)) = ToSet(k) \cup {x}
            BY <3>2 DEF ToSet
        <3>4. {key[y] : y \in ToSet(Append(k, x))} = Keys(i + 1)
            <4>1. {key[y] : y \in ToSet(Append(k, x))} = {key[y] : y \in ToSet(k)} \cup {key[x]}
                BY <3>3
            <4>2. {key[y] : y \in ToSet(k)} = Keys(i)
                BY <2>3, <2>4
            <4>3. Keys(i + 1) = Keys(i) \cup {key[x]}
                <5>1. x \in wanted
                    BY <2>5, <2>12
                <5> HIDE DEF Keys
                <5>2. QED  BY <2>10, <5>1
            <4> HIDE DEF Keys
            <4>4. QED  BY <4>1, <4>2, <4>3
        <3>5. Distinct(key, Append(k, x))
            <4>1. Distinct(key, k)
                BY <2>3, <2>4
            <4>2. \A h \in DOMAIN k : key[k[h]] # key[x]
                BY <2>6, <2>12
            <4>3. QED  BY <3>2, <4>1, <4>2 DEF Distinct
        <3> HIDE DEF Keys
        <3>6. ToSet(kept[i + 1]) = {list[j] : j \in {h \in 1..(i + 1) : h \in Firsts}}
            <4>1. ToSet(k) = {list[j] : j \in {h \in 1..i : h \in Firsts}}
                BY <2>3, <2>4
            <4>2. QED  BY <2>9, <2>12, <3>1, <3>3, <4>1
        <3>7. Good(i + 1)
            BY <3>1, <3>2, <3>4, <3>5, <3>6
        <3> HIDE DEF Good
        <3>8. QED  BY <2>1, <3>7
    <2>13. QED  BY <2>11, <2>12
<1>6. \A i \in 0..n : i \in T
    <2> HIDE DEF T
    <2>1. QED  BY <1>4, <1>5, CountUp
<1>7. Good(n)
    <2>1. n \in 0..n
        OBVIOUS
    <2>2. n \in T
        BY <1>6, <2>1
    <2>3. QED  BY <2>2
<1>8. {list[j] : j \in {k \in 1..n : k \in Firsts}} = {list[j] : j \in Firsts}
    BY <1>2, <1>3 DEF FirstsIn
<1>9. Keys(n) = {key[x] : x \in ToSet(list) \cap wanted}
    <2>1. \A j \in {k \in 1..n : list[k] \in wanted} : list[j] \in ToSet(list) \cap wanted
        BY <1>2 DEF ToSet
    <2>2. \A x \in ToSet(list) \cap wanted : \E j \in {k \in 1..n : list[k] \in wanted} : x = list[j]
        BY <1>2 DEF ToSet
    <2>3. QED  BY <2>1, <2>2
<1> HIDE DEF Keys
<1>10. QED  BY <1>1, <1>2, <1>3, <1>7, <1>8, <1>9 DEF KeysUnder

\* No two articles of a sequence have one key.
OneEach(list) == \A i, j \in DOMAIN list : Key(list[i]) = Key(list[j]) => i = j
KeysOf(list) == {Key(a) : a \in ToSet(list)}

\* The articles of a sequence that are the first of their keys.
First(list) ==
    {list[j] : j \in {n \in DOMAIN list : \A i \in 1..(n - 1) : Key(list[i]) # Key(list[n])}}

\* DedupeEngine.Filter keeps the first article of each key and loses no key.
LEMMA DedupeKeeps ==
    ASSUME NEW S, NEW list \in Seq(S)
    PROVE  /\ DedupeFilter(list) \in Seq(S)
           /\ ToSet(DedupeFilter(list)) = First(list)
           /\ KeysOf(DedupeFilter(list)) = KeysOf(list)
           /\ OneEach(DedupeFilter(list))
<1>1. PICK n \in Nat : n = Len(list) /\ DOMAIN list = 1..n
    OBVIOUS
<1>2. PICK all : all = ToSet(list)
    OBVIOUS
<1>3. PICK key : key = [a \in all |-> Key(a)]
    OBVIOUS
<1>4. \A a \in all : key[a] = Key(a)
    BY <1>3
<1>5. \A j \in 1..n : list[j] \in all /\ key[list[j]] = Key(list[j])
    BY <1>1, <1>2, <1>4 DEF ToSet
<1>6. PICK kept : kept = DedupeFilter(list) /\ kept = FirstOfEach(key, all, list)
    BY <1>2, <1>3 DEF DedupeFilter
<1>7. /\ kept \in Seq(S)
      /\ ToSet(kept) = {list[j] : j \in FirstsIn(key, all, list)}
      /\ KeysUnder(key, ToSet(kept)) = KeysUnder(key, ToSet(list) \cap all)
      /\ Distinct(key, kept)
    BY <1>6, FirstOfEachKeeps
<1>8. FirstsIn(key, all, list) =
        {j \in DOMAIN list : \A i \in 1..(j - 1) : Key(list[i]) # Key(list[j])}
    <2>1. \A j \in 1..n : \A i \in 1..(j - 1) : i \in 1..n
        OBVIOUS
    <2>2. QED  BY <1>1, <1>5, <2>1 DEF FirstsIn
<1>9. ToSet(kept) = First(list)
    BY <1>7, <1>8 DEF First
<1>10. ToSet(kept) \subseteq all
    BY <1>1, <1>5, <1>7 DEF FirstsIn
<1>11. KeysOf(kept) = KeysOf(list)
    <2>1. ToSet(list) \cap all = all
        BY <1>2
    <2>2. {key[x] : x \in ToSet(kept)} = {Key(x) : x \in ToSet(kept)}
        BY <1>4, <1>10
    <2>3. {key[x] : x \in all} = {Key(x) : x \in all}
        BY <1>4
    <2>4. QED  BY <1>2, <1>7, <2>1, <2>2, <2>3 DEF KeysOf, KeysUnder
<1>12. OneEach(kept)
    <2>1. \A j \in DOMAIN kept : kept[j] \in all
        BY <1>10 DEF ToSet
    <2>2. QED  BY <1>4, <1>7, <2>1 DEF Distinct, OneEach
<1>13. QED  BY <1>6, <1>7, <1>9, <1>11, <1>12

\* What the sum over the rows of event n is before each of them.
Counts(sum, built, n) ==
    /\ sum[0] = 0
    /\ \A i \in 1..Len(built) :
         sum[i] = IF built[i].event = n THEN sum[i - 1] + built[i].tokens ELSE sum[i - 1]

HaveTokens(R) == \A r \in R : r.tokens \in Nat

\* The sum over the rows of one event, as the loop that it is.
LEMMA TokensSteps ==
    ASSUME NEW R, HaveTokens(R), NEW built \in Seq(R), NEW n
    PROVE  \E sum : Counts(sum, built, n) /\ TokensOf(n, built) = sum[Len(built)]
<1>1. PICK len \in Nat : len = Len(built) /\ DOMAIN built = 1..len
    OBVIOUS
<1> DEFINE Step(v, i) == IF built[i].event = n THEN v + built[i].tokens ELSE v
           Loop(g, s) == IF s = {} THEN 0 ELSE Step(g[s \ {Max(s)}], Max(s))
           fold == CHOOSE g : g = [s \in SUBSET (1..len) |-> Loop(g, s)]
<1>2. \E g : g = [s \in SUBSET (1..len) |-> Loop(g, s)]
    <2>1. PICK step : step = [i \in 1..len |-> [v \in Nat |-> Step(v, i)]]
        OBVIOUS
    <2>2. step \in [1..len -> [Nat -> Nat]] /\ 0 \in Nat
        <3>1. \A i \in 1..len : \A v \in Nat : Step(v, i) \in Nat
            BY <1>1 DEF HaveTokens
        <3> HIDE DEF Step
        <3>2. QED  BY <2>1, <3>1
    <2>3. PICK g \in [SUBSET (1..len) -> Nat] : LoopsBy(g, len, 0, step)
        BY <2>2, LoopExists
    <2> HIDE DEF Step
    <2>4. \A s \in SUBSET (1..len) : g[s] = Loop(g, s)
        BY <2>1, <2>3, GreatestIndex DEF LoopsBy
    <2>5. QED  BY <2>3, <2>4
<1>3. fold = [s \in SUBSET (1..len) |-> Loop(fold, s)]
    BY <1>2
<1>4. TokensOf(n, built) = fold[1..len]
    BY <1>1 DEF TokensOf, FoldLeft, MapThenFoldSet
<1>5. PICK sum : GoesThrough(sum, fold, len)
    BY LoopGoes
<1> HIDE DEF fold
<1>6. sum[0] = 0
    BY <1>3, <1>5 DEF GoesThrough
<1>7. \A i \in 1..len : sum[i] = Step(sum[i - 1], i)
    <2> SUFFICES ASSUME NEW i \in 1..len  PROVE sum[i] = Step(sum[i - 1], i)
        OBVIOUS
    <2>1. PICK s \in SUBSET (1..len) :
            s # {} /\ Max(s) = i /\ sum[i] = fold[s] /\ sum[i - 1] = fold[s \ {i}]
        BY <1>5 DEF GoesThrough
    <2>2. fold[s] = Loop(fold, s)
        BY <1>3
    <2> HIDE DEF Step
    <2>3. QED  BY <2>1, <2>2
<1>8. QED  BY <1>1, <1>4, <1>5, <1>6, <1>7 DEF GoesThrough, Counts

\* Whatever adds up in the same way is that sum.
LEMMA TokensAre ==
    ASSUME NEW R, HaveTokens(R), NEW built \in Seq(R), NEW n,
           NEW part, Counts(part, built, n)
    PROVE  TokensOf(n, built) = part[Len(built)]
<1>1. PICK sum : Counts(sum, built, n) /\ TokensOf(n, built) = sum[Len(built)]
    BY TokensSteps
<1>2. PICK len \in Nat : len = Len(built) /\ DOMAIN built = 1..len
    OBVIOUS
<1> DEFINE T == {i \in 0..len : part[i] = sum[i] /\ part[i] \in Nat}
<1>3. 0 \in T
    BY <1>1 DEF Counts
<1>4. ASSUME NEW i \in 0..len, i \in T, i < len
      PROVE  i + 1 \in T
    <2>1. i + 1 \in 1..len /\ (i + 1) - 1 = i /\ built[i + 1] \in R
        BY <1>2, <1>4
    <2>2. built[i + 1].tokens \in Nat /\ part[i] = sum[i] /\ part[i] \in Nat
        BY <1>4, <2>1 DEF HaveTokens
    <2>3. part[i + 1] = sum[i + 1] /\ part[i + 1] \in Nat
        BY <1>1, <1>2, <2>1, <2>2 DEF Counts
    <2>4. QED  BY <2>1, <2>3
<1>5. \A i \in 0..len : i \in T
    <2> HIDE DEF T
    <2>1. QED  BY <1>3, <1>4, CountUp
<1>6. len \in 0..len
    OBVIOUS
<1>7. QED  BY <1>1, <1>2, <1>5, <1>6

\* FlattenSeq, as the loop that it is.
LEMMA FlattenSteps ==
    ASSUME NEW S, NEW seqs \in Seq(Seq(S)), seqs # <<>>
    PROVE  \E flat : /\ flat[1] = seqs[1]
                     /\ \A i \in 2..Len(seqs) : flat[i] = flat[i - 1] \o seqs[i]
                     /\ FlattenSeq(seqs) = flat[Len(seqs)]
<1>1. PICK n \in Nat : n = Len(seqs) /\ DOMAIN seqs = 1..n /\ n # 0
    OBVIOUS
<1> DEFINE flat == CHOOSE g : g = [i \in 1..n |-> IF i = 1 THEN seqs[i] ELSE g[i - 1] \o seqs[i]]
<1>2. \E g : g = [i \in 1..n |-> IF i = 1 THEN seqs[i] ELSE g[i - 1] \o seqs[i]]
    <2> DEFINE Step(v, i) == IF i = 1 THEN seqs[i] ELSE v \o seqs[i]
    <2>1. PICK step : step = [i \in 1..n |-> [v \in Seq(S) |-> Step(v, i)]]
        OBVIOUS
    <2>2. step \in [1..n -> [Seq(S) -> Seq(S)]] /\ <<>> \in Seq(S)
        <3>1. \A i \in 1..n : \A v \in Seq(S) : Step(v, i) \in Seq(S)
            BY <1>1
        <3> HIDE DEF Step
        <3>2. QED  BY <2>1, <3>1
    <2>3. PICK fold \in [SUBSET (1..n) -> Seq(S)] : LoopsBy(fold, n, <<>>, step)
        BY <2>2, LoopExists
    <2>4. PICK at : GoesThrough(at, fold, n)
        BY LoopGoes
    <2>5. \A i \in 1..n : at[i] = Step(at[i - 1], i)
        <3> SUFFICES ASSUME NEW i \in 1..n  PROVE at[i] = Step(at[i - 1], i)
            OBVIOUS
        <3>1. PICK s \in SUBSET (1..n) :
                s # {} /\ Max(s) = i /\ at[i] = fold[s] /\ at[i - 1] = fold[s \ {i}]
            BY <2>4 DEF GoesThrough
        <3>2. fold[s] = step[i][fold[s \ {i}]] /\ fold[s \ {i}] \in Seq(S)
            BY <2>3, <3>1 DEF LoopsBy
        <3> HIDE DEF Step
        <3>3. QED  BY <2>1, <3>1, <3>2
    <2>6. PICK g : g = [i \in 1..n |-> at[i]]
        OBVIOUS
    <2>7. \A i \in 1..n : g[i] = IF i = 1 THEN seqs[i] ELSE g[i - 1] \o seqs[i]
        <3> SUFFICES ASSUME NEW i \in 1..n
                     PROVE  g[i] = IF i = 1 THEN seqs[i] ELSE g[i - 1] \o seqs[i]
            OBVIOUS
        <3>1. CASE i = 1
            BY <2>5, <2>6, <3>1
        <3>2. CASE i # 1
            <4>1. i - 1 \in 1..n
                BY <3>2
            <4>2. g[i] = at[i] /\ g[i - 1] = at[i - 1]
                BY <2>6, <4>1
            <4>3. QED  BY <2>5, <3>2, <4>2
        <3>3. QED  BY <3>1, <3>2
    <2>8. g = [i \in 1..n |-> IF i = 1 THEN seqs[i] ELSE g[i - 1] \o seqs[i]]
        BY <2>6, <2>7
    <2>9. QED  BY <2>8
<1>3. flat = [i \in 1..n |-> IF i = 1 THEN seqs[i] ELSE flat[i - 1] \o seqs[i]]
    BY <1>2
<1>4. FlattenSeq(seqs) = flat[n]
    BY <1>1 DEF FlattenSeq
<1> HIDE DEF flat
<1>5. flat[1] = seqs[1]
    <2>1. 1 \in 1..n
        BY <1>1
    <2>2. QED  BY <1>3, <2>1
<1>6. ASSUME NEW i \in 2..n  PROVE flat[i] = flat[i - 1] \o seqs[i]
    <2>1. i \in 1..n /\ i # 1
        OBVIOUS
    <2>2. QED  BY <1>3, <2>1
<1>7. QED  BY <1>1, <1>4, <1>5, <1>6

\* FlattenSeq has what its parts have, once when they have it once.
LEMMA FlattenKeeps ==
    ASSUME NEW S, NEW seqs \in Seq(Seq(S))
    PROVE  /\ FlattenSeq(seqs) \in Seq(S)
           /\ ToSet(FlattenSeq(seqs)) = UNION {ToSet(seqs[i]) : i \in DOMAIN seqs}
           /\ (/\ \A i \in DOMAIN seqs : IsInjective(seqs[i])
               /\ \A i, j \in DOMAIN seqs : i # j => ToSet(seqs[i]) \cap ToSet(seqs[j]) = {})
              => IsInjective(FlattenSeq(seqs))
<1>1. PICK n \in Nat : n = Len(seqs) /\ DOMAIN seqs = 1..n
    OBVIOUS
<1>2. CASE n = 0
    <2>1. FlattenSeq(seqs) = seqs /\ seqs = <<>>
        BY <1>1, <1>2 DEF FlattenSeq
    <2>2. DOMAIN FlattenSeq(seqs) = {} /\ FlattenSeq(seqs) \in Seq(S) /\ DOMAIN seqs = {}
        BY <2>1
    <2>3. QED  BY <2>2 DEF ToSet, IsInjective
<1>3. CASE n # 0
    <2>1. PICK flat : /\ flat[1] = seqs[1]
                      /\ \A i \in 2..Len(seqs) : flat[i] = flat[i - 1] \o seqs[i]
                      /\ FlattenSeq(seqs) = flat[Len(seqs)]
        <3>1. seqs # <<>>
            BY <1>1, <1>3
        <3>2. QED  BY <3>1, FlattenSteps
    <2> DEFINE Apart == /\ \A i \in 1..n : IsInjective(seqs[i])
                        /\ \A i, j \in 1..n : i # j => ToSet(seqs[i]) \cap ToSet(seqs[j]) = {}
               Parts(i) == UNION {ToSet(seqs[j]) : j \in 1..i}
               Good(i) == /\ flat[i] \in Seq(S)
                          /\ ToSet(flat[i]) = Parts(i)
                          /\ Apart => IsInjective(flat[i])
               T == {i \in 0..n : i = 0 \/ Good(i)}
    <2>2. 0 \in T
        BY <1>1
    <2>3. ASSUME NEW i \in 0..n, i \in T, i < n
          PROVE  i + 1 \in T
        <3>1. i + 1 \in 1..n /\ (i + 1) - 1 = i /\ seqs[i + 1] \in Seq(S)
            BY <1>1, <2>3
        <3>2. Parts(i + 1) = Parts(i) \cup ToSet(seqs[i + 1])
            <4>1. 1..(i + 1) = (1..i) \cup {i + 1}
                BY <3>1
            <4>2. QED  BY <4>1
        <3>3. CASE i = 0
            <4>1. Parts(0) = {} /\ flat[1] = seqs[1] /\ i + 1 = 1
                BY <2>1, <3>3
            <4>2. Good(1)
                <5>1. Parts(1) = ToSet(seqs[1])
                    BY <3>2, <3>3, <4>1
                <5>2. 1 \in 1..n /\ seqs[1] \in Seq(S)
                    BY <3>1, <3>3
                <5>3. QED  BY <4>1, <5>1, <5>2
            <4> HIDE DEF Good
            <4>3. QED  BY <3>1, <4>1, <4>2
        <3>4. CASE i # 0
            <4>1. i + 1 \in 2..Len(seqs) /\ Good(i)
                <5>1. i = 0 \/ Good(i)
                    BY <2>3
                <5> HIDE DEF Good
                <5>2. QED  BY <1>1, <2>3, <3>1, <3>4, <5>1
            <4>2. PICK u \in Seq(S), v \in Seq(S) : u = flat[i] /\ v = seqs[i + 1]
                BY <3>1, <4>1
            <4>3. flat[i + 1] = u \o v
                BY <2>1, <3>1, <4>1, <4>2
            <4>4. /\ DOMAIN (u \o v) = 1..(Len(u) + Len(v)) /\ Len(u) \in Nat
                  /\ DOMAIN u = 1..Len(u) /\ DOMAIN v = 1..Len(v) /\ Len(v) \in Nat
                  /\ \A j \in 1..Len(u) : (u \o v)[j] = u[j]
                  /\ \A j \in 1..(Len(u) + Len(v)) :
                        j \notin 1..Len(u) =>
                            j - Len(u) \in 1..Len(v) /\ (u \o v)[j] = v[j - Len(u)]
                BY Joined
            <4>5. u \o v \in Seq(S) /\ ToSet(u \o v) = ToSet(u) \cup ToSet(v)
                BY Joined
            <4>6. ASSUME Apart
                  PROVE  IsInjective(u \o v)
                <5>1. IsInjective(u) /\ IsInjective(v)
                    BY <3>1, <4>1, <4>2, <4>6
                <5>2. ToSet(u) \cap ToSet(v) = {}
                    <6>1. ASSUME NEW j \in 1..i
                          PROVE  ToSet(seqs[j]) \cap ToSet(v) = {}
                        <7>1. j \in 1..n /\ j # i + 1
                            BY <3>1
                        <7>2. QED  BY <3>1, <4>2, <4>6, <7>1
                    <6>2. ToSet(u) = Parts(i)
                        BY <4>1, <4>2
                    <6>3. QED  BY <6>1, <6>2
                <5>3. \A j \in 1..Len(u), k \in 1..Len(v) : u[j] # v[k]
                    BY <4>4, <5>2 DEF ToSet
                <5>4. ASSUME NEW j \in 1..(Len(u) + Len(v)), NEW k \in 1..(Len(u) + Len(v)),
                             (u \o v)[j] = (u \o v)[k]
                      PROVE  j = k
                    <6>1. CASE j \in 1..Len(u) /\ k \in 1..Len(u)
                        BY <4>4, <5>1, <5>4, <6>1 DEF IsInjective
                    <6>2. CASE j \notin 1..Len(u) /\ k \notin 1..Len(u)
                        <7>1. PICK a \in 1..Len(v), b \in 1..Len(v) :
                                a = j - Len(u) /\ b = k - Len(u)
                            BY <4>4, <6>2
                        <7>2. v[a] = v[b]
                            BY <4>4, <5>4, <6>2, <7>1
                        <7>3. a = b
                            BY <4>4, <5>1, <7>2 DEF IsInjective
                        <7>4. QED  BY <4>4, <7>1, <7>3
                    <6>3. CASE j \in 1..Len(u) /\ k \notin 1..Len(u)
                        BY <4>4, <5>3, <5>4, <6>3
                    <6>4. CASE j \notin 1..Len(u) /\ k \in 1..Len(u)
                        BY <4>4, <5>3, <5>4, <6>4
                    <6>5. QED  BY <6>1, <6>2, <6>3, <6>4
                <5>5. QED  BY <4>4, <5>4 DEF IsInjective
            <4>7. Good(i + 1)
                <5>1. ToSet(flat[i + 1]) = Parts(i + 1)
                    BY <3>2, <4>1, <4>2, <4>3, <4>5
                <5>2. flat[i + 1] \in Seq(S)
                    BY <4>3, <4>5
                <5> HIDE DEF Apart, Parts
                <5>3. Apart => IsInjective(flat[i + 1])
                    BY <4>3, <4>6
                <5>4. QED  BY <5>1, <5>2, <5>3
            <4> HIDE DEF Good
            <4>8. QED  BY <3>1, <4>7
        <3>5. QED  BY <3>3, <3>4
    <2>4. \A i \in 0..n : i \in T
        <3> HIDE DEF T
        <3>1. QED  BY <2>2, <2>3, CountUp
    <2>5. Good(n)
        <3>1. n \in 0..n
            OBVIOUS
        <3>2. n \in T
            BY <2>4, <3>1
        <3>3. QED  BY <1>3, <3>2
    <2>6. FlattenSeq(seqs) = flat[n] /\ Parts(n) = UNION {ToSet(seqs[i]) : i \in DOMAIN seqs}
        BY <1>1, <2>1
    <2>7. (/\ \A i \in DOMAIN seqs : IsInjective(seqs[i])
           /\ \A i, j \in DOMAIN seqs : i # j => ToSet(seqs[i]) \cap ToSet(seqs[j]) = {})
          => Apart
        BY <1>1
    <2> HIDE DEF Apart, Parts
    <2>8. QED  BY <2>5, <2>6, <2>7
<1>4. QED  BY <1>2, <1>3

\* The head and the tail of a queue of articles.
LEMMA FirstAndRest ==
    ASSUME NEW S, NEW q \in Seq(S), q # <<>>
    PROVE  /\ Head(q) \in S /\ Tail(q) \in Seq(S)
           /\ ToSet(q) = {Head(q)} \cup ToSet(Tail(q))
           /\ KeysOf(q) = {Key(Head(q))} \cup KeysOf(Tail(q))
           /\ OneEach(q) => OneEach(Tail(q)) /\ Key(Head(q)) \notin KeysOf(Tail(q))
<1>1. PICK n \in Nat : n = Len(q) /\ n # 0 /\ DOMAIN q = 1..n
    OBVIOUS
<1>2. PICK t \in Seq(S) : t = Tail(q)
    <2>1. Tail(q) \in Seq(S)
        OBVIOUS
    <2>2. QED  BY <2>1
<1>3. /\ Head(q) = q[1] /\ q[1] \in S
      /\ DOMAIN t = 1..(n - 1)
      /\ \A i \in 1..(n - 1) : t[i] = q[i + 1] /\ i + 1 \in 1..n
    BY <1>1, <1>2
<1>4. \A i \in 1..n : i = 1 \/ (i - 1 \in 1..(n - 1) /\ q[i] = t[i - 1])
    <2> SUFFICES ASSUME NEW i \in 1..n, i # 1
                 PROVE  i - 1 \in 1..(n - 1) /\ q[i] = t[i - 1]
        OBVIOUS
    <2>1. i - 1 \in 1..(n - 1) /\ (i - 1) + 1 = i
        BY <1>1
    <2>2. QED  BY <1>3, <2>1
<1>5. 1 \in 1..n
    BY <1>1
<1>6. ToSet(q) = {q[1]} \cup ToSet(t)
    <2>1. \A i \in 1..n : q[i] \in {q[1]} \cup ToSet(t)
        BY <1>3, <1>4 DEF ToSet
    <2>2. \A i \in 1..(n - 1) : t[i] \in ToSet(q)
        BY <1>1, <1>3 DEF ToSet
    <2>3. q[1] \in ToSet(q)
        BY <1>1, <1>5 DEF ToSet
    <2>4. ToSet(q) \subseteq {q[1]} \cup ToSet(t)
        BY <1>1, <2>1 DEF ToSet
    <2>5. ToSet(t) \subseteq ToSet(q)
        BY <1>3, <2>2 DEF ToSet
    <2>6. QED  BY <2>3, <2>4, <2>5
<1>7. KeysOf(q) = {Key(q[1])} \cup KeysOf(t)
    BY <1>6 DEF KeysOf
<1>8. ASSUME OneEach(q)
      PROVE  OneEach(t) /\ Key(q[1]) \notin KeysOf(t)
    <2>1. ASSUME NEW i \in 1..(n - 1), NEW j \in 1..(n - 1), Key(t[i]) = Key(t[j])
          PROVE  i = j
        <3>1. Key(q[i + 1]) = Key(q[j + 1]) /\ i + 1 \in 1..n /\ j + 1 \in 1..n
            BY <1>3, <2>1
        <3>2. i + 1 = j + 1
            BY <1>1, <1>8, <3>1 DEF OneEach
        <3>3. QED  BY <3>2
    <2>2. ASSUME NEW i \in 1..(n - 1)  PROVE Key(t[i]) # Key(q[1])
        <3>1. i + 1 \in 1..n /\ i + 1 # 1
            BY <1>3
        <3>2. Key(q[i + 1]) # Key(q[1])
            BY <1>1, <1>5, <1>8, <3>1 DEF OneEach
        <3>3. QED  BY <1>3, <3>2
    <2>3. QED  BY <1>3, <2>1, <2>2 DEF OneEach, KeysOf, ToSet
<1>9. QED  BY <1>2, <1>3, <1>6, <1>7, <1>8

-----------------------------------------------------------------------------
(* The shares that AllocateInt gives add up to the whole: a sum is stated  *)
(* by its partial sums, each of which grows by the share of one part, from *)
(* 0 to the total.                                                         *)

\* What the first k parts get.
AllocatedBefore(total, parts, k) ==
    k * (total \div parts) + (IF k < total % parts THEN k ELSE total % parts)

\* Division with remainder.
LEMMA QuotientAndRemainder ==
    ASSUME NEW total \in Nat, NEW parts \in Nat \ {0}
    PROVE  /\ total \div parts \in Nat
           /\ total % parts \in 0..parts - 1
           /\ total = parts * (total \div parts) + (total % parts)
  BY SMT

\* The partial sums of allocateInt grow by one part's share, from nothing to
\* all tokens: whatever the number of pairs, no token of the article is lost
\* or counted twice.
THEOREM AllocationAddsUp ==
    ASSUME NEW total \in Nat, NEW parts \in Nat \ {0}
    PROVE  /\ AllocatedBefore(total, parts, 0) = 0
           /\ AllocatedBefore(total, parts, parts) = total
           /\ \A idx \in 0..parts - 1 :
                AllocatedBefore(total, parts, idx + 1) =
                  AllocatedBefore(total, parts, idx) + AllocateInt(total, parts, idx)
  <1> DEFINE q == total \div parts
             r == total % parts
  <1>1. q \in Nat /\ r \in 0..parts - 1 /\ total = parts * q + r
    BY QuotientAndRemainder
  <1>2. AllocatedBefore(total, parts, 0) = 0
    <2>1. 0 * q = 0
      BY <1>1
    <2> QED  BY <1>1, <2>1 DEF AllocatedBefore
  <1>3. AllocatedBefore(total, parts, parts) = total
    BY <1>1 DEF AllocatedBefore
  <1>4. ASSUME NEW idx \in 0..parts - 1
        PROVE  AllocatedBefore(total, parts, idx + 1) =
                 AllocatedBefore(total, parts, idx) + AllocateInt(total, parts, idx)
    <2>1. (idx + 1) * q = idx * q + q
      BY <1>1
    <2>2. CASE total = 0
      <3>1. q = 0 /\ r = 0
        BY <2>2, <1>1
      <3>2. AllocateInt(total, parts, idx) = 0
        BY <2>2 DEF AllocateInt
      <3> QED  BY <3>1, <3>2, <2>1 DEF AllocatedBefore
    <2>3. CASE total > 0
      <3>1. AllocateInt(total, parts, idx) = q + (IF idx < r THEN 1 ELSE 0)
        BY <2>3 DEF AllocateInt
      <3>2. idx * q \in Nat
        BY <1>1
      <3> HIDE DEF q, r
      <3>3. AllocatedBefore(total, parts, idx) = idx * q + (IF idx < r THEN idx ELSE r)
        BY DEF AllocatedBefore, q, r
      <3>4. AllocatedBefore(total, parts, idx + 1)
              = (idx + 1) * q + (IF idx + 1 < r THEN idx + 1 ELSE r)
        BY DEF AllocatedBefore, q, r
      <3> QED  BY <1>1, <2>1, <3>1, <3>2, <3>3, <3>4
    <2> QED  BY <2>2, <2>3
  <1> QED  BY <1>2, <1>3, <1>4

\* Two pairs of one article differ by at most one token of its base charge.
THEOREM AllocationIsEven ==
    ASSUME NEW total \in Nat, NEW parts \in Nat \ {0},
           NEW i \in 0..parts - 1, NEW j \in 0..parts - 1
    PROVE  /\ AllocateInt(total, parts, i) \in Nat
           /\ AllocateInt(total, parts, i) <= AllocateInt(total, parts, j) + 1
  BY QuotientAndRemainder DEF AllocateInt

-----------------------------------------------------------------------------
(* What makes the properties of a run inductive.                           *)

Event == [article : Articles, base : Nat, charged : Nat]
Pair == [parent : ToSet(Symbols), child : ToSet(Symbols) \cup {NA}]
Row(n) == [event : 1..n, parent : ToSet(Symbols) \cup {"UNKNOWN"},
           child : ToSet(Symbols) \cup {NA}, tokens : Nat]

\* TypeOK with sequences as such, and what a stage says of them.
TypesInv ==
    /\ stage \in {"new", "collect", "fallback", "backfill", "run", "pairs", "done", "failed"}
    /\ request \in Requests
    /\ clock \in Start..MaxClock
    /\ window \in [from : Int, to : Int]
    /\ pending \in Seq(ToSet(EnabledSources))
    /\ collected \in Seq(Articles)
    /\ delivered \subseteq Articles
    /\ queue \in Seq(Articles)
    /\ events \in Seq(Event)
    /\ specs \in Seq(Pair)
    /\ answers \in Seq(Nat) /\ Len(answers) <= Len(specs)
    /\ rows \in Seq(Row(Len(events)))
    /\ stage = "pairs" => Len(answers) < Len(specs) /\ events # <<>>
    /\ stage = "fallback" => pending # <<>> /\ Head(pending) \in CrawlFallback

Due == {a \in delivered : a.source \in ToSet(SelectedSources) /\ InWindow(a)}

\* The articles of a run are those of the sources asked for, in the window.
CollectInv ==
    /\ ToSet(pending) \subseteq ToSet(SelectedSources)
    /\ ToSet(collected) = Due
    /\ stage \in {"new", "backfill"} => delivered = {} /\ pending = <<>>
    /\ stage \in {"new", "backfill", "collect", "fallback"} => events = <<>> /\ rows = <<>>

IsRelevant(story) == Relevant(story, request.entities, request.profile)

ArticlesOfEvents == {events[i].article : i \in DOMAIN events}
KeysOfEvents == {Key(events[i].article) : i \in DOMAIN events}

\* The articles that are to be events, and those of them a sequence holds.
Become == {a \in First(collected) : IsRelevant(a.story)}
RelevantIn(list) == {a \in ToSet(list) : IsRelevant(a.story)}

\* The first article of a key, if it is relevant, has its event or waits for it;
\* no key has two.
StoriesInv ==
    stage \in {"run", "pairs", "done"} =>
        /\ OneEach(queue)
        /\ KeysOf(queue) \cap KeysOfEvents = {}
        /\ \A i, j \in DOMAIN events :
            Key(events[i].article) = Key(events[j].article) => i = j
        /\ ArticlesOfEvents \cup RelevantIn(queue) = Become
        /\ stage = "done" => queue = <<>>

\* The event whose pairs are not all classified.
InProgress(n) == stage = "pairs" /\ n = Len(events)

RowsOf(n) == {i \in DOMAIN rows : rows[i].event = n}

Conserved(n) == RowsOf(n) # {} => TokensOf(n, rows) = events[n].charged

\* The entities a story is mapped to, and its pairs: parents, and under each the
\* children it is mapped to.
MappedTo(story) == {Symbols[n] : n \in FirstsIn(EntityID, Mentions[story], Symbols)}

ChildrenIn(story, parent) ==
    {c \in MappedTo(story) : \E g \in Groups : g.impact /\ g.parent = parent /\ c \in g.children}

ParentsIn(story, names) ==
    {p \in MappedTo(story) \cap Requested(names) : \E g \in Groups : g.impact /\ g.parent = p}

PairsIn(story, names) ==
    {<<p, NA>> : p \in {q \in ParentsIn(story, names) : ChildrenIn(story, q) = {}}}
      \cup UNION {{<<p, c>> : c \in ChildrenIn(story, p)} : p \in ParentsIn(story, names)}

Complete(n) ==
    /\ {<<rows[i].parent, rows[i].child>> : i \in RowsOf(n)} =
        PairsIn(events[n].article.story, request.entities)
    /\ \A i, j \in RowsOf(n) :
        rows[i].parent = rows[j].parent /\ rows[i].child = rows[j].child => i = j

\* The partial sums of given go from 0 to whole.
AddsUpTo(given, whole) ==
    \E sum : /\ sum[0] = 0
             /\ \A i \in 1..Len(given) : sum[i] = sum[i - 1] + given[i]
             /\ sum[Len(given)] = whole

\* In impact mode the events before the last have their rows; the last one has
\* none while its pairs are classified, and owes what they have cost so far.
RowsInv ==
    (stage \in {"run", "pairs", "done"} /\ ImpactMode(request.entities)) =>
        /\ \A n \in DOMAIN events : ~ InProgress(n) => Conserved(n) /\ Complete(n)
        /\ stage = "pairs" =>
            /\ RowsOf(Len(events)) = {}
            /\ specs = PairSpecs(Last(events).article.story, request.entities)
            /\ \E spent \in Nat :
                /\ AddsUpTo(answers, spent)
                /\ Last(events).charged = Last(events).base + spent

Inv == TypesInv /\ CollectInv /\ StoriesInv /\ RowsInv

-----------------------------------------------------------------------------
(* What the sources deliver.                                               *)

\* What a feed delivers are articles of its source.
LEMMA FeedArticles ==
    ASSUME NEW source \in ToSet(EnabledSources), Kind[source] = "rss", NEW t \in Nat
    PROVE  /\ FromFeed(source, t) \in Seq(Articles)
           /\ \A a \in ToSet(FromFeed(source, t)) : a.source = source
<1>1. PICK feed \in Seq(Stories) : feed = Feed[source]
    BY CollectorAssumption
<1>2. PICK n \in Nat : n = Len(feed) /\ DOMAIN feed = 1..n /\ \A i \in 1..n : feed[i] \in Stories
    OBVIOUS
<1>3. PICK f : f = FromFeed(source, t)
    OBVIOUS
<1>4. f = [i \in 1..n |-> Dated(source, feed[i], t, TRUE)]
    BY <1>1, <1>2, <1>3 DEF FromFeed
<1>5. \A i \in 1..n : Dated(source, feed[i], t, TRUE) \in Articles
    BY <1>2, CollectorAssumption DEF Dated, Articles
<1>6. \A i \in 1..n : f[i] \in Articles /\ f[i].source = source
    <2>1. \A i \in 1..n : f[i] = Dated(source, feed[i], t, TRUE)
        BY <1>4
    <2>2. \A i \in 1..n : Dated(source, feed[i], t, TRUE).source = source
        BY DEF Dated
    <2>3. QED  BY <1>5, <2>1, <2>2
<1>7. f = [i \in 1..n |-> f[i]]
    BY <1>4
<1>8. f \in Seq(Articles) /\ ToSet(f) = {f[i] : i \in 1..n}
    BY <1>6, <1>7, Mapped
<1>9. QED  BY <1>3, <1>6, <1>8

\* What a crawl delivers are articles of its source.
LEMMA PageArticles ==
    ASSUME NEW source \in ToSet(EnabledSources),
           Kind[source] # "rss" \/ source \in CrawlFallback,
           NEW readable, NEW t \in Nat
    PROVE  /\ FromPages(source, readable, t) \in Seq(Articles)
           /\ \A a \in ToSet(FromPages(source, readable, t)) : a.source = source
<1>1. PICK found \in Seq(Stories) : found = Only(readable, Pages[source])
    <2>1. Pages[source] \in Seq(Stories)
        BY CollectorAssumption
    <2>2. Only(readable, Pages[source]) \in Seq(Stories)
        BY <2>1, OnlyKeeps
    <2>3. QED  BY <2>2
<1>2. PICK n \in Nat : n = Len(found) /\ DOMAIN found = 1..n /\ \A i \in 1..n : found[i] \in Stories
    OBVIOUS
<1>3. PICK f : f = FromPages(source, readable, t)
    OBVIOUS
<1>4. f = [i \in 1..n |->
            [source |-> source, story |-> found[i], published |-> t, hashed |-> TRUE]]
    BY <1>1, <1>2, <1>3 DEF FromPages
<1>5. \A i \in 1..n : f[i] \in Articles /\ f[i].source = source
    BY <1>2, <1>4 DEF Articles
<1>6. f = [i \in 1..n |-> f[i]]
    BY <1>4
<1>7. f \in Seq(Articles) /\ ToSet(f) = {f[i] : i \in 1..n}
    BY <1>5, <1>6, Mapped
<1>8. QED  BY <1>3, <1>5, <1>7

\* What a backfill delivers are articles.
LEMMA ArchiveArticles ==
    ASSUME NEW t \in Nat
    PROVE  FromArchive(t) \in Seq(Articles)
<1>1. PICK n \in Nat : DOMAIN Archive = 1..n
    BY CollectorAssumption
<1>2. PICK f : f = FromArchive(t)
    OBVIOUS
<1>3. f = [i \in 1..n |-> Dated(Archive[i].source, Archive[i].story, t, FALSE)]
    BY <1>1, <1>2 DEF FromArchive
<1>4. ASSUME NEW i \in 1..n  PROVE f[i] \in Articles
    <2>1. Archive[i].story \in Stories
        <3>1. PICK A : A = [source : {Archive[k].source : k \in DOMAIN Archive}, story : Stories]
            OBVIOUS
        <3>2. Archive \in Seq(A)
            BY <3>1, CollectorAssumption
        <3>3. Archive[i] \in A
            BY <1>1, <3>2
        <3>4. QED  BY <3>1, <3>3
    <2>2. Archive[i].source \in {a.source : a \in ToSet(Archive)}
        BY <1>1 DEF ToSet
    <2>3. f[i] = Dated(Archive[i].source, Archive[i].story, t, FALSE)
        BY <1>3
    <2>4. DateOf[Archive[i].story] \in Nat \cup {None}
        BY <2>1, CollectorAssumption
    <2>5. QED  BY <2>1, <2>2, <2>3, <2>4 DEF Dated, Articles
<1>5. f = [i \in 1..n |-> f[i]]
    BY <1>3
<1>6. f \in Seq(Articles)
    BY <1>4, <1>5, Mapped
<1>7. QED  BY <1>2, <1>6

\* The clock stays within its bounds.
LEMMA TheClock ==
    ASSUME TypesInv, TimePasses
    PROVE  clock' \in Start..MaxClock /\ clock' \in Nat
  BY CollectorAssumption DEF TypesInv, TimePasses

\* A source that answers adds its articles of the window, and no others.
LEMMA ReceiveKeeps ==
    ASSUME TypesInv, CollectInv, stage \in {"collect", "fallback"}, pending # <<>>,
           TimePasses, UNCHANGED runVars,
           NEW articles \in Seq(Articles), \A a \in ToSet(articles) : a.source = Head(pending),
           Receive(articles)
    PROVE  TypesInv' /\ CollectInv'
<1> DEFINE taken == Only({a \in ToSet(articles) : InWindow(a)}, articles)
<1>1. taken \in Seq(Articles) /\ ToSet(taken) = {a \in ToSet(articles) : InWindow(a)}
    <2>1. PICK wanted : wanted = {a \in ToSet(articles) : InWindow(a)}
        OBVIOUS
    <2>2. Only(wanted, articles) \in Seq(Articles)
          /\ ToSet(Only(wanted, articles)) = ToSet(articles) \cap wanted
        BY OnlyKeeps
    <2>3. QED  BY <2>1, <2>2
<1> HIDE DEF taken
<1>2. /\ collected' = collected \o taken /\ delivered' = delivered \cup ToSet(articles)
      /\ pending' = Tail(pending) /\ stage' = "collect" /\ UNCHANGED <<request, window>>
    BY DEF Receive, taken
<1>3. /\ collected' \in Seq(Articles)
      /\ ToSet(collected') = ToSet(collected) \cup ToSet(taken)
    BY <1>1, <1>2, Joined DEF TypesInv
<1>4. /\ Head(pending) \in ToSet(pending)
      /\ pending' \in Seq(ToSet(EnabledSources)) /\ ToSet(pending') \subseteq ToSet(pending)
    BY <1>2, FirstAndRest DEF TypesInv
<1>5. ToSet(articles) \subseteq Articles
    BY SeqOver
<1>6. TypesInv'
    BY <1>2, <1>3, <1>4, <1>5, TheClock DEF TypesInv, runVars
<1>7. SelectedSources' = SelectedSources /\ \A a : InWindow(a)' = InWindow(a)
    BY <1>2 DEF SelectedSources, InWindow
<1>8. Due' = Due \cup {a \in ToSet(articles) : InWindow(a)}
    <2>1. Head(pending) \in ToSet(SelectedSources)
        BY <1>4 DEF CollectInv
    <2>2. QED  BY <1>2, <1>7, <2>1 DEF Due
<1>9. CollectInv'
    BY <1>1, <1>2, <1>3, <1>4, <1>7, <1>8 DEF CollectInv, runVars
<1>10. QED  BY <1>6, <1>9

-----------------------------------------------------------------------------
(* The pairs and the rows of an event.                                     *)

\* The mapper finds the entities a story is mapped to, each once.
LEMMA MatchesAre ==
    ASSUME NEW story
    PROVE  /\ EntityMatches(story) \in Seq(ToSet(Symbols))
           /\ ToSet(EntityMatches(story)) = MappedTo(story)
           /\ IsInjective(EntityMatches(story))
<1>1. PICK S, wanted : S = ToSet(Symbols) /\ wanted = Mentions[story]
    OBVIOUS
<1>2. Symbols \in Seq(S)
    BY <1>1, ImpactRowsAssumption
<1>3. PICK matches : matches = FirstOfEach(EntityID, wanted, Symbols)
    OBVIOUS
<1>4. /\ matches \in Seq(S)
      /\ ToSet(matches) = {Symbols[n] : n \in FirstsIn(EntityID, wanted, Symbols)}
      /\ Distinct(EntityID, matches)
    BY <1>2, <1>3, FirstOfEachKeeps
<1>5. IsInjective(matches)
    BY <1>4 DEF Distinct, IsInjective
<1>6. QED  BY <1>1, <1>3, <1>4, <1>5 DEF EntityMatches, MappedTo

\* Those of them that are among others.
LEMMA MatchedAre ==
    ASSUME NEW story, NEW among
    PROVE  /\ Matched(story, among) \in Seq(ToSet(Symbols))
           /\ ToSet(Matched(story, among)) = MappedTo(story) \cap among
           /\ IsInjective(Matched(story, among))
<1>1. PICK matches : matches = EntityMatches(story)
    OBVIOUS
<1>2. /\ matches \in Seq(ToSet(Symbols)) /\ ToSet(matches) = MappedTo(story)
      /\ IsInjective(matches)
    BY <1>1, MatchesAre
<1>3. Matched(story, among) = Only(among, matches)
    BY <1>1 DEF Matched
<1>4. QED  BY <1>2, <1>3, OnlyKeeps

\* The children of a parent, as groups have them and as a story does.
LEMMA GroupsAre ==
    ASSUME NEW story, NEW parent
    PROVE  MappedTo(story) \cap ChildrenOf(parent) = ChildrenIn(story, parent)
  BY DEF ChildrenOf, ImpactGroups, ChildrenIn

\* The pairs of one parent.
PairsUnder(story, parent) ==
    IF ChildrenIn(story, parent) = {}
    THEN {[parent |-> parent, child |-> NA]}
    ELSE {[parent |-> parent, child |-> c] : c \in ChildrenIn(story, parent)}

\* The pairs of one parent are those under it, each once.
LEMMA PairsOfParentAre ==
    ASSUME NEW story, NEW parent \in ToSet(Symbols)
    PROVE  /\ PairsOfParent(story, parent) \in Seq(Pair)
           /\ IsInjective(PairsOfParent(story, parent))
           /\ ToSet(PairsOfParent(story, parent)) = PairsUnder(story, parent)
<1>1. PICK children \in Seq(ToSet(Symbols)) : children = Matched(story, ChildrenOf(parent))
    <2>1. Matched(story, ChildrenOf(parent)) \in Seq(ToSet(Symbols))
        BY MatchedAre
    <2>2. QED  BY <2>1
<1>2. IsInjective(children) /\ ToSet(children) = ChildrenIn(story, parent)
    <2>1. PICK among : among = ChildrenOf(parent)
        OBVIOUS
    <2>2. /\ IsInjective(Matched(story, among))
          /\ ToSet(Matched(story, among)) = MappedTo(story) \cap among
        BY MatchedAre
    <2>3. QED  BY <1>1, <2>1, <2>2, GroupsAre
<1>3. PICK n \in Nat : /\ n = Len(children) /\ DOMAIN children = 1..n
                       /\ \A i \in 1..n : children[i] \in ToSet(Symbols)
    OBVIOUS
<1>4. PICK pairs : pairs = PairsOfParent(story, parent)
    OBVIOUS
<1>5. CASE children = <<>>
    <2>1. pairs = <<[parent |-> parent, child |-> NA]>>
        BY <1>1, <1>4, <1>5 DEF PairsOfParent
    <2>2. DOMAIN pairs = {1} /\ pairs[1] = [parent |-> parent, child |-> NA]
        BY <2>1
    <2>3. [parent |-> parent, child |-> NA] \in Pair
        BY DEF Pair
    <2>4. pairs \in Seq(Pair) /\ IsInjective(pairs)
          /\ ToSet(pairs) = {[parent |-> parent, child |-> NA]}
        BY <2>1, <2>2, <2>3 DEF ToSet, IsInjective
    <2>5. ChildrenIn(story, parent) = {}
        BY <1>2, <1>5 DEF ToSet
    <2>6. QED  BY <1>4, <2>4, <2>5 DEF PairsUnder
<1>6. CASE children # <<>>
    <2>1. pairs = [i \in 1..n |-> [parent |-> parent, child |-> children[i]]]
        BY <1>1, <1>3, <1>4, <1>6 DEF PairsOfParent
    <2>2. \A i \in 1..n : /\ pairs[i] = [parent |-> parent, child |-> children[i]]
                          /\ pairs[i] \in Pair
        BY <1>3, <2>1 DEF Pair
    <2>3. pairs = [i \in 1..n |-> pairs[i]]
        BY <2>1
    <2>4. pairs \in Seq(Pair) /\ DOMAIN pairs = 1..n /\ ToSet(pairs) = {pairs[i] : i \in 1..n}
        BY <2>2, <2>3, Mapped
    <2>5. ToSet(children) = {children[i] : i \in 1..n}
        BY <1>3 DEF ToSet
    <2>6. ToSet(pairs) = {[parent |-> parent, child |-> c] : c \in ToSet(children)}
        BY <2>2, <2>4, <2>5
    <2>7. IsInjective(pairs)
        <3>1. ASSUME NEW i \in 1..n, NEW j \in 1..n, pairs[i] = pairs[j]
              PROVE  i = j
            <4>1. PICK a, b : a = children[i] /\ b = children[j]
                OBVIOUS
            <4>2. [parent |-> parent, child |-> a] = [parent |-> parent, child |-> b]
                BY <2>2, <3>1, <4>1
            <4>3. a = b
                BY <4>2
            <4>4. QED  BY <1>2, <1>3, <4>1, <4>3 DEF IsInjective
        <3>2. QED  BY <2>4, <3>1 DEF IsInjective
    <2>8. ToSet(children) # {}
        <3>1. 1 \in 1..n
            BY <1>3, <1>6
        <3>2. children[1] \in ToSet(children)
            BY <1>3, <3>1 DEF ToSet
        <3>3. QED  BY <3>2
    <2>9. QED  BY <1>2, <1>4, <2>4, <2>6, <2>7, <2>8 DEF PairsUnder
<1>7. QED  BY <1>5, <1>6

\* The pairs of an event are the parents a story is mapped to, each with every
\* child it is mapped to or with none, and each pair is there once.
LEMMA PairSpecsAre ==
    ASSUME NEW story, NEW names
    PROVE  /\ PairSpecs(story, names) \in Seq(Pair)
           /\ IsInjective(PairSpecs(story, names))
           /\ ImpactMode(names) =>
                {<<pair.parent, pair.child>> : pair \in ToSet(PairSpecs(story, names))} =
                    PairsIn(story, names)
<1>1. PICK parents \in Seq(ToSet(Symbols)) : parents = Matched(story, ImpactParents(names))
    <2>1. Matched(story, ImpactParents(names)) \in Seq(ToSet(Symbols))
        BY MatchedAre
    <2>2. QED  BY <2>1
<1>2. /\ IsInjective(parents)
      /\ ToSet(parents) = MappedTo(story) \cap ImpactParents(names)
    <2>1. PICK among : among = ImpactParents(names)
        OBVIOUS
    <2>2. /\ IsInjective(Matched(story, among))
          /\ ToSet(Matched(story, among)) = MappedTo(story) \cap among
        BY MatchedAre
    <2>3. QED  BY <1>1, <2>1, <2>2
<1>3. PICK n \in Nat : /\ n = Len(parents) /\ DOMAIN parents = 1..n
                       /\ \A i \in 1..n : parents[i] \in ToSet(Symbols)
    OBVIOUS
<1>4. PICK parts : parts = [i \in 1..n |-> PairsOfParent(story, parents[i])]
    OBVIOUS
<1>5. \A i \in 1..n : parts[i] = PairsOfParent(story, parents[i])
    BY <1>4
<1>6. \A i \in 1..n :
        /\ parts[i] \in Seq(Pair) /\ IsInjective(parts[i])
        /\ ToSet(parts[i]) = PairsUnder(story, parents[i])
    BY <1>3, <1>5, PairsOfParentAre
<1>7. parts \in Seq(Seq(Pair)) /\ DOMAIN parts = 1..n
    <2>1. parts = [i \in 1..n |-> parts[i]]
        BY <1>4
    <2>2. QED  BY <1>6, <2>1, Mapped
<1>8. PICK pairs : pairs = PairSpecs(story, names) /\ pairs = FlattenSeq(parts)
    BY <1>1, <1>3, <1>4 DEF PairSpecs
<1>9. \A i \in 1..n : \A pair \in ToSet(parts[i]) : pair.parent = parents[i]
    <2>1. \A p : \A pair \in PairsUnder(story, p) : pair.parent = p
        BY DEF PairsUnder
    <2>2. QED  BY <1>6, <2>1
<1>10. \A i, j \in 1..n : i # j => ToSet(parts[i]) \cap ToSet(parts[j]) = {}
    <2> SUFFICES ASSUME NEW i \in 1..n, NEW j \in 1..n,
                        NEW pair \in ToSet(parts[i]), pair \in ToSet(parts[j])
                 PROVE  i = j
        OBVIOUS
    <2>1. parents[i] = parents[j]
        BY <1>9
    <2>2. QED  BY <1>2, <1>3, <2>1 DEF IsInjective
<1>11. /\ pairs \in Seq(Pair) /\ IsInjective(pairs)
       /\ ToSet(pairs) = UNION {ToSet(parts[i]) : i \in 1..n}
    <2>1. \A i \in DOMAIN parts : IsInjective(parts[i])
        BY <1>6, <1>7
    <2>2. \A i, j \in DOMAIN parts : i # j => ToSet(parts[i]) \cap ToSet(parts[j]) = {}
        BY <1>7, <1>10
    <2>3. QED  BY <1>7, <1>8, <2>1, <2>2, FlattenKeeps
<1>12. ASSUME ImpactMode(names)
       PROVE  {<<pair.parent, pair.child>> : pair \in ToSet(pairs)} = PairsIn(story, names)
    <2>1. ToSet(parents) = ParentsIn(story, names)
        <3>1. names # <<>>
            BY <1>12 DEF ImpactMode, ImpactParents
        <3>2. \A p : p \in ImpactParents(names) <=>
                p \in Requested(names) /\ \E g \in Groups : g.impact /\ g.parent = p
            BY <3>1 DEF ImpactParents, ImpactGroups
        <3>3. QED  BY <1>2, <3>2 DEF ParentsIn
    <2>2. ParentsIn(story, names) = {parents[i] : i \in 1..n}
        BY <1>3, <2>1 DEF ToSet
    <2>3. \A pair : pair \in ToSet(pairs) <=>
            \E p \in ParentsIn(story, names) : pair \in PairsUnder(story, p)
        BY <1>6, <1>11, <2>2
    <2>4. ASSUME NEW pair \in ToSet(pairs)
          PROVE  <<pair.parent, pair.child>> \in PairsIn(story, names)
        <3>1. PICK p \in ParentsIn(story, names) : pair \in PairsUnder(story, p)
            BY <2>3
        <3>2. CASE ChildrenIn(story, p) = {}
            BY <3>1, <3>2 DEF PairsIn, PairsUnder
        <3>3. CASE ChildrenIn(story, p) # {}
            <4>1. PICK c \in ChildrenIn(story, p) : pair = [parent |-> p, child |-> c]
                BY <3>1, <3>3 DEF PairsUnder
            <4>2. QED  BY <4>1 DEF PairsIn
        <3>4. QED  BY <3>2, <3>3
    <2>5. ASSUME NEW two \in PairsIn(story, names)
          PROVE  \E pair \in ToSet(pairs) : two = <<pair.parent, pair.child>>
        <3>1. CASE \E p \in ParentsIn(story, names) : ChildrenIn(story, p) = {} /\ two = <<p, NA>>
            <4>1. PICK p \in ParentsIn(story, names) : ChildrenIn(story, p) = {} /\ two = <<p, NA>>
                BY <3>1
            <4>2. [parent |-> p, child |-> NA] \in ToSet(pairs)
                BY <2>3, <4>1 DEF PairsUnder
            <4>3. QED  BY <4>1, <4>2
        <3>2. CASE \E p \in ParentsIn(story, names) :
                    \E c \in ChildrenIn(story, p) : two = <<p, c>>
            <4>1. PICK p \in ParentsIn(story, names) :
                    \E c \in ChildrenIn(story, p) : two = <<p, c>>
                BY <3>2
            <4>2. PICK c \in ChildrenIn(story, p) : two = <<p, c>>
                BY <4>1
            <4>3. [parent |-> p, child |-> c] \in ToSet(pairs)
                BY <2>3, <4>2 DEF PairsUnder
            <4>4. QED  BY <4>2, <4>3
        <3>3. QED  BY <3>1, <3>2 DEF PairsIn
    <2>6. QED  BY <2>4, <2>5
<1>13. QED  BY <1>8, <1>11, <1>12

\* Rows of other events change no sum.
LEMMA TokensOfMore ==
    ASSUME NEW R, HaveTokens(R),
           NEW u \in Seq(R), NEW v \in Seq(R), NEW n
    PROVE  /\ (\A i \in DOMAIN v : v[i].event # n) => TokensOf(n, u \o v) = TokensOf(n, u)
           /\ (\A i \in DOMAIN u : u[i].event # n) => TokensOf(n, u \o v) = TokensOf(n, v)
<1>1. PICK a \in Nat, b \in Nat : a = Len(u) /\ b = Len(v)
    OBVIOUS
<1>2. /\ u \o v \in Seq(R) /\ Len(u \o v) = a + b
      /\ DOMAIN u = 1..a /\ DOMAIN v = 1..b
      /\ \A i \in 1..a : (u \o v)[i] = u[i]
      /\ \A i \in 1..(a + b) : i \notin 1..a => i - a \in 1..b /\ (u \o v)[i] = v[i - a]
    BY <1>1, Joined
<1>3. ASSUME \A i \in DOMAIN v : v[i].event # n
      PROVE  TokensOf(n, u \o v) = TokensOf(n, u)
    <2>1. PICK sum : /\ sum[0] = 0
                     /\ \A i \in 1..a : sum[i] = IF u[i].event = n THEN sum[i - 1] + u[i].tokens
                                                                   ELSE sum[i - 1]
                     /\ TokensOf(n, u) = sum[a]
        <3>1. PICK sum : Counts(sum, u, n) /\ TokensOf(n, u) = sum[Len(u)]
            BY TokensSteps
        <3>2. QED  BY <1>1, <3>1 DEF Counts
    <2>2. PICK part : part = [i \in 0..(a + b) |-> IF i \in 0..a THEN sum[i] ELSE sum[a]]
        OBVIOUS
    <2>3. part[0] = 0 /\ part[a + b] = sum[a]
        <3>1. 0 \in 0..a /\ 0 \in 0..(a + b) /\ a + b \in 0..(a + b)
            OBVIOUS
        <3>2. CASE b = 0
            BY <2>1, <2>2, <3>1, <3>2
        <3>3. CASE b # 0
            <4>1. a + b \notin 0..a
                BY <3>3
            <4>2. QED  BY <2>1, <2>2, <3>1, <4>1
        <3>4. QED  BY <3>2, <3>3
    <2>4. ASSUME NEW i \in 1..(a + b)
          PROVE  part[i] = IF (u \o v)[i].event = n THEN part[i - 1] + (u \o v)[i].tokens
                                                    ELSE part[i - 1]
        <3>1. CASE i \in 1..a
            <4>1. part[i] = sum[i] /\ part[i - 1] = sum[i - 1] /\ (u \o v)[i] = u[i]
                BY <1>2, <2>2, <3>1
            <4>2. QED  BY <2>1, <3>1, <4>1
        <3>2. CASE i \notin 1..a
            <4>1. part[i] = sum[a] /\ part[i - 1] = sum[a]
                BY <2>2, <3>2
            <4>2. (u \o v)[i].event # n
                BY <1>2, <1>3, <3>2
            <4>3. QED  BY <4>1, <4>2
        <3>3. QED  BY <3>1, <3>2
    <2>5. PICK uv \in Seq(R) : uv = u \o v /\ Len(uv) = a + b
        BY <1>2
    <2>6. Counts(part, uv, n)
        BY <2>3, <2>4, <2>5 DEF Counts
    <2>7. TokensOf(n, uv) = part[Len(uv)]
        BY <2>6, TokensAre
    <2>8. QED  BY <2>1, <2>3, <2>5, <2>7
<1>4. ASSUME \A i \in DOMAIN u : u[i].event # n
      PROVE  TokensOf(n, u \o v) = TokensOf(n, v)
    <2>1. PICK sum : /\ sum[0] = 0
                     /\ \A i \in 1..b : sum[i] = IF v[i].event = n THEN sum[i - 1] + v[i].tokens
                                                                   ELSE sum[i - 1]
                     /\ TokensOf(n, v) = sum[b]
        <3>1. PICK sum : Counts(sum, v, n) /\ TokensOf(n, v) = sum[Len(v)]
            BY TokensSteps
        <3>2. QED  BY <1>1, <3>1 DEF Counts
    <2>2. PICK part : part = [i \in 0..(a + b) |-> IF i \in 0..a THEN 0 ELSE sum[i - a]]
        OBVIOUS
    <2>3. part[0] = 0 /\ part[a + b] = sum[b]
        <3>1. CASE b = 0
            BY <2>1, <2>2, <3>1
        <3>2. CASE b # 0
            <4>1. a + b \notin 0..a /\ (a + b) - a = b /\ a + b \in 0..(a + b) /\ 0 \in 0..(a + b)
                BY <3>2
            <4>2. QED  BY <2>2, <4>1
        <3>3. QED  BY <3>1, <3>2
    <2>4. ASSUME NEW i \in 1..(a + b)
          PROVE  part[i] = IF (u \o v)[i].event = n THEN part[i - 1] + (u \o v)[i].tokens
                                                    ELSE part[i - 1]
        <3>1. CASE i \in 1..a
            <4>1. part[i] = 0 /\ part[i - 1] = 0
                BY <2>2, <3>1
            <4>2. (u \o v)[i].event # n
                BY <1>2, <1>4, <3>1
            <4>3. QED  BY <4>1, <4>2
        <3>2. CASE i \notin 1..a
            <4>1. PICK k \in 1..b : k = i - a /\ (u \o v)[i] = v[k]
                BY <1>2, <3>2
            <4>2. part[i] = sum[k]
                BY <2>2, <3>2, <4>1
            <4>3. part[i - 1] = sum[k - 1]
                <5>1. CASE k = 1
                    <6>1. i - 1 = a /\ a \in 0..a /\ a \in 0..(a + b) /\ k - 1 = 0
                        BY <4>1, <5>1
                    <6>2. part[a] = 0
                        BY <2>2, <6>1
                    <6>3. QED  BY <2>1, <6>1, <6>2
                <5>2. CASE k # 1
                    BY <2>2, <4>1, <5>2
                <5>3. QED  BY <5>1, <5>2
            <4>4. QED  BY <2>1, <4>1, <4>2, <4>3
        <3>3. QED  BY <3>1, <3>2
    <2>5. PICK uv \in Seq(R) : uv = u \o v /\ Len(uv) = a + b
        BY <1>2
    <2>6. Counts(part, uv, n)
        BY <2>3, <2>4, <2>5 DEF Counts
    <2>7. TokensOf(n, uv) = part[Len(uv)]
        BY <2>6, TokensAre
    <2>8. QED  BY <2>1, <2>3, <2>5, <2>7
<1>5. QED  BY <1>3, <1>4

\* Outside impact mode rows are well typed too.
LEMMA BaseRowsAre ==
    ASSUME NEW event \in Nat \ {0}, NEW story, NEW base \in Nat
    PROVE  BuildBaseRows(event, story, base) \in Seq(Row(event))
<1>1. PICK matches \in Seq(ToSet(Symbols)) : matches = EntityMatches(story)
    <2>1. EntityMatches(story) \in Seq(ToSet(Symbols))
        BY MatchesAre
    <2>2. QED  BY <2>1
<1>2. PICK symbols \in Seq(ToSet(Symbols) \cup {"UNKNOWN"}) :
        symbols = IF matches = <<>> THEN <<"UNKNOWN">> ELSE matches
    <2>1. <<"UNKNOWN">> \in Seq(ToSet(Symbols) \cup {"UNKNOWN"})
        OBVIOUS
    <2>2. matches \in Seq(ToSet(Symbols) \cup {"UNKNOWN"})
        BY SeqOver
    <2>3. QED  BY <2>1, <2>2
<1>3. PICK n \in Nat : /\ n = Len(symbols) /\ DOMAIN symbols = 1..n
                       /\ \A i \in 1..n : symbols[i] \in ToSet(Symbols) \cup {"UNKNOWN"}
    OBVIOUS
<1>4. PICK built : built = BuildBaseRows(event, story, base)
    OBVIOUS
<1>5. built = [i \in 1..n |->
                [event |-> event, parent |-> symbols[i], child |-> NA, tokens |-> base]]
    BY <1>1, <1>2, <1>3, <1>4 DEF BuildBaseRows
<1>6. \A i \in 1..n : built[i] \in Row(event)
    BY <1>3, <1>5 DEF Row
<1>7. built = [i \in 1..n |-> built[i]]
    BY <1>5
<1>8. built \in Seq(Row(event))
    <2>1. PICK U : U = Row(event)
        OBVIOUS
    <2>2. built \in Seq(U)
        BY <1>6, <1>7, <2>1, Mapped
    <2>3. QED  BY <2>1, <2>2
<1>9. QED  BY <1>4, <1>8

BuiltFrom(built, event, base, pairs, given) ==
    Len(given) = Len(pairs) /\ built = BuildImpactRows(event, base, pairs, given)

\* The rows of an event are those of its pairs.
LEMMA ImpactRowsAre ==
    ASSUME NEW event \in Nat \ {0}, NEW base \in Nat,
           NEW pairs \in Seq(Pair), NEW given \in Seq(Nat), NEW built,
           BuiltFrom(built, event, base, pairs, given)
    PROVE  /\ built \in Seq(Row(event)) /\ DOMAIN built = DOMAIN pairs
           /\ \A i \in DOMAIN pairs :
                /\ built[i].event = event
                /\ built[i].parent = pairs[i].parent /\ built[i].child = pairs[i].child
                /\ built[i].tokens = AllocateInt(base, Len(pairs), i - 1) + given[i]
<1>1. PICK n \in Nat : /\ n = Len(pairs) /\ DOMAIN pairs = 1..n
                       /\ \A i \in 1..n : pairs[i] \in Pair
    OBVIOUS
<1>2. DOMAIN given = 1..n /\ \A i \in 1..n : given[i] \in Nat
    BY <1>1 DEF BuiltFrom
<1>3. built = [i \in 1..n |->
                [event |-> event, parent |-> pairs[i].parent, child |-> pairs[i].child,
                 tokens |-> AllocateInt(base, n, i - 1) + given[i]]]
    BY <1>1 DEF BuildImpactRows, BuiltFrom
<1>4. \A i \in 1..n : AllocateInt(base, n, i - 1) \in Nat
    <2> SUFFICES ASSUME NEW i \in 1..n  PROVE AllocateInt(base, n, i - 1) \in Nat
        OBVIOUS
    <2>1. n \in Nat \ {0} /\ i - 1 \in 0..n - 1
        OBVIOUS
    <2>2. QED  BY <2>1, AllocationIsEven
<1>5. \A i \in 1..n :
        /\ built[i] \in Row(event)
        /\ built[i].event = event
        /\ built[i].parent = pairs[i].parent /\ built[i].child = pairs[i].child
        /\ built[i].tokens = AllocateInt(base, n, i - 1) + given[i]
    BY <1>1, <1>2, <1>3, <1>4 DEF Row, Pair
<1>6. built = [i \in 1..n |-> built[i]]
    BY <1>3
<1>7. built \in Seq(Row(event)) /\ Len(built) = n /\ DOMAIN built = 1..n
    <2>1. PICK U : U = Row(event)
        OBVIOUS
    <2>2. \A i \in 1..n : built[i] \in U
        BY <1>5, <2>1
    <2>3. built \in Seq(U) /\ Len(built) = n /\ DOMAIN built = 1..n
        BY <1>6, <2>2, Mapped
    <2>4. QED  BY <2>1, <2>3
<1>8. QED  BY <1>1, <1>5, <1>7

\* Their tokens are what its own call and its pairs' have cost.
LEMMA ImpactRowsCost ==
    ASSUME NEW event \in Nat \ {0}, NEW base \in Nat,
           NEW pairs \in Seq(Pair), NEW given \in Seq(Nat), NEW built,
           BuiltFrom(built, event, base, pairs, given),
           pairs # <<>>, NEW spent \in Nat, AddsUpTo(given, spent)
    PROVE  TokensOf(event, built) = base + spent
<1>1. PICK n \in Nat \ {0} : /\ n = Len(pairs) /\ Len(given) = n /\ DOMAIN pairs = 1..n
                             /\ \A i \in 1..n : given[i] \in Nat
    BY DEF BuiltFrom
<1>2. \A i \in 1..n : AllocateInt(base, n, i - 1) \in Nat
    <2> SUFFICES ASSUME NEW i \in 1..n  PROVE AllocateInt(base, n, i - 1) \in Nat
        OBVIOUS
    <2>1. i - 1 \in 0..n - 1
        OBVIOUS
    <2>2. QED  BY <2>1, AllocationIsEven
<1>3. /\ built \in Seq(Row(event)) /\ Len(built) = n
      /\ \A i \in 1..n : /\ built[i].event = event
                         /\ built[i].tokens = AllocateInt(base, n, i - 1) + given[i]
    <2>1. built \in Seq(Row(event)) /\ DOMAIN built = 1..n
        BY <1>1, ImpactRowsAre
    <2>2. \A i \in 1..n : /\ built[i].event = event
                          /\ built[i].tokens = AllocateInt(base, n, i - 1) + given[i]
        BY <1>1, ImpactRowsAre
    <2>3. QED  BY <2>1, <2>2
<1>4. PICK sum : /\ sum[0] = 0
                 /\ \A i \in 1..n : sum[i] = sum[i - 1] + given[i]
                 /\ sum[n] = spent
    BY <1>1 DEF AddsUpTo
<1>5. PICK shares : shares = [i \in 0..n |-> AllocatedBefore(base, n, i)]
    OBVIOUS
<1>6. /\ shares[0] = 0 /\ shares[n] = base
      /\ \A i \in 0..(n - 1) : shares[i + 1] = shares[i] + AllocateInt(base, n, i)
    <2>1. /\ AllocatedBefore(base, n, 0) = 0 /\ AllocatedBefore(base, n, n) = base
          /\ \A i \in 0..n - 1 : AllocatedBefore(base, n, i + 1) =
                AllocatedBefore(base, n, i) + AllocateInt(base, n, i)
        BY <1>1, AllocationAddsUp
    <2>2. QED  BY <1>5, <2>1
<1>7. PICK part : part = [i \in 0..n |-> shares[i] + sum[i]]
    OBVIOUS
<1>8. \A i \in 0..n : shares[i] \in Nat /\ sum[i] \in Nat
    <2> DEFINE T == {i \in 0..n : shares[i] \in Nat /\ sum[i] \in Nat}
    <2>1. 0 \in T
        BY <1>4, <1>6
    <2>2. ASSUME NEW i \in 0..n, i \in T, i < n
          PROVE  i + 1 \in T
        <3>1. i + 1 \in 1..n /\ (i + 1) - 1 = i /\ i \in 0..(n - 1)
            BY <2>2
        <3>2. AllocateInt(base, n, i) \in Nat /\ given[i + 1] \in Nat
            BY <1>1, <1>2, <3>1
        <3>3. shares[i + 1] = shares[i] + AllocateInt(base, n, i)
              /\ sum[i + 1] = sum[i] + given[i + 1]
            BY <1>4, <1>6, <3>1
        <3>4. shares[i] \in Nat /\ sum[i] \in Nat
            BY <2>2
        <3>5. shares[i + 1] \in Nat /\ sum[i + 1] \in Nat
            <4>1. PICK x \in Nat, y \in Nat, a \in Nat, b \in Nat :
                    /\ x = AllocateInt(base, n, i) /\ y = given[i + 1]
                    /\ a = shares[i] /\ b = sum[i]
                BY <3>2, <3>4
            <4>2. shares[i + 1] = a + x /\ sum[i + 1] = b + y
                BY <3>3, <4>1
            <4>3. QED  BY <4>2
        <3>6. QED  BY <3>1, <3>5
    <2>3. \A i \in 0..n : i \in T
        <3> HIDE DEF T
        <3>1. QED  BY <2>1, <2>2, CountUp
    <2>4. QED  BY <2>3
<1>9. part[0] = 0 /\ part[n] = base + spent
    BY <1>4, <1>6, <1>7
<1>10. ASSUME NEW i \in 1..n
      PROVE  part[i] = part[i - 1] + built[i].tokens
    <2>1. i - 1 \in 0..(n - 1) /\ (i - 1) + 1 = i /\ i - 1 \in 0..n /\ i \in 0..n
        OBVIOUS
    <2>2. PICK share \in Nat, cost \in Nat, a \in Nat, b \in Nat :
            /\ share = AllocateInt(base, n, i - 1) /\ cost = given[i]
            /\ a = shares[i - 1] /\ b = sum[i - 1]
        BY <1>1, <1>2, <1>8, <2>1
    <2>3. shares[i] = a + share /\ sum[i] = b + cost
        BY <1>4, <1>6, <2>1, <2>2
    <2>4. part[i] = (a + share) + (b + cost) /\ part[i - 1] = a + b
        BY <1>7, <2>1, <2>2, <2>3
    <2>5. built[i].tokens = share + cost
        BY <1>3, <2>2
    <2>6. QED  BY <2>4, <2>5
<1>11. HaveTokens(Row(event))
    BY DEF Row, HaveTokens
<1>12. \A i \in 1..Len(built) :
        part[i] = IF built[i].event = event THEN part[i - 1] + built[i].tokens
                                            ELSE part[i - 1]
    BY <1>3, <1>10
<1>13. Counts(part, built, event)
    BY <1>9, <1>12 DEF Counts
<1>14. TokensOf(event, built) = part[Len(built)]
    BY <1>3, <1>11, <1>13, TokensAre
<1>15. QED  BY <1>3, <1>9, <1>14

-----------------------------------------------------------------------------
(* Types and collected articles, action by action.                         *)

\* The sources asked for are enabled ones.
LEMMA Selected ==
    ASSUME TypesInv, ToSet(SelectedSources) \subseteq ToSet(EnabledSources)
    PROVE  SelectedSources \in Seq(ToSet(EnabledSources))
<1>1. PICK all \in Seq(DOMAIN Kind) : all = EnabledSources
    BY CollectorAssumption
<1>2. PICK asked \in Seq(ToSet(request.sources)) : asked = request.sources
    BY CollectorAssumption DEF TypesInv
<1>3. CASE request.sources = <<>>
    BY <1>1, <1>3, SeqOver DEF SelectedSources
<1>4. CASE request.sources # <<>>
    <2>1. SelectedSources = asked
        BY <1>2, <1>4 DEF SelectedSources
    <2>2. QED  BY <2>1, SeqOver
<1>5. QED  BY <1>3, <1>4

\* It holds at the start.
LEMMA TypesInit ==
    Init => TypesInv /\ CollectInv
<1> SUFFICES ASSUME Init  PROVE TypesInv /\ CollectInv
    OBVIOUS
<1> USE DEF Init, CollectorInit
<1>1. TypesInv
    <2>1. clock \in Start..MaxClock
        BY CollectorAssumption
    <2>2. window \in [from : Int, to : Int]
        OBVIOUS
    <2>3. <<>> \in Seq(ToSet(EnabledSources)) /\ <<>> \in Seq(Articles) /\ <<>> \in Seq(Event)
          /\ <<>> \in Seq(Pair) /\ <<>> \in Seq(Nat) /\ <<>> \in Seq(Row(0)) /\ Len(<<>>) = 0
        OBVIOUS
    <2>4. QED  BY <2>1, <2>2, <2>3 DEF TypesInv
<1>2. CollectInv
    BY DEF CollectInv, ToSet, Due
<1>3. QED  BY <1>1, <1>2

\* Rows of the first n events are rows of the first n + 1.
LEMMA RowsGrow ==
    ASSUME NEW n \in Nat, NEW built \in Seq(Row(n))
    PROVE  built \in Seq(Row(n + 1))
<1>1. PICK R, U : R = Row(n) /\ U = Row(n + 1)
    OBVIOUS
<1>2. R \subseteq U
    BY <1>1 DEF Row
<1>3. ToSet(built) \subseteq R
    BY <1>1, SeqOver
<1>4. built \in Seq(U)
    BY <1>1, <1>2, <1>3, SeqOver
<1>5. QED  BY <1>1, <1>4

\* Collecting keeps the types and what was collected.
LEMMA CollectKeepsTypes ==
    ASSUME TypesInv, CollectInv, Collecting
    PROVE  TypesInv' /\ CollectInv'
<1>1. UNCHANGED runVars /\ Collect
    BY DEF Collecting
<1>2. ASSUME UNCHANGED <<request, window>>
      PROVE  SelectedSources' = SelectedSources /\ \A a : InWindow(a)' = InWindow(a)
    BY <1>2 DEF SelectedSources, InWindow
<1>3. CASE Accept
    <2>1. /\ stage = "new" /\ Acceptable
          /\ UNCHANGED <<request, clock, collected, delivered>>
          /\ window' = [from |-> IF request.from = None THEN clock - DayLength ELSE request.from,
                        to   |-> IF request.to = None THEN clock ELSE request.to]
          /\ \/ stage' = "collect" /\ pending' = SelectedSources
             \/ stage' = "backfill" /\ UNCHANGED pending
        BY <1>3 DEF Accept
    <2>2. window' \in [from : Int, to : Int]
        <3>1. /\ request.from \in Nat \cup {None} /\ request.to \in Nat \cup {None}
              /\ clock \in Int /\ DayLength \in Int
            BY CollectorAssumption DEF TypesInv
        <3>2. (IF request.from = None THEN clock - DayLength ELSE request.from) \in Int
            BY <3>1
        <3>3. (IF request.to = None THEN clock ELSE request.to) \in Int
            BY <3>1
        <3>4. QED  BY <2>1, <3>2, <3>3
    <2>3. pending' \in Seq(ToSet(EnabledSources))
        BY <2>1, Selected DEF TypesInv, Acceptable
    <2>4. TypesInv'
        BY <1>1, <2>1, <2>2, <2>3 DEF TypesInv, runVars
    <2>5. SelectedSources' = SelectedSources
        BY <2>1 DEF SelectedSources
    <2>6. delivered = {} /\ pending = <<>> /\ ToSet(collected) = {} /\ events = <<>> /\ rows = <<>>
        BY <2>1 DEF CollectInv, Due
    <2>7. ToSet(pending') \subseteq ToSet(SelectedSources)
        BY <2>1, <2>6 DEF ToSet
    <2>8. Due' = {}
        BY <2>1, <2>6 DEF Due
    <2>9. CollectInv'
        BY <1>1, <2>1, <2>5, <2>6, <2>7, <2>8 DEF CollectInv, runVars
    <2>10. QED  BY <2>4, <2>9
<1>4. CASE Reject
    <2>1. /\ stage' = "failed"
          /\ UNCHANGED <<request, clock, window, pending, collected, delivered>>
        BY <1>4 DEF Reject
    <2>2. Due' = Due
        BY <1>2, <2>1 DEF Due
    <2>3. QED  BY <1>1, <1>2, <2>1, <2>2 DEF TypesInv, CollectInv, runVars
<1>5. CASE ReadFeed
    <2>1. /\ stage = "collect" /\ pending # <<>> /\ Kind[Head(pending)] = "rss" /\ TimePasses
          /\ Receive(FromFeed(Head(pending), clock'))
        BY <1>5 DEF ReadFeed, Fetching
    <2>2. Head(pending) \in ToSet(EnabledSources) /\ clock' \in Nat
        BY <2>1, TheClock, FirstAndRest DEF TypesInv
    <2>3. PICK articles \in Seq(Articles) :
            /\ articles = FromFeed(Head(pending), clock')
            /\ \A a \in ToSet(articles) : a.source = Head(pending)
        BY <2>1, <2>2, FeedArticles
    <2>4. Receive(articles)
        BY <2>1, <2>3
    <2>5. QED  BY <1>1, <2>1, <2>3, <2>4, ReceiveKeeps
<1>6. CASE FeedFails
    <2>1. /\ stage = "collect" /\ pending # <<>> /\ TimePasses
          /\ UNCHANGED <<request, window, pending, collected, delivered>>
          /\ \/ Head(pending) \in CrawlFallback /\ stage' = "fallback"
             \/ stage' = "failed"
        BY <1>6 DEF FeedFails, Fetching
    <2>2. TypesInv'
        BY <1>1, <2>1, TheClock DEF TypesInv, runVars
    <2>3. Due' = Due
        BY <1>2, <2>1 DEF Due
    <2>4. QED  BY <1>1, <1>2, <2>1, <2>2, <2>3 DEF CollectInv, runVars
<1>7. CASE Crawl
    <2>1. Crawling /\ TimePasses
        BY <1>7 DEF Crawl
    <2>2. /\ stage \in {"collect", "fallback"} /\ pending # <<>>
          /\ Kind[Head(pending)] # "rss" \/ Head(pending) \in CrawlFallback
        BY <2>1 DEF Crawling, Fetching, TypesInv
    <2>3. Head(pending) \in ToSet(EnabledSources) /\ clock' \in Nat
        BY <2>1, <2>2, TheClock, FirstAndRest DEF TypesInv
    <2>4. PICK readable : Receive(FromPages(Head(pending), readable, clock'))
        BY <1>7 DEF Crawl
    <2>5. PICK articles \in Seq(Articles) :
            /\ articles = FromPages(Head(pending), readable, clock')
            /\ \A a \in ToSet(articles) : a.source = Head(pending)
        BY <2>2, <2>3, PageArticles
    <2>6. Receive(articles)
        BY <2>4, <2>5
    <2>7. QED  BY <1>1, <2>1, <2>2, <2>5, <2>6, ReceiveKeeps
<1>8. CASE CrawlFails \/ BackfillFails
    <2>1. /\ stage' = "failed"
          /\ UNCHANGED <<request, clock, window, pending, collected, delivered>>
        BY <1>8 DEF CrawlFails, BackfillFails
    <2>2. Due' = Due
        BY <1>2, <2>1 DEF Due
    <2>3. QED  BY <1>1, <1>2, <2>1, <2>2 DEF TypesInv, CollectInv, runVars
<1>9. CASE ReadBackfill
    <2>1. /\ stage = "backfill" /\ TimePasses /\ stage' = "collect"
          /\ collected' = FilterBySourcesAndWindow(FromArchive(clock'))
          /\ delivered' = ToSet(FromArchive(clock'))
          /\ UNCHANGED <<request, window, pending>>
        BY <1>9 DEF ReadBackfill
    <2>2. clock' \in Start..MaxClock /\ clock' \in Nat
        BY <2>1, TheClock
    <2>3. PICK articles \in Seq(Articles) : articles = FromArchive(clock')
        BY <2>2, ArchiveArticles
    <2>4. PICK wanted : wanted = {a \in ToSet(articles) :
                                    a.source \in ToSet(SelectedSources) /\ InWindow(a)}
        OBVIOUS
    <2>5. collected' = Only(wanted, articles) /\ delivered' = ToSet(articles)
        BY <2>1, <2>3, <2>4 DEF FilterBySourcesAndWindow
    <2>6. collected' \in Seq(Articles) /\ ToSet(collected') = ToSet(articles) \cap wanted
        BY <2>5, OnlyKeeps
    <2>7. ToSet(articles) \subseteq Articles
        BY SeqOver
    <2>8. TypesInv'
        BY <1>1, <2>1, <2>2, <2>5, <2>6, <2>7 DEF TypesInv, runVars
    <2>9. Due' = wanted
        BY <1>2, <2>1, <2>4, <2>5 DEF Due
    <2>10. ToSet(collected') = Due'
        BY <2>4, <2>6, <2>9
    <2>11. CollectInv'
        BY <1>1, <1>2, <2>1, <2>10 DEF CollectInv, runVars
    <2>12. QED  BY <2>8, <2>11
<1>10. QED  BY <1>1, <1>3, <1>4, <1>5, <1>6, <1>7, <1>8, <1>9 DEF Collect

-----------------------------------------------------------------------------
(* The run itself, action by action.                                       *)

\* Once the run has begun the articles stay.
LEMMA RunKeepsArticles ==
    ASSUME CollectInv, UNCHANGED <<request, window, pending, collected, delivered>>,
           stage' \notin {"new", "backfill", "collect", "fallback"}
    PROVE  /\ CollectInv' /\ Become' = Become
           /\ \A story : IsRelevant(story)' = IsRelevant(story)
           /\ RelevantIn(queue)' = RelevantIn(queue')
<1>1. SelectedSources' = SelectedSources /\ \A a : InWindow(a)' = InWindow(a)
    BY DEF SelectedSources, InWindow
<1>2. Due' = Due
    BY <1>1 DEF Due
<1>3. CollectInv'
    BY <1>1, <1>2 DEF CollectInv
<1>4. \A story : IsRelevant(story)' = IsRelevant(story)
    BY DEF IsRelevant
<1>5. Become' = Become
    <2>1. First(collected)' = First(collected)
        BY DEF First
    <2>2. QED  BY <1>4, <2>1 DEF Become
<1>6. RelevantIn(queue)' = RelevantIn(queue')
    BY <1>4 DEF RelevantIn
<1>7. QED  BY <1>3, <1>4, <1>5, <1>6

\* Steps that leave the events and the rows alone.
LEMMA RowsStay ==
    ASSUME RowsInv, UNCHANGED <<request, events, rows>>,
           stage = "run", stage' # "pairs"
    PROVE  RowsInv'
<1>1. \A n : /\ Conserved(n)' = Conserved(n) /\ Complete(n)' = Complete(n)
             /\ InProgress(n) = FALSE
    BY DEF Conserved, Complete, RowsOf, InProgress
<1>2. QED  BY <1>1 DEF RowsInv

\* Run begins with the first article of each key.
LEMMA StartRunKeeps ==
    ASSUME TypesInv, CollectInv, StartRun
    PROVE  TypesInv' /\ CollectInv' /\ StoriesInv' /\ RowsInv'
<1>1. /\ stage = "collect" /\ stage' = "run" /\ queue' = DedupeFilter(collected)
      /\ UNCHANGED <<request, clock, window, pending, collected, delivered,
                     events, specs, answers, rows>>
    BY DEF StartRun
<1>2. /\ queue' \in Seq(Articles) /\ ToSet(queue') = First(collected) /\ OneEach(queue')
    BY <1>1, DedupeKeeps DEF TypesInv
<1>3. TypesInv'
    BY <1>1, <1>2 DEF TypesInv
<1>4. events = <<>> /\ rows = <<>> /\ ToSet(collected) = Due
    BY <1>1 DEF CollectInv
<1>5. CollectInv' /\ Become' = Become /\ RelevantIn(queue)' = RelevantIn(queue')
    BY <1>1, RunKeepsArticles
<1>6. RelevantIn(queue') = Become
    BY <1>2 DEF RelevantIn, Become
<1>7. DOMAIN events' = {} /\ ArticlesOfEvents' = {} /\ KeysOfEvents' = {}
    BY <1>1, <1>4 DEF ArticlesOfEvents, KeysOfEvents
<1>8. OneEach(queue)'
    BY <1>2 DEF OneEach
<1>9. StoriesInv'
    BY <1>1, <1>5, <1>6, <1>7, <1>8 DEF StoriesInv
<1>10. RowsInv'
    BY <1>1, <1>7 DEF RowsInv
<1>11. QED  BY <1>3, <1>5, <1>9, <1>10

\* A run that is refused has no events.
LEMMA RefuseRunKeeps ==
    ASSUME TypesInv, CollectInv, RefuseRun
    PROVE  TypesInv' /\ CollectInv' /\ StoriesInv' /\ RowsInv'
<1>1. /\ stage' = "failed"
      /\ UNCHANGED <<request, clock, window, pending, collected, delivered>>
      /\ UNCHANGED <<queue, events, specs, answers, rows>>
    BY DEF RefuseRun, runVars
<1>2. TypesInv'
    BY <1>1 DEF TypesInv
<1>3. CollectInv'
    BY <1>1, RunKeepsArticles
<1>4. QED  BY <1>1, <1>2, <1>3 DEF StoriesInv, RowsInv

\* An article that is left out is not relevant.
LEMMA SkipIrrelevantKeeps ==
    ASSUME TypesInv, CollectInv, StoriesInv, RowsInv, SkipIrrelevant
    PROVE  TypesInv' /\ CollectInv' /\ StoriesInv' /\ RowsInv'
<1>1. /\ stage = "run" /\ stage' = "run" /\ queue # <<>> /\ queue' = Tail(queue)
      /\ ~ IsRelevant(Head(queue).story)
      /\ UNCHANGED <<request, clock, window, pending, collected, delivered>>
      /\ UNCHANGED <<events, specs, answers, rows>>
    BY DEF SkipIrrelevant, IsRelevant, collectorVars
<1>2. /\ queue' \in Seq(Articles)
      /\ OneEach(queue) => OneEach(queue')
      /\ KeysOf(queue) = {Key(Head(queue))} \cup KeysOf(queue')
      /\ ToSet(queue) = {Head(queue)} \cup ToSet(queue')
    BY <1>1, FirstAndRest DEF TypesInv
<1>3. TypesInv'
    BY <1>1, <1>2 DEF TypesInv
<1>4. CollectInv' /\ Become' = Become /\ RelevantIn(queue)' = RelevantIn(queue')
    BY <1>1, RunKeepsArticles
<1>5. StoriesInv'
    <2>1. ArticlesOfEvents' = ArticlesOfEvents /\ KeysOfEvents' = KeysOfEvents
        BY <1>1 DEF ArticlesOfEvents, KeysOfEvents
    <2>2. RelevantIn(queue') = RelevantIn(queue)
        BY <1>1, <1>2 DEF RelevantIn
    <2>3. /\ OneEach(queue) /\ KeysOf(queue) \cap KeysOfEvents = {}
          /\ \A i, j \in DOMAIN events :
                Key(events[i].article) = Key(events[j].article) => i = j
          /\ ArticlesOfEvents \cup RelevantIn(queue) = Become
        BY <1>1 DEF StoriesInv
    <2>4. OneEach(queue') /\ KeysOf(queue') \cap KeysOfEvents = {}
        BY <1>2, <2>3
    <2>5. OneEach(queue)' = OneEach(queue') /\ KeysOf(queue)' = KeysOf(queue')
        BY DEF OneEach, KeysOf
    <2>6. QED  BY <1>1, <1>4, <2>1, <2>2, <2>3, <2>4, <2>5 DEF StoriesInv
<1>6. RowsInv'
    BY <1>1, RowsStay
<1>7. QED  BY <1>3, <1>4, <1>5, <1>6

\* Run ends when the queue is empty, with every event as it was.
LEMMA FinishKeeps ==
    ASSUME TypesInv, CollectInv, StoriesInv, RowsInv, Finish
    PROVE  TypesInv' /\ CollectInv' /\ StoriesInv' /\ RowsInv'
<1>1. /\ stage = "run" /\ stage' = "done" /\ queue = <<>>
      /\ UNCHANGED <<request, clock, window, pending, collected, delivered>>
      /\ UNCHANGED <<queue, events, specs, answers, rows>>
    BY DEF Finish, runVars
<1>2. TypesInv'
    BY <1>1 DEF TypesInv
<1>3. CollectInv' /\ Become' = Become /\ RelevantIn(queue)' = RelevantIn(queue')
    BY <1>1, RunKeepsArticles
<1>4. /\ ArticlesOfEvents' = ArticlesOfEvents /\ KeysOfEvents' = KeysOfEvents
      /\ OneEach(queue)' = OneEach(queue) /\ KeysOf(queue)' = KeysOf(queue)
    BY <1>1 DEF ArticlesOfEvents, KeysOfEvents, OneEach, KeysOf
<1>5. StoriesInv'
    BY <1>1, <1>3, <1>4 DEF StoriesInv
<1>6. RowsInv'
    BY <1>1, RowsStay
<1>7. QED  BY <1>2, <1>3, <1>5, <1>6

\* One more number adds to the sum.
LEMMA AddsUpMore ==
    ASSUME NEW given \in Seq(Nat), NEW spent \in Nat, NEW cost \in Nat, AddsUpTo(given, spent)
    PROVE  AddsUpTo(Append(given, cost), spent + cost)
<1>1. PICK n \in Nat : n = Len(given)
    OBVIOUS
<1>2. PICK more \in Seq(Nat) : more = Append(given, cost)
    <2>1. Append(given, cost) \in Seq(Nat)
        OBVIOUS
    <2>2. QED  BY <2>1
<1>3. Len(more) = n + 1 /\ more[n + 1] = cost /\ \A i \in 1..n : more[i] = given[i]
    BY <1>1, <1>2, FirstAndLast
<1>4. PICK sum : /\ sum[0] = 0
                 /\ \A i \in 1..n : sum[i] = sum[i - 1] + given[i]
                 /\ sum[n] = spent
    BY <1>1 DEF AddsUpTo
<1>5. PICK total : total = [i \in 0..(n + 1) |-> IF i \in 0..n THEN sum[i] ELSE spent + cost]
    OBVIOUS
<1>6. total[0] = 0 /\ total[n + 1] = spent + cost
    <2>1. /\ 0 \in 0..n /\ 0 \in 0..(n + 1)
          /\ n + 1 \in 0..(n + 1) /\ n + 1 \notin 0..n
        OBVIOUS
    <2>2. QED  BY <1>4, <1>5, <2>1
<1>7. ASSUME NEW i \in 1..(n + 1)
      PROVE  total[i] = total[i - 1] + more[i]
    <2>1. CASE i \in 1..n
        <3>1. total[i] = sum[i] /\ total[i - 1] = sum[i - 1]
            BY <1>5, <2>1
        <3>2. QED  BY <1>3, <1>4, <2>1, <3>1
    <2>2. CASE i = n + 1
        <3>1. i - 1 = n /\ n \in 0..n /\ n \in 0..(n + 1)
            BY <2>2
        <3>2. total[i - 1] = spent
            BY <1>4, <1>5, <3>1
        <3>3. QED  BY <1>3, <1>6, <2>2, <3>2
    <2>3. QED  BY <2>1, <2>2
<1>8. AddsUpTo(more, spent + cost)
    BY <1>3, <1>6, <1>7 DEF AddsUpTo
<1>9. QED  BY <1>2, <1>8

\* An article that is enriched becomes the last event, with its rows or with its pairs
\* still to classify.
LEMMA EnrichArticleKeeps ==
    ASSUME TypesInv, CollectInv, StoriesInv, RowsInv, EnrichArticle
    PROVE  TypesInv' /\ CollectInv' /\ StoriesInv' /\ RowsInv'
<1> DEFINE article == Head(queue)
           pairs == PairSpecs(article.story, request.entities)
<1>1. PICK base \in Charges \cup {0} :
        /\ stage = "run" /\ queue # <<>> /\ IsRelevant(article.story)
        /\ events' = Append(events, [article |-> article, base |-> base, charged |-> base])
        /\ rows' = IF ImpactMode(request.entities) THEN rows
                   ELSE rows \o BuildBaseRows(Len(events'), article.story, base)
        /\ specs' = pairs
        /\ stage' = IF pairs = <<>> THEN "run" ELSE "pairs"
        /\ queue' = Tail(queue) /\ answers' = <<>>
        /\ UNCHANGED <<request, clock, window, pending, collected, delivered>>
    BY DEF EnrichArticle, IsRelevant
<1>2. pairs \in Seq(Pair)
    BY PairSpecsAre
<1>3. ImpactMode(request.entities) =>
        {<<pair.parent, pair.child>> : pair \in ToSet(pairs)} =
            PairsIn(article.story, request.entities)
    BY PairSpecsAre
<1> HIDE DEF article, pairs
<1>4. base \in Nat
    BY PipelineAssumption
<1>5. /\ article \in Articles /\ queue' \in Seq(Articles)
      /\ KeysOf(queue) = {Key(article)} \cup KeysOf(queue')
      /\ ToSet(queue) = {article} \cup ToSet(queue')
      /\ OneEach(queue) => OneEach(queue') /\ Key(article) \notin KeysOf(queue')
    BY <1>1, FirstAndRest DEF TypesInv, article
<1>6. PICK event \in Event : event = [article |-> article, base |-> base, charged |-> base]
    BY <1>4, <1>5 DEF Event
<1>7. PICK n \in Nat : n = Len(events)
    BY DEF TypesInv
<1>8. /\ events' \in Seq(Event) /\ Len(events') = n + 1
      /\ DOMAIN events = 1..n /\ DOMAIN events' = 1..(n + 1)
      /\ events'[n + 1] = event
      /\ \A i \in 1..n : events'[i] = events[i]
    BY <1>1, <1>6, <1>7, FirstAndLast DEF TypesInv
<1>9. rows' \in Seq(Row(n + 1))
    <2>1. rows \in Seq(Row(n + 1))
        BY <1>7, RowsGrow DEF TypesInv
    <2>2. PICK built \in Seq(Row(n + 1)) : built = BuildBaseRows(n + 1, article.story, base)
        <3>1. n + 1 \in Nat \ {0}
            OBVIOUS
        <3>2. BuildBaseRows(n + 1, article.story, base) \in Seq(Row(n + 1))
            BY <1>4, <3>1, BaseRowsAre
        <3>3. QED  BY <3>2
    <2>3. rows \o built \in Seq(Row(n + 1))
        BY <2>1, <2>2, Joined
    <2>4. QED  BY <1>1, <1>8, <2>1, <2>2, <2>3
<1>10. TypesInv'
    <2>1. <<>> \in Seq(Nat) /\ Len(<<>>) = 0 /\ Len(pairs) \in Nat
          /\ (pairs # <<>> => 0 < Len(pairs))
        BY <1>2
    <2>2. events' # <<>>
        BY <1>8
    <2>3. rows' \in Seq(Row(Len(events')))
        BY <1>8, <1>9
    <2>4. QED  BY <1>1, <1>5, <1>8, <1>2, <2>1, <2>2, <2>3 DEF TypesInv
<1>11. CollectInv' /\ Become' = Become /\ RelevantIn(queue)' = RelevantIn(queue')
    <2>1. stage' \in {"run", "pairs"}
        BY <1>1
    <2>2. QED  BY <1>1, <2>1, RunKeepsArticles
<1>12. StoriesInv'
    <2>1. /\ OneEach(queue) /\ KeysOf(queue) \cap KeysOfEvents = {}
          /\ \A i, j \in DOMAIN events :
                Key(events[i].article) = Key(events[j].article) => i = j
          /\ ArticlesOfEvents \cup RelevantIn(queue) = Become
        BY <1>1 DEF StoriesInv
    <2>2. events'[n + 1].article = article
        BY <1>6, <1>8
    <2>3. /\ ArticlesOfEvents' = ArticlesOfEvents \cup {article}
          /\ KeysOfEvents' = KeysOfEvents \cup {Key(article)}
        <3>1. 1..(n + 1) = (1..n) \cup {n + 1}
            OBVIOUS
        <3>2. /\ ArticlesOfEvents = {events[i].article : i \in 1..n}
              /\ KeysOfEvents = {Key(events[i].article) : i \in 1..n}
            BY <1>8 DEF ArticlesOfEvents, KeysOfEvents
        <3>3. /\ ArticlesOfEvents' = {events'[i].article : i \in (1..n) \cup {n + 1}}
              /\ KeysOfEvents' = {Key(events'[i].article) : i \in (1..n) \cup {n + 1}}
            BY <1>8, <3>1 DEF ArticlesOfEvents, KeysOfEvents
        <3>4. QED  BY <1>8, <2>2, <3>2, <3>3
    <2>4. OneEach(queue') /\ KeysOf(queue') \cap KeysOfEvents' = {}
        BY <1>5, <2>1, <2>3
    <2>5. ASSUME NEW i \in 1..(n + 1), NEW j \in 1..(n + 1),
                 Key(events'[i].article) = Key(events'[j].article)
          PROVE  i = j
        <3>1. \A k \in 1..n : Key(events[k].article) # Key(article)
            <4>1. Key(article) \notin KeysOfEvents
                BY <1>5, <2>1
            <4>2. QED  BY <1>8, <4>1 DEF KeysOfEvents
        <3>2. CASE i \in 1..n /\ j \in 1..n
            BY <1>8, <2>1, <2>5, <3>2
        <3>3. CASE i = n + 1 \/ j = n + 1
            BY <1>8, <2>2, <2>5, <3>1, <3>3
        <3>4. QED  BY <3>2, <3>3
    <2>6. ArticlesOfEvents' \cup RelevantIn(queue') = Become
        <3>1. RelevantIn(queue) = {article} \cup RelevantIn(queue')
            BY <1>1, <1>5 DEF RelevantIn
        <3>2. QED  BY <2>1, <2>3, <3>1
    <2>7. OneEach(queue)' = OneEach(queue') /\ KeysOf(queue)' = KeysOf(queue')
        BY DEF OneEach, KeysOf
    <2>8. stage' # "done"
        BY <1>1
    <2>9. QED  BY <1>8, <1>11, <2>4, <2>5, <2>6, <2>7, <2>8 DEF StoriesInv
<1>13. ASSUME ImpactMode(request.entities)
       PROVE  RowsInv'
    <2>1. rows' = rows
        BY <1>1, <1>13
    <2>2. ASSUME NEW m \in 1..n
          PROVE  Conserved(m)' /\ Complete(m)'
        <3>1. Conserved(m) /\ Complete(m)
            BY <1>1, <1>8, <1>13 DEF RowsInv, InProgress
        <3>2. events'[m] = events[m]
            BY <1>8
        <3>3. RowsOf(m)' = RowsOf(m)
            BY <2>1 DEF RowsOf
        <3>4. Conserved(m)'
            BY <2>1, <3>1, <3>2, <3>3 DEF Conserved
        <3>5. Complete(m)'
            BY <1>1, <2>1, <3>1, <3>2, <3>3 DEF Complete
        <3>6. QED  BY <3>4, <3>5
    <2>3. RowsOf(n + 1)' = {}
        <3>1. \A i \in DOMAIN rows : rows[i].event \in 1..n
            <4>1. PICK R : R = Row(n)
                OBVIOUS
            <4>2. rows \in Seq(R)
                BY <1>7, <4>1 DEF TypesInv
            <4>3. \A i \in DOMAIN rows : rows[i] \in R
                BY <4>2
            <4>4. QED  BY <4>1, <4>3 DEF Row
        <3>2. n + 1 \notin 1..n
            OBVIOUS
        <3>3. QED  BY <2>1, <3>1, <3>2 DEF RowsOf
    <2>4. /\ Last(events') = event /\ event.article = article
          /\ event.base = base /\ event.charged = base
        BY <1>6, <1>8 DEF Last
    <2>5. CASE pairs = <<>>
        <3>1. Conserved(n + 1)'
            BY <2>3 DEF Conserved
        <3>2. PairsIn(article.story, request.entities) = {}
            <4>1. ToSet(pairs) = {}
                BY <2>5 DEF ToSet
            <4>2. QED  BY <1>3, <1>13, <4>1
        <3>3. Complete(n + 1)'
            BY <1>1, <1>8, <2>3, <2>4, <3>2 DEF Complete
        <3>4. \A m \in 1..(n + 1) : m \in 1..n \/ m = n + 1
            OBVIOUS
        <3>5. stage' = "run"
            BY <1>1, <2>5
        <3>6. QED  BY <1>8, <2>2, <3>1, <3>3, <3>4, <3>5 DEF RowsInv
    <2>6. CASE pairs # <<>>
        <3>1. stage' = "pairs"
            BY <1>1, <2>6
        <3>2. \A m \in 1..(n + 1) : m \in 1..n \/ m = n + 1
            OBVIOUS
        <3>3. AddsUpTo(answers', 0)
            <4>1. PICK sum : sum = [i \in {0} |-> 0]
                OBVIOUS
            <4>2. answers' = <<>> /\ Len(answers') = 0 /\ 1..0 = {} /\ sum[0] = 0
                BY <1>1, <4>1
            <4>3. QED  BY <4>2 DEF AddsUpTo
        <3>4. base = base + 0
            BY <1>4
        <3>5. (\E spent \in Nat : /\ AddsUpTo(answers, spent)
                                  /\ Last(events).charged = Last(events).base + spent)'
            BY <2>4, <3>3, <3>4
        <3>6. (specs = PairSpecs(Last(events).article.story, request.entities))'
            BY <1>1, <2>4 DEF pairs
        <3>7. (RowsOf(Len(events)) = {})'
            BY <1>8, <2>3 DEF RowsOf
        <3>8. ASSUME NEW m \in DOMAIN events', ~ InProgress(m)'
              PROVE  Conserved(m)' /\ Complete(m)'
            <4>1. m \in 1..n
                BY <1>8, <3>1, <3>2, <3>8 DEF InProgress
            <4>2. QED  BY <2>2, <4>1
        <3>9. QED  BY <3>5, <3>6, <3>7, <3>8 DEF RowsInv
    <2>7. QED  BY <2>5, <2>6
<1>14. ~ ImpactMode(request.entities) => RowsInv'
    BY <1>1 DEF RowsInv
<1>15. QED  BY <1>10, <1>11, <1>12, <1>13, <1>14

\* A pair that is classified adds its charge; the last one adds the rows of the event.
LEMMA ClassifyPairKeeps ==
    ASSUME TypesInv, CollectInv, StoriesInv, RowsInv, ClassifyPair
    PROVE  TypesInv' /\ CollectInv' /\ StoriesInv' /\ RowsInv'
<1>1. PICK cost \in Charges \cup {0} :
        /\ answers' = Append(answers, cost)
        /\ events' = [events EXCEPT ![Len(events)].charged = @ + cost]
    BY DEF ClassifyPair
<1>2. /\ stage = "pairs" /\ UNCHANGED <<request, clock, window, pending, collected, delivered>>
      /\ UNCHANGED <<queue, specs>>
      /\ \/ /\ Len(answers') = Len(specs) /\ stage' = "run"
            /\ rows' = rows \o BuildImpactRows(Len(events), Last(events).base, specs, answers')
         \/ Len(answers') # Len(specs) /\ stage' = "pairs" /\ rows' = rows
    BY DEF ClassifyPair, PairsAnswered
<1>3. cost \in Nat
    BY PipelineAssumption
<1>4. PICK n \in Nat \ {0} : n = Len(events) /\ DOMAIN events = 1..n
    BY <1>2 DEF TypesInv
<1>5. /\ \A i \in 1..n : events[i] \in Event
      /\ n \in 1..n /\ Last(events) = events[n]
    BY <1>4 DEF TypesInv, Last
<1>6. PICK last \in Event : last = events[n] /\ last.article \in Articles
                            /\ last.base \in Nat /\ last.charged \in Nat
    BY <1>5 DEF Event
<1>7. events' = [i \in 1..n |-> IF i = n THEN [last EXCEPT !.charged = @ + cost] ELSE events[i]]
    BY <1>1, <1>4, <1>6
<1>8. /\ \A i \in 1..n : i # n => events'[i] = events[i]
      /\ events'[n] = [last EXCEPT !.charged = @ + cost]
      /\ DOMAIN events' = 1..n
    BY <1>5, <1>7
<1>9. /\ events'[n] \in Event /\ events'[n].article = last.article
      /\ events'[n].base = last.base /\ events'[n].charged = last.charged + cost
    BY <1>3, <1>6, <1>8 DEF Event
<1>10. events' \in Seq(Event) /\ Len(events') = n
    <2>1. \A i \in 1..n : events'[i] \in Event
        BY <1>5, <1>8, <1>9
    <2>2. events' = [i \in 1..n |-> events'[i]]
        BY <1>7
    <2>3. QED  BY <2>1, <2>2, Mapped
<1>11. PICK given \in Seq(Nat) : given = answers' /\ Len(given) = Len(answers) + 1
    <2>1. answers \in Seq(Nat)
        BY DEF TypesInv
    <2>2. Append(answers, cost) \in Seq(Nat) /\ Len(Append(answers, cost)) = Len(answers) + 1
        BY <1>3, <2>1, FirstAndLast
    <2>3. QED  BY <1>1, <2>2
<1>12. /\ specs \in Seq(Pair) /\ Len(specs) \in Nat /\ Len(answers) \in Nat
       /\ Len(answers) < Len(specs)
       /\ rows \in Seq(Row(n))
    BY <1>2, <1>4 DEF TypesInv
<1>13. ASSUME Len(given) = Len(specs)
       PROVE  BuildImpactRows(n, last.base, specs, given) \in Seq(Row(n))
    <2>1. PICK built : built = BuildImpactRows(n, last.base, specs, given)
        OBVIOUS
    <2>2. BuiltFrom(built, n, last.base, specs, given)
        BY <1>13, <2>1 DEF BuiltFrom
    <2>3. built \in Seq(Row(n))
        BY <1>6, <1>12, <2>2, ImpactRowsAre
    <2>4. QED  BY <2>1, <2>3
<1>14. rows' \in Seq(Row(n))
    <2>1. CASE Len(given) # Len(specs)
        BY <1>2, <1>11, <1>12, <2>1
    <2>2. CASE Len(given) = Len(specs)
        <3>1. PICK built \in Seq(Row(n)) : built = BuildImpactRows(n, last.base, specs, given)
            BY <1>13, <2>2
        <3>2. rows' = rows \o built
            BY <1>2, <1>4, <1>5, <1>6, <1>11, <2>2, <3>1
        <3>3. QED  BY <1>12, <3>1, <3>2, Joined
    <2>3. QED  BY <2>1, <2>2
<1>15. TypesInv'
    <2>1. Len(given) <= Len(specs) /\ (Len(given) # Len(specs) => Len(given) < Len(specs))
        BY <1>11, <1>12
    <2>2. events' # <<>>
        BY <1>10
    <2>3. rows' \in Seq(Row(Len(events')))
        BY <1>10, <1>14
    <2>4. QED  BY <1>2, <1>10, <1>11, <2>1, <2>2, <2>3 DEF TypesInv
<1>16. CollectInv' /\ Become' = Become /\ RelevantIn(queue)' = RelevantIn(queue')
    <2>1. stage' \in {"run", "pairs"}
        BY <1>2
    <2>2. QED  BY <1>2, <2>1, RunKeepsArticles
<1>17. \A i \in 1..n : events'[i].article = events[i].article
    BY <1>6, <1>8, <1>9
<1>18. StoriesInv'
    <2>1. /\ OneEach(queue) /\ KeysOf(queue) \cap KeysOfEvents = {}
          /\ \A i, j \in 1..n : Key(events[i].article) = Key(events[j].article) => i = j
          /\ ArticlesOfEvents \cup RelevantIn(queue) = Become
        BY <1>2, <1>4 DEF StoriesInv
    <2>2. ArticlesOfEvents' = ArticlesOfEvents /\ KeysOfEvents' = KeysOfEvents
        BY <1>4, <1>8, <1>17 DEF ArticlesOfEvents, KeysOfEvents
    <2>3. \A i, j \in 1..n : Key(events'[i].article) = Key(events'[j].article) => i = j
        BY <1>17, <2>1
    <2>4. stage' # "done" /\ queue' = queue
        BY <1>2
    <2>5. OneEach(queue)' = OneEach(queue) /\ KeysOf(queue)' = KeysOf(queue)
        BY <2>4 DEF OneEach, KeysOf
    <2>6. QED  BY <1>8, <1>16, <2>1, <2>2, <2>3, <2>4, <2>5 DEF StoriesInv
<1>19. ASSUME ImpactMode(request.entities)
       PROVE  RowsInv'
    <2>1. PICK spent \in Nat : AddsUpTo(answers, spent) /\ last.charged = last.base + spent
        BY <1>2, <1>5, <1>6, <1>19 DEF RowsInv
    <2>2. specs = PairSpecs(last.article.story, request.entities)
        BY <1>2, <1>5, <1>6, <1>19 DEF RowsInv
    <2>3. \A i \in DOMAIN rows : rows[i].event # n
        BY <1>2, <1>4, <1>19 DEF RowsInv, RowsOf
    <2>4. \A m \in 1..n : m # n => Conserved(m) /\ Complete(m)
        BY <1>2, <1>4, <1>19 DEF RowsInv, InProgress
    <2>5. AddsUpTo(given, spent + cost)
        <3>1. answers \in Seq(Nat)
            BY DEF TypesInv
        <3>2. AddsUpTo(Append(answers, cost), spent + cost)
            BY <1>3, <2>1, <3>1, AddsUpMore
        <3>3. QED  BY <1>1, <1>11, <3>2
    <2>6. events'[n].charged = last.base + (spent + cost) /\ spent + cost \in Nat
        BY <1>3, <1>6, <1>9, <2>1
    <2>7. CASE Len(given) # Len(specs)
        <3>1. stage' = "pairs" /\ rows' = rows
            BY <1>2, <1>11, <2>7
        <3>2. ASSUME NEW m \in 1..n, m # n
              PROVE  Conserved(m)' /\ Complete(m)'
            <4>1. Conserved(m) /\ Complete(m) /\ events'[m] = events[m]
                BY <1>8, <2>4, <3>2
            <4>2. RowsOf(m)' = RowsOf(m)
                BY <3>1 DEF RowsOf
            <4>3. Conserved(m)'
                BY <3>1, <4>1, <4>2 DEF Conserved
            <4>4. Complete(m)'
                BY <1>2, <3>1, <4>1, <4>2 DEF Complete
            <4>5. QED  BY <4>3, <4>4
        <3>3. ASSUME NEW m \in DOMAIN events', ~ InProgress(m)'
              PROVE  Conserved(m)' /\ Complete(m)'
            <4>1. m \in 1..n /\ m # n
                BY <1>8, <1>10, <3>1, <3>3 DEF InProgress
            <4>2. QED  BY <3>2, <4>1
        <3>4. (RowsOf(Len(events)) = {})'
            BY <1>10, <2>3, <3>1 DEF RowsOf
        <3>5. (Last(events))' = events'[n]
            BY <1>10 DEF Last
        <3>6. (specs = PairSpecs(Last(events).article.story, request.entities))'
            BY <1>2, <1>9, <2>2, <3>5
        <3>7. (\E owed \in Nat : /\ AddsUpTo(answers, owed)
                                 /\ Last(events).charged = Last(events).base + owed)'
            BY <1>9, <1>11, <2>5, <2>6, <3>5
        <3>8. QED  BY <3>3, <3>4, <3>6, <3>7 DEF RowsInv
    <2>8. CASE Len(given) = Len(specs)
        <3>1. PICK built : built = BuildImpactRows(n, last.base, specs, given)
            OBVIOUS
        <3>2. stage' = "run" /\ rows' = rows \o built
            BY <1>2, <1>4, <1>5, <1>6, <1>11, <2>8, <3>1
        <3>3. /\ built \in Seq(Row(n)) /\ DOMAIN built = DOMAIN specs
              /\ \A i \in DOMAIN specs :
                    /\ built[i].event = n
                    /\ built[i].parent = specs[i].parent /\ built[i].child = specs[i].child
            <4>1. PICK pairs \in Seq(Pair) : pairs = specs
                BY <1>12
            <4>2. PICK base \in Nat : base = last.base
                BY <1>6
            <4>3. BuiltFrom(built, n, base, pairs, given)
                BY <2>8, <3>1, <4>1, <4>2 DEF BuiltFrom
            <4>4. /\ built \in Seq(Row(n)) /\ DOMAIN built = DOMAIN pairs
                  /\ \A i \in DOMAIN pairs :
                        /\ built[i].event = n
                        /\ built[i].parent = pairs[i].parent /\ built[i].child = pairs[i].child
                BY <4>3, ImpactRowsAre
            <4>5. QED  BY <4>1, <4>4
        <3>4. TokensOf(n, built) = last.base + (spent + cost)
            <4>1. specs # <<>>
                BY <1>12
            <4>2. PICK whole \in Nat : whole = spent + cost /\ AddsUpTo(given, whole)
                BY <2>5, <2>6
            <4>3. PICK pairs \in Seq(Pair) : pairs = specs
                BY <1>12
            <4>4. BuiltFrom(built, n, last.base, pairs, given)
                BY <2>8, <3>1, <4>3 DEF BuiltFrom
            <4>5. TokensOf(n, built) = last.base + whole
                BY <1>6, <4>1, <4>2, <4>3, <4>4, ImpactRowsCost
            <4>6. QED  BY <4>2, <4>5
        <3>5. PICK a \in Nat, b \in Nat :
                /\ a = Len(rows) /\ b = Len(built)
                /\ DOMAIN rows = 1..a /\ DOMAIN specs = 1..b /\ DOMAIN built = 1..b
                /\ DOMAIN rows' = 1..(a + b)
                /\ \A i \in 1..a : rows'[i] = rows[i]
                /\ \A i \in 1..(a + b) :
                     i \notin 1..a => i - a \in 1..b /\ rows'[i] = built[i - a]
                /\ \A i \in 1..b : i + a \in 1..(a + b) /\ rows'[i + a] = built[i]
            <4>1. PICK R : R = Row(n)
                OBVIOUS
            <4>2. rows \in Seq(R) /\ built \in Seq(R)
                BY <1>12, <3>3, <4>1
            <4>3. PICK a \in Nat, b \in Nat :
                    a = Len(rows) /\ b = Len(built) /\ DOMAIN rows = 1..a /\ DOMAIN built = 1..b
                BY <4>2
            <4>4. PICK joined : joined = rows \o built
                OBVIOUS
            <4>5. /\ DOMAIN joined = 1..(a + b)
                  /\ \A i \in 1..a : joined[i] = rows[i]
                  /\ \A i \in 1..(a + b) :
                        i \notin 1..a => i - a \in 1..b /\ joined[i] = built[i - a]
                  /\ \A i \in 1..b : i + a \in 1..(a + b) /\ joined[i + a] = built[i]
                BY <4>2, <4>3, <4>4, Joined
            <4>6. rows' = joined /\ DOMAIN specs = 1..b
                BY <3>2, <3>3, <4>3, <4>4
            <4>7. QED  BY <4>3, <4>5, <4>6
        <3>6. ASSUME NEW m
              PROVE  /\ (\A i \in DOMAIN built : built[i].event # m) =>
                            TokensOf(m, rows') = TokensOf(m, rows)
                     /\ (\A i \in DOMAIN rows : rows[i].event # m) =>
                            TokensOf(m, rows') = TokensOf(m, built)
            <4>1. PICK R : R = Row(n)
                OBVIOUS
            <4>2. HaveTokens(R)
                BY <4>1 DEF HaveTokens, Row
            <4>3. rows \in Seq(R) /\ built \in Seq(R)
                BY <1>12, <3>3, <4>1
            <4>4. QED  BY <3>2, <4>2, <4>3, TokensOfMore
        <3>7. ASSUME NEW m \in 1..n, m # n
              PROVE  Conserved(m)' /\ Complete(m)'
            <4>1. Conserved(m) /\ Complete(m) /\ events'[m] = events[m]
                BY <1>8, <2>4, <3>7
            <4>2. RowsOf(m)' = RowsOf(m) /\ \A i \in RowsOf(m) : rows'[i] = rows[i]
                <5>1. ASSUME NEW i \in 1..(a + b), i \notin 1..a
                      PROVE  rows'[i].event = n
                    <6>1. PICK k \in 1..b : k = i - a /\ rows'[i] = built[k]
                        BY <3>5, <5>1
                    <6>2. built[k].event = n
                        BY <3>3, <3>5
                    <6>3. QED  BY <6>1, <6>2
                <5>2. \A i \in 1..a : i \in 1..(a + b)
                    OBVIOUS
                <5>3. QED  BY <3>5, <3>7, <5>1, <5>2 DEF RowsOf
            <4>3. TokensOf(m, rows') = TokensOf(m, rows)
                <5>1. \A i \in DOMAIN built : built[i].event # m
                    BY <3>3, <3>7
                <5>2. QED  BY <3>6, <5>1
            <4>4. Conserved(m)'
                BY <4>1, <4>2, <4>3 DEF Conserved
            <4>5. Complete(m)'
                <5>1. {<<rows'[i].parent, rows'[i].child>> : i \in RowsOf(m)} =
                        {<<rows[i].parent, rows[i].child>> : i \in RowsOf(m)}
                    BY <4>2
                <5>2. QED  BY <1>2, <4>1, <4>2, <5>1 DEF Complete
            <4>6. QED  BY <4>4, <4>5
        <3>8. RowsOf(n)' = {i \in 1..(a + b) : i \notin 1..a}
            <4>1. \A i \in 1..a : rows'[i].event # n
                BY <2>3, <3>5
            <4>2. ASSUME NEW i \in 1..(a + b), i \notin 1..a
                  PROVE  rows'[i].event = n
                <5>1. PICK k \in 1..b : k = i - a /\ rows'[i] = built[k]
                    BY <3>5, <4>2
                <5>2. built[k].event = n
                    BY <3>3, <3>5
                <5>3. QED  BY <5>1, <5>2
            <4>3. QED  BY <3>5, <4>1, <4>2 DEF RowsOf
        <3>9. Conserved(n)'
            <4>1. TokensOf(n, rows') = TokensOf(n, built)
                BY <2>3, <3>6
            <4>2. QED  BY <2>6, <3>4, <4>1 DEF Conserved
        <3>10. Complete(n)'
            <4>1. ASSUME NEW i \in RowsOf(n)'
                  PROVE  /\ i - a \in 1..b /\ (i - a) + a = i
                         /\ rows'[i].parent = specs[i - a].parent
                         /\ rows'[i].child = specs[i - a].child
                <5>1. PICK k \in 1..b : k = i - a /\ k + a = i /\ rows'[i] = built[k]
                    BY <3>5, <3>8
                <5>2. QED  BY <3>3, <3>5, <5>1
            <4>2. ASSUME NEW k \in 1..b
                  PROVE  /\ k + a \in RowsOf(n)'
                         /\ rows'[k + a].parent = specs[k].parent
                         /\ rows'[k + a].child = specs[k].child
                <5>1. k + a \in 1..(a + b) /\ k + a \notin 1..a /\ rows'[k + a] = built[k]
                    BY <3>5
                <5>2. QED  BY <3>3, <3>5, <3>8, <5>1
            <4>3. PICK own : own = RowsOf(n)'
                OBVIOUS
            <4>4. {<<rows'[i].parent, rows'[i].child>> : i \in own} =
                    {<<pair.parent, pair.child>> : pair \in ToSet(specs)}
                <5>1. \A i \in own : /\ specs[i - a] \in ToSet(specs)
                                     /\ rows'[i].parent = specs[i - a].parent
                                     /\ rows'[i].child = specs[i - a].child
                    BY <3>5, <4>1, <4>3 DEF ToSet
                <5>2. \A pair \in ToSet(specs) : \E i \in own :
                        rows'[i].parent = pair.parent /\ rows'[i].child = pair.child
                    <6>1. \A pair \in ToSet(specs) : \E k \in 1..b : pair = specs[k]
                        BY <3>5 DEF ToSet
                    <6>2. QED  BY <4>2, <4>3, <6>1
                <5>3. QED  BY <5>1, <5>2
            <4>5. {<<pair.parent, pair.child>> : pair \in ToSet(specs)} =
                    PairsIn(last.article.story, request.entities)
                BY <1>19, <2>2, PairSpecsAre
            <4>6. ASSUME NEW i \in RowsOf(n)', NEW j \in RowsOf(n)',
                         rows'[i].parent = rows'[j].parent, rows'[i].child = rows'[j].child
                  PROVE  i = j
                <5>1. PICK k \in 1..b, l \in 1..b : k = i - a /\ l = j - a
                    BY <4>1
                <5>2. specs[k].parent = specs[l].parent /\ specs[k].child = specs[l].child
                    BY <4>1, <4>6, <5>1
                <5>3. specs[k] = specs[l]
                    <6>1. specs[k] \in Pair /\ specs[l] \in Pair
                        BY <1>12, <3>5
                    <6>2. QED  BY <5>2, <6>1 DEF Pair
                <5>4. IsInjective(specs)
                    BY <2>2, PairSpecsAre
                <5>5. k = l
                    BY <3>5, <5>3, <5>4 DEF IsInjective
                <5>6. QED  BY <3>8, <5>1, <5>5
            <4>7. QED  BY <1>2, <1>9, <4>3, <4>4, <4>5, <4>6 DEF Complete
        <3>11. \A m \in 1..n : Conserved(m)' /\ Complete(m)'
            BY <3>7, <3>9, <3>10
        <3>12. QED  BY <1>8, <3>2, <3>11 DEF RowsInv
    <2>9. QED  BY <2>7, <2>8
<1>20. ~ ImpactMode(request.entities) => RowsInv'
    BY <1>2 DEF RowsInv
<1>21. QED  BY <1>15, <1>16, <1>18, <1>19, <1>20

-----------------------------------------------------------------------------
(* What follows of every run.                                              *)

\* It holds at the start.
LEMMA PipelineInit == Init => Inv
<1> SUFFICES ASSUME Init  PROVE Inv
    OBVIOUS
<1>1. stage = "new"
    BY DEF Init, CollectorInit
<1>2. StoriesInv /\ RowsInv
    BY <1>1 DEF StoriesInv, RowsInv
<1>3. QED  BY <1>2, TypesInit DEF Inv

\* No step breaks it.
LEMMA PipelineNext == Inv /\ [Next]_vars => Inv'
<1> SUFFICES ASSUME Inv, [Next]_vars  PROVE Inv'
    OBVIOUS
<1>1. TypesInv /\ CollectInv /\ StoriesInv /\ RowsInv
    BY DEF Inv
<1>2. CASE Collecting
    <2>1. TypesInv' /\ CollectInv'
        BY <1>1, <1>2, CollectKeepsTypes
    <2>2. stage' \in {"collect", "backfill", "fallback", "failed"}
        BY <1>2 DEF Collecting, Collect, Accept, Reject, ReadFeed, FeedFails, Crawl, CrawlFails,
                    ReadBackfill, BackfillFails, Receive
    <2>3. StoriesInv' /\ RowsInv'
        BY <2>2 DEF StoriesInv, RowsInv
    <2>4. QED  BY <2>1, <2>3 DEF Inv
<1>3. CASE StartRun
    BY <1>1, <1>3, StartRunKeeps DEF Inv
<1>4. CASE RefuseRun
    BY <1>1, <1>4, RefuseRunKeeps DEF Inv
<1>5. CASE SkipIrrelevant
    BY <1>1, <1>5, SkipIrrelevantKeeps DEF Inv
<1>6. CASE EnrichArticle
    BY <1>1, <1>6, EnrichArticleKeeps DEF Inv
<1>7. CASE ClassifyPair
    BY <1>1, <1>7, ClassifyPairKeeps DEF Inv
<1>8. CASE Finish
    BY <1>1, <1>8, FinishKeeps DEF Inv
<1>9. CASE UNCHANGED vars
    <2>1. /\ UNCHANGED <<stage, request, clock, window, pending, collected, delivered>>
          /\ UNCHANGED <<queue, events, specs, answers, rows>>
        BY <1>9 DEF vars, collectorVars, runVars
    <2>2. TypesInv'
        BY <1>1, <2>1 DEF TypesInv
    <2>3. /\ SelectedSources' = SelectedSources /\ \A a : InWindow(a)' = InWindow(a)
          /\ \A story : IsRelevant(story)' = IsRelevant(story)
        BY <2>1 DEF SelectedSources, InWindow, IsRelevant
    <2>4. Due' = Due
        BY <2>1, <2>3 DEF Due
    <2>5. CollectInv'
        BY <1>1, <2>1, <2>3, <2>4 DEF CollectInv
    <2>6. StoriesInv'
        <3>1. /\ First(collected)' = First(collected)
              /\ OneEach(queue)' = OneEach(queue) /\ KeysOf(queue)' = KeysOf(queue)
              /\ ArticlesOfEvents' = ArticlesOfEvents /\ KeysOfEvents' = KeysOfEvents
            BY <2>1 DEF First, OneEach, KeysOf, ArticlesOfEvents, KeysOfEvents
        <3>2. Become' = Become /\ RelevantIn(queue)' = RelevantIn(queue)
            BY <2>1, <2>3, <3>1 DEF Become, RelevantIn
        <3>3. QED  BY <1>1, <2>1, <3>1, <3>2 DEF StoriesInv
    <2>7. \A n : /\ Conserved(n)' = Conserved(n) /\ Complete(n)' = Complete(n)
                 /\ InProgress(n)' = InProgress(n) /\ RowsOf(n)' = RowsOf(n)
        BY <2>1 DEF Conserved, Complete, InProgress, RowsOf
    <2>8. RowsInv'
        BY <1>1, <2>1, <2>7 DEF RowsInv, RowsOf
    <2>9. QED  BY <2>2, <2>5, <2>6, <2>8 DEF Inv
<1>10. QED  BY <1>2, <1>3, <1>4, <1>5, <1>6, <1>7, <1>8, <1>9 DEF Next

\* It is invariant.
LEMMA PipelineInv == Spec => []Inv
<1>1. QED  BY PipelineInit, PipelineNext, PTL DEF Spec

\* The types of a run hold at every step (Collector and Service.Run).
THEOREM PipelineTypeOK == Spec => []TypeOK
<1>1. ASSUME Inv  PROVE TypeOK
    <2>1. TypesInv
        BY <1>1 DEF Inv
    <2>2. ToSet(pending) \subseteq ToSet(EnabledSources) /\ ToSet(collected) \subseteq Articles
          /\ ToSet(queue) \subseteq Articles /\ ToSet(specs) \subseteq Pair
        BY <2>1, SeqOver DEF TypesInv
    <2>3. \A i \in DOMAIN events : events[i] \in Event
        BY <2>1 DEF TypesInv
    <2>4. ToSet(rows) \subseteq Row(Len(events)) /\ DOMAIN events = 1..Len(events)
        <3>1. PICK R : R = Row(Len(events))
            OBVIOUS
        <3>2. ToSet(rows) \subseteq R
            BY <2>1, <3>1, SeqOver DEF TypesInv
        <3>3. QED  BY <2>1, <3>1, <3>2 DEF TypesInv
    <2>5. QED  BY <2>1, <2>2, <2>3, <2>4 DEF TypeOK, TypesInv, Event, Pair, Row
<1>2. QED  BY <1>1, PipelineInv, PTL

\* Of the articles that are due, the first collected of each key becomes an event
\* if it is relevant, and nothing else does, whatever fails over to a crawl or a
\* backfill, whatever the hashes, links and titles, and with or without a hash
\* (CollectArticles, DedupeEngine.Filter, Service.Run).
THEOREM PipelineEventsAreTheStories == Spec => []EventsAreTheStories
<1>1. ASSUME Inv, stage = "done"
      PROVE  /\ {Key(a) : a \in Due} = {Key(a) : a \in Due \cap First(collected)}
             /\ ArticlesOfEvents = {a \in Due \cap First(collected) : IsRelevant(a.story)}
             /\ \A i, j \in DOMAIN events :
                    Key(events[i].article) = Key(events[j].article) => i = j
    <2>1. StoriesInv /\ ToSet(collected) = Due /\ collected \in Seq(Articles)
        BY <1>1 DEF Inv, CollectInv, TypesInv
    <2>2. First(collected) \subseteq Due
        BY <2>1 DEF First, ToSet
    <2>3. {Key(a) : a \in Due} = {Key(a) : a \in First(collected)}
        <3>1. /\ ToSet(DedupeFilter(collected)) = First(collected)
              /\ KeysOf(DedupeFilter(collected)) = KeysOf(collected)
            BY <2>1, DedupeKeeps
        <3>2. QED  BY <2>1, <3>1 DEF KeysOf
    <2>4. Due \cap First(collected) = First(collected)
        BY <2>2
    <2>5. RelevantIn(queue) = {}
        BY <1>1, <2>1 DEF StoriesInv, RelevantIn, ToSet
    <2>6. QED  BY <1>1, <2>1, <2>3, <2>4, <2>5 DEF StoriesInv, Become
<1>2. Inv => EventsAreTheStories
    BY <1>1 DEF EventsAreTheStories, Due, First, IsRelevant, ArticlesOfEvents
<1>3. QED  BY <1>2, PipelineInv, PTL

\* The shares of an event's rows and the costs of their pairs add up to what
\* the router charged, for any number of pairs and any cost (allocateInt,
\* buildImpactFeatureRows).
THEOREM PipelineUsageConserved == Spec => []UsageConserved
<1>1. Inv => UsageConserved
    BY DEF Inv, RowsInv, InProgress, Conserved, RowsOf, UsageConserved
<1>2. QED  BY <1>1, PipelineInv, PTL

\* Every pair of a parent and a child that an event is mapped to has its row, and
\* once, and no other pair has one, whatever the groups, the stories and the ids of
\* the entities (EntityMapper.Map, newImpactModeConfig, buildImpactFeatureRows).
THEOREM PipelinePairsComplete == Spec => []PairsComplete
<1>1. Inv => \A n \in DOMAIN events :
        stage = "done" /\ ImpactMode(request.entities) => Complete(n)
    BY DEF Inv, RowsInv, InProgress
<1>2. Inv => PairsComplete
    BY <1>1 DEF Complete, RowsOf, PairsIn, ParentsIn, ChildrenIn, MappedTo, FirstsIn, PairsComplete
<1>3. QED  BY <1>2, PipelineInv, PTL
=============================================================================
