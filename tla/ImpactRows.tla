----------------------------- MODULE ImpactRows -----------------------------
(****************************************************************************)
(* What a run computes of one article without changing any state: the       *)
(* entities it is about (selectEntities of internal/engine/service.go), its *)
(* relevance (internal/ingest/relevance.go) and its feature rows            *)
(* (internal/engine/impact_rows.go).  Weights, confidences, sentiments and  *)
(* provider names are left out of the rows, tokens are not.                 *)
(****************************************************************************)
EXTENDS Integers, FiniteSets, Filtering

CONSTANTS
    Symbols,        \* the effective entities by symbol, or name without one, sorted
    EntityID,       \* the id of each, perhaps missing, perhaps another's too
    Lookup,         \* the symbol behind each symbol, name or alias
    Blank,          \* an empty name
    Groups,         \* entity groups: impact (the id matches), parent, children
    Mentions,       \* the symbols each story mentions
    FactorHits,     \* the factor keywords each story contains
    FactorTotal,    \* the number of factor keywords
    Profiles,       \* the three thresholds of each profile, in percent
    NA              \* no child

ASSUME ImpactRowsAssumption ==
    /\ FactorTotal \in Nat \ {0}
    /\ Symbols \in Seq(ToSet(Symbols)) /\ IsInjective(Symbols)
    /\ DOMAIN EntityID = ToSet(Symbols)
    /\ \A g \in Groups : {g.parent} \cup g.children \subseteq ToSet(Symbols)
    /\ \A g, h \in Groups : g.parent \notin h.children

-----------------------------------------------------------------------------
Named(names) == ToSet(names) \ {Blank}

ValidSelection(names) ==
    \/ names = <<>>
    \/ Named(names) # {} /\ Named(names) \subseteq DOMAIN Lookup

Requested(names) ==
    IF names = <<>> THEN ToSet(Symbols) ELSE {Lookup[name] : name \in Named(names)}

ImpactGroups == {g \in Groups : g.impact}

\* Impact mode is on when a parent of an impact group was named.
ImpactParents(names) ==
    IF names = <<>> THEN {} ELSE Requested(names) \cap {g.parent : g \in ImpactGroups}

ImpactMode(names) == ImpactParents(names) # {}

\* Wrong on purpose: every parent has the children of all of them.
ChildrenOfAll(parent) == UNION {g.children : g \in ImpactGroups}

ChildrenOf(parent) == UNION {g.children : g \in {h \in ImpactGroups : h.parent = parent}}

SelectedEntities(names) ==
    IF ImpactMode(names)
    THEN ImpactParents(names) \cup UNION {ChildrenOf(p) : p \in ImpactParents(names)}
    ELSE Requested(names)

\* 0.65 of the factor score and 0.35 of the entity score reach a threshold.
RelevanceReaches(percent, story, entities) ==
    65 * FactorHits[story] * Cardinality(entities)
        + 35 * Cardinality(Mentions[story] \cap entities) * FactorTotal
      >= percent * FactorTotal * Cardinality(entities)

Relevant(story, names, profile) ==
    RelevanceReaches(Profiles[profile].min, story, SelectedEntities(names))

NeedsLLM(story, names, profile) ==
    /\ RelevanceReaches(Profiles[profile].ambiguity, story, SelectedEntities(names))
    /\ ~ RelevanceReaches(Profiles[profile].novelty, story, SelectedEntities(names))

-----------------------------------------------------------------------------
\* The mapper looks for every effective entity, whatever was requested, and keeps
\* one of each id.
EntityMatches(story) == FirstOfEach(EntityID, Mentions[story], Symbols)

Matched(story, among) == Only(among, EntityMatches(story))

PairsOfParent(story, parent) ==
    LET children == Matched(story, ChildrenOf(parent))
    IN  IF children = <<>>
        THEN <<[parent |-> parent, child |-> NA]>>
        ELSE [i \in DOMAIN children |-> [parent |-> parent, child |-> children[i]]]

\* Parents in order, and under each its own matched children in order.
PairSpecs(story, names) ==
    LET parents == Matched(story, ImpactParents(names))
    IN  FlattenSeq([i \in DOMAIN parents |-> PairsOfParent(story, parents[i])])

\* Wrong on purpose: the remainder is nobody's.
AllocateEqually(total, parts, idx) == IF parts <= 0 \/ total <= 0 THEN 0 ELSE total \div parts

AllocateInt(total, parts, idx) ==
    IF parts <= 0 \/ total <= 0 THEN 0
    ELSE total \div parts + (IF idx < total % parts THEN 1 ELSE 0)

\* One row per pair: its share of the article's tokens and its own.
BuildImpactRows(event, base, pairs, answers) ==
    [i \in DOMAIN pairs |->
        [event |-> event, parent |-> pairs[i].parent, child |-> pairs[i].child,
         tokens |-> AllocateInt(base, Len(pairs), i - 1) + answers[i]]]

\* Out of impact mode: one row per matched entity, each with all the tokens.
BuildBaseRows(event, story, base) ==
    LET matches == EntityMatches(story)
        symbols == IF matches = <<>> THEN <<"UNKNOWN">> ELSE matches
    IN  [i \in DOMAIN symbols |->
            [event |-> event, parent |-> symbols[i], child |-> NA, tokens |-> base]]
=============================================================================
