------------------------------ MODULE Pipeline ------------------------------
(***************************************************************************)
(* One run from its request to its rows: Collector brings the articles,    *)
(* Service.Run in internal/engine/service.go removes duplicates, drops     *)
(* what is irrelevant, enriches what is left and, for an impact request,   *)
(* classifies each pair of a parent and a child.  What the provider router *)
(* charges for a call is any of Charges, or 0 when the rules answer.       *)
(***************************************************************************)
EXTENDS Collector, ImpactRows

CONSTANTS
    CanonicalHash,      \* of each story: its link, title and summary, hashed
    LinkAndTitle,       \* of each story, either or both perhaps blank
    Charges             \* the tokens an answer of the router may cost

ASSUME PipelineAssumption ==
    /\ Charges \subseteq Nat
    /\ DOMAIN Mentions = Stories
    /\ DOMAIN CanonicalHash = Stories /\ DOMAIN LinkAndTitle = Stories

VARIABLES
    queue,      \* the articles the loop of Run has still to see
    events,     \* the events so far; charged is all the router charged for one
    specs,      \* the pairs of the last event
    answers,    \* the tokens of the pairs classified so far
    rows        \* the feature rows so far

runVars == <<queue, events, specs, answers, rows>>
vars == <<collectorVars, runVars>>

Init ==
    /\ CollectorInit
    /\ queue = <<>> /\ events = <<>> /\ specs = <<>> /\ answers = <<>> /\ rows = <<>>

Collecting == Collect /\ UNCHANGED runVars

-----------------------------------------------------------------------------
\* A hash is never a link and a title.
Key(article) ==
    IF article.hashed
    THEN <<"hash", CanonicalHash[article.story]>>
    ELSE <<"link and title", LinkAndTitle[article.story]>>

\* Wrong on purpose: an article is removed only next to its copy.
DedupeNeighbours(articles) ==
    FoldLeft(LAMBDA kept, a : IF kept # <<>> /\ Key(Last(kept)) = Key(a)
                              THEN kept ELSE Append(kept, a),
             <<>>, articles)

DedupeFilter(articles) ==
    FirstOfEach([a \in ToSet(articles) |-> Key(a)], ToSet(articles), articles)

Runnable ==
    request.profile \in DOMAIN Profiles /\ ValidSelection(request.entities)

\* Run takes the articles when the last source has answered.
StartRun ==
    /\ stage = "collect" /\ pending = <<>>
    /\ Runnable
    /\ stage' = "run"
    /\ queue' = DedupeFilter(collected)
    /\ UNCHANGED <<request, clock, window, pending, collected, delivered,
                   events, specs, answers, rows>>

\* An unknown profile, or an entity selection that names nothing known.
RefuseRun ==
    /\ stage = "collect" /\ pending = <<>>
    /\ ~ Runnable
    /\ stage' = "failed"
    /\ UNCHANGED <<request, clock, window, pending, collected, delivered, runVars>>

SkipIrrelevant ==
    /\ stage = "run" /\ queue # <<>>
    /\ ~ Relevant(Head(queue).story, request.entities, request.profile)
    /\ queue' = Tail(queue)
    /\ UNCHANGED <<collectorVars, events, specs, answers, rows>>

\* The rows of an event are built at once unless it has pairs to classify.
EnrichArticle ==
    /\ stage = "run" /\ queue # <<>>
    /\ LET article == Head(queue)
           pairs == PairSpecs(article.story, request.entities)
           costs == IF NeedsLLM(article.story, request.entities, request.profile)
                    THEN Charges \cup {0} ELSE {0}
       IN  /\ Relevant(article.story, request.entities, request.profile)
           /\ \E base \in costs :
               /\ events' = Append(events, [article |-> article, base |-> base, charged |-> base])
               /\ rows' = IF ImpactMode(request.entities) THEN rows
                          ELSE rows \o BuildBaseRows(Len(events'), article.story, base)
           /\ specs' = pairs
           /\ stage' = IF pairs = <<>> THEN "run" ELSE "pairs"
    /\ queue' = Tail(queue)
    /\ answers' = <<>>
    /\ UNCHANGED <<request, clock, window, pending, collected, delivered>>

\* Wrong on purpose: the answer just given is not counted.
PairsAnsweredBefore == Len(answers) = Len(specs)

PairsAnswered == Len(answers') = Len(specs)

\* The pairs are classified one after the other; the last answer is followed
\* by the event's rows.
ClassifyPair ==
    /\ stage = "pairs"
    /\ \E cost \in Charges \cup {0} :
        /\ answers' = Append(answers, cost)
        /\ events' = [events EXCEPT ![Len(events)].charged = @ + cost]
    /\ IF PairsAnswered
       THEN /\ stage' = "run"
            /\ rows' = rows \o BuildImpactRows(Len(events), Last(events).base, specs, answers')
       ELSE UNCHANGED <<stage, rows>>
    /\ UNCHANGED <<request, clock, window, pending, collected, delivered, queue, specs>>

Finish ==
    /\ stage = "run" /\ queue = <<>>
    /\ stage' = "done"
    /\ UNCHANGED <<request, clock, window, pending, collected, delivered, runVars>>

Next ==
    \/ Collecting
    \/ StartRun \/ RefuseRun
    \/ SkipIrrelevant \/ EnrichArticle \/ ClassifyPair \/ Finish

Spec == Init /\ [][Next]_vars

-----------------------------------------------------------------------------
Articles == [source : ToSet(EnabledSources) \cup {a.source : a \in ToSet(Archive)},
             story : Stories, published : Nat, hashed : BOOLEAN]

\* Type invariant of the request, its articles, its events and its rows.
TypeOK ==
    /\ stage \in {"new", "collect", "fallback", "backfill", "run", "pairs", "done", "failed"}
    /\ request \in Requests
    /\ clock \in Start..MaxClock
    /\ window \in [from : Int, to : Int]
    /\ ToSet(pending) \subseteq ToSet(EnabledSources)
    /\ ToSet(collected) \cup ToSet(queue) \cup delivered \subseteq Articles
    /\ \A i \in DOMAIN events :
        events[i].article \in Articles /\ events[i].base \in Nat /\ events[i].charged \in Nat
    /\ ToSet(specs) \subseteq [parent : ToSet(Symbols), child : ToSet(Symbols) \cup {NA}]
    /\ Len(answers) <= Len(specs)
    /\ ToSet(rows) \subseteq [event : DOMAIN events,
                             parent : ToSet(Symbols) \cup {"UNKNOWN"},
                             child : ToSet(Symbols) \cup {NA}, tokens : Nat]

\* What a source that was asked for delivers in the window is due.  Of the due
\* articles of one key the first collected, and no other, becomes an event, if it
\* is relevant, and nothing else does: no fallback, no backfill and no copy loses a
\* key (CollectArticles, filterBySelectedSourcesAndWindow, DedupeEngine.Filter,
\* Run).  For fetched articles the key is the link, title and summary; records of a
\* backfill that agree in link and title, or have neither, are one whatever they
\* say, and with an irrelevant first one there is no event at all.
EventsAreTheStories ==
    stage = "done" =>
        LET due == {a \in delivered : a.source \in ToSet(SelectedSources) /\ InWindow(a)}
            first == {collected[j] : j \in {n \in DOMAIN collected :
                        \A i \in 1..(n - 1) : Key(collected[i]) # Key(collected[n])}}
            become == {a \in due \cap first : Relevant(a.story, request.entities, request.profile)}
        IN  /\ {Key(a) : a \in due} = {Key(a) : a \in due \cap first}
            /\ {events[i].article : i \in DOMAIN events} = become
            /\ \A i, j \in DOMAIN events :
                Key(events[i].article) = Key(events[j].article) => i = j

\* The tokens in the rows of event n.
TokensOf(n, built) ==
    FoldLeft(LAMBDA sum, row : IF row.event = n THEN sum + row.tokens ELSE sum, 0, built)

\* In impact mode the rows of an event add up to what the router charged for it,
\* the article's own call and every pair's, whatever the number of pairs
\* (buildImpactFeatureRows, allocateInt).
UsageConserved ==
    (stage = "done" /\ ImpactMode(request.entities)) =>
        \A n \in DOMAIN events :
            (\E i \in DOMAIN rows : rows[i].event = n) => TokensOf(n, rows) = events[n].charged

\* In impact mode an event has one row for each requested parent it is mapped to
\* and each child of that parent it is mapped to, or none of them, and no other row
\* (newImpactModeConfig, buildImpactFeatureRows).  It is mapped to every entity it
\* mentions, but of those with one id, or without an id, to the first alone: a pair
\* of another one has no row (EntityMapper.Map).
PairsComplete ==
    (stage = "done" /\ ImpactMode(request.entities)) =>
        \A n \in DOMAIN events :
            LET named(j) == Symbols[j] \in Mentions[events[n].article.story]
                mapped == {Symbols[j] : j \in {k \in DOMAIN Symbols : named(k) /\
                    \A i \in 1..(k - 1) : named(i) => EntityID[Symbols[i]] # EntityID[Symbols[k]]}}
                own == {i \in DOMAIN rows : rows[i].event = n}
                childrenOf(p) == {c \in mapped :
                    \E g \in Groups : g.impact /\ g.parent = p /\ c \in g.children}
                asked == mapped \cap Requested(request.entities)
                parents == {p \in asked : \E g \in Groups : g.impact /\ g.parent = p}
            IN  /\ {<<rows[i].parent, rows[i].child>> : i \in own} =
                    {<<p, NA>> : p \in {q \in parents : childrenOf(q) = {}}}
                      \cup UNION {{<<p, c>> : c \in childrenOf(p)} : p \in parents}
                /\ \A i, j \in own :
                    rows[i].parent = rows[j].parent /\ rows[i].child = rows[j].child => i = j

\* What the Pulse fetcher delivers goes on to the run: "Build
\* `core.Article` and continue through existing dedupe/relevance/enrichment
\* flow" (docs/plans/2026-02-24-pulse-source-and-entity-quality-design.md:61).
\* It does not: the article is dated after the window that a request without an
\* end was given.
PulseArticlesReachTheRun ==
    (stage = "run" /\ request.backfill = "none" /\ request.to = None) =>
        \A a \in delivered : Kind[a.source] = "pulse" => a \in ToSet(collected)
=============================================================================
