------------------------------ MODULE Collector ------------------------------
(***************************************************************************)
(* How a run gets its articles: handleRunCreate's defaults, then           *)
(* internal/engine/collector.go and backfill.go over the fetchers that     *)
(* internal/ingest/router.go chooses between.  A story stands for a link,  *)
(* a title, a summary and a body; an article is a story as a source        *)
(* delivered it, and only what was fetched carries a canonical hash.       *)
(***************************************************************************)
EXTENDS Integers, Filtering

CONSTANTS
    EnabledSources,     \* the enabled sources, in the order of sources.yaml
    Kind,               \* "rss", "direct" or "pulse", for each source
    CrawlFallback,      \* the sources crawled when their feed fails
    Feed,               \* the stories in each source's feed
    Pages,              \* the stories a crawl of each source finds
    Archive,            \* what a backfill holds: a source and a story each
    DateOf,             \* the date a story carries, or None
    None,               \* a date that is missing
    Requests,           \* what POST /v1/runs is asked for
    DayLength,          \* the default window
    Start, MaxClock     \* the time of the request, and the bound on the clock

Stories == DOMAIN DateOf

ASSUME CollectorAssumption ==
    /\ Start \in Nat /\ MaxClock \in Nat /\ Start <= MaxClock /\ DayLength \in Nat
    /\ EnabledSources \in Seq(DOMAIN Kind) /\ EnabledSources # <<>>
    /\ \A s \in ToSet(EnabledSources) :
        /\ Kind[s] \in {"rss", "direct", "pulse"}
        /\ Kind[s] = "rss" => Feed[s] \in Seq(Stories)
        /\ Kind[s] # "rss" \/ s \in CrawlFallback => Pages[s] \in Seq(Stories)
    /\ Archive \in Seq([source : {Archive[i].source : i \in DOMAIN Archive}, story : Stories])
    /\ \A story \in Stories : DateOf[story] \in Nat \cup {None}
    /\ \A r \in Requests :
        /\ r.sources \in Seq(ToSet(r.sources))
        /\ r.from \in Nat \cup {None} /\ r.to \in Nat \cup {None}

VARIABLES
    stage,      \* how far the request is
    request,    \* what was asked
    clock,      \* the time
    window,     \* DateFrom and DateTo
    pending,    \* the sources still to be fetched
    collected,  \* the articles collected so far
    delivered   \* read by no action: every article a source delivered

collectorVars == <<stage, request, clock, window, pending, collected, delivered>>

CollectorInit ==
    /\ stage = "new"
    /\ request \in Requests
    /\ clock = Start
    /\ window = [from |-> 0, to |-> 0]
    /\ pending = <<>>
    /\ collected = <<>>
    /\ delivered = {}

-----------------------------------------------------------------------------
\* A story without a date of its own is dated by the clock.
Dated(source, story, t, hashed) ==
    [source |-> source, story |-> story,
     published |-> IF DateOf[story] = None THEN t ELSE DateOf[story], hashed |-> hashed]

FromFeed(source, t) ==
    [i \in DOMAIN Feed[source] |-> Dated(source, Feed[source][i], t, TRUE)]

FromArchive(t) ==
    [i \in DOMAIN Archive |-> Dated(Archive[i].source, Archive[i].story, t, FALSE)]

\* A crawl leaves out the pages it cannot read, and dates the others by the
\* clock whatever date they carry.
FromPages(source, readable, t) ==
    LET found == Only(readable, Pages[source])
    IN  [i \in DOMAIN found |->
            [source |-> source, story |-> found[i], published |-> t, hashed |-> TRUE]]

InWindow(article) ==
    window.from <= article.published /\ article.published <= window.to

SelectedSources ==
    IF request.sources = <<>> THEN EnabledSources ELSE request.sources

\* Wrong on purpose: only the window is applied.
FilterByWindow(articles) == Only({a \in ToSet(articles) : InWindow(a)}, articles)

FilterBySourcesAndWindow(articles) ==
    Only({a \in ToSet(articles) : a.source \in ToSet(SelectedSources) /\ InWindow(a)}, articles)

TimePasses == clock' \in {clock, clock + 1} /\ clock' <= MaxClock

-----------------------------------------------------------------------------
Acceptable ==
    /\ ToSet(SelectedSources) \subseteq ToSet(EnabledSources)
    /\ request.backfill \in {"none", "local_file", "archive_http"}

\* A missing end of the window is the time of the request.
Accept ==
    /\ stage = "new" /\ Acceptable
    /\ window' = [from |-> IF request.from = None THEN clock - DayLength ELSE request.from,
                  to   |-> IF request.to = None THEN clock ELSE request.to]
    /\ IF request.backfill = "none"
       THEN stage' = "collect" /\ pending' = SelectedSources
       ELSE stage' = "backfill" /\ UNCHANGED pending
    /\ UNCHANGED <<request, clock, collected, delivered>>

\* An unknown or disabled source, or an unknown backfill mode.
Reject ==
    /\ stage = "new" /\ ~ Acceptable
    /\ stage' = "failed"
    /\ UNCHANGED <<request, clock, window, pending, collected, delivered>>

\* The answer of the source at the head of pending, cut to the window.
Receive(articles) ==
    /\ collected' = collected \o Only({a \in ToSet(articles) : InWindow(a)}, articles)
    /\ delivered' = delivered \cup ToSet(articles)
    /\ pending' = Tail(pending)
    /\ stage' = "collect"
    /\ UNCHANGED <<request, window>>

Fetching(kinds) == stage = "collect" /\ pending # <<>> /\ Kind[Head(pending)] \in kinds

Crawling == stage = "fallback" \/ Fetching({"direct", "pulse"})

ReadFeed ==
    /\ Fetching({"rss"})
    /\ TimePasses
    /\ Receive(FromFeed(Head(pending), clock'))

FeedFails ==
    /\ Fetching({"rss"})
    /\ TimePasses
    /\ stage' = IF Head(pending) \in CrawlFallback THEN "fallback" ELSE "failed"
    /\ UNCHANGED <<request, window, pending, collected, delivered>>

Crawl ==
    /\ Crawling
    /\ TimePasses
    /\ \E readable \in SUBSET ToSet(Pages[Head(pending)]) :
        Receive(FromPages(Head(pending), readable, clock'))

\* One source that cannot be read fails the whole request.
CrawlFails ==
    /\ Crawling
    /\ stage' = "failed"
    /\ UNCHANGED <<request, clock, window, pending, collected, delivered>>

ReadBackfill ==
    /\ stage = "backfill"
    /\ TimePasses
    /\ collected' = FilterBySourcesAndWindow(FromArchive(clock'))
    /\ delivered' = ToSet(FromArchive(clock'))
    /\ stage' = "collect"
    /\ UNCHANGED <<request, window, pending>>

BackfillFails ==
    /\ stage = "backfill"
    /\ stage' = "failed"
    /\ UNCHANGED <<request, clock, window, pending, collected, delivered>>

Collect ==
    \/ Accept \/ Reject
    \/ ReadFeed \/ FeedFails
    \/ Crawl \/ CrawlFails
    \/ ReadBackfill \/ BackfillFails
=============================================================================
