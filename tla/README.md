# Formal models of the AI Impact Scrapper

TLA+ specifications of the Go engine in this repository: what its concurrent,
failing and restarting parts do, checked with TLC on small instances and, for
every safety property among them, proved with TLAPS for every instance. Source
paths below are relative to the repository root.

## 1. Inventory of the system

| Component | Source | State | Operations | Hard behaviour |
|---|---|---|---|---|
| Provider router | `internal/enrich/router.go` | `usage`, `failures`, `openUntil` per provider, one mutex | `Enrich` (calls `allowed`, three provider calls, `recordFailure`, `resetFailure`, `recordUsage`) | many requests share one router; the budget check and the charge are separate critical sections with network calls between; breaker windows |
| Run engine | `internal/engine/service.go`, `internal/core/service.go` | run id counter, nothing else of its own | `Run`, `persistRunArtifacts`, `ExportJSONL/CSV/TOON`, `GetRun`, `ListRuns` | seven files in seven steps, failure or crash between any two, replacement of the Service under running requests |
| File store | `internal/storage/file_store.go` | three maps under an RWMutex, files on disk | `SaveRun`, `SaveEvents`, `SaveFeatureRows`, `SaveRunRequest`, `Put`, `Get*`, `ListRuns` | map before file, in-place writes, unlocked `Put`, maps lost at restart |
| Source administration | `internal/sourceadmin/service.go` | `configs/sources.yaml`, a mutex | `Create`, `List` | read-check-write-validate-rollback, crash in between |
| API server | `cmd/api/main.go`, `internal/engine/bootstrap.go` | `rt.Config`, `rt.Service` (unsynchronised) | `handleSourceCreate`, `handleRunCreate`, reads | reload and assignment outside every lock |
| Scheduler | `cmd/scheduler/main.go` | the next wake-up | `nextDailyRun`, `runOnce`, `triggerRun` | 24 h against time-zone changes, client time-out without retry, restarts |
| Worker | `cmd/worker/main.go` | its own run id counter | one run per process | its ids over the engine's store |
| Entities sync | `cmd/entities-sync/main.go`, `internal/nse/bhavcopy.go` | `configs/entities.custom.yaml` | load, fetch, normalise, overwrite, load again | in-place write beside the API, no rollback, what the merge drops |
| Configuration | `internal/config` | none after `Load` | `Load`, `validate`, `EffectiveEntities` | cross-file rules, one file changing while it is loaded |
| Article collection | `internal/engine/collector.go`, `backfill.go`, `internal/ingest/router.go`, `dedupe.go`, `relevance.go` | none | resolve sources, fetch with fallback, window, dedupe | one failing source fails all; undated articles against the window |
| Fetchers | `internal/ingest/{rss,direct,pulse,toon,browser_fallback}.go` | none | HTTP and parsing | input formats |
| Impact rows | `internal/engine/impact_rows.go` | none | pair weights, token allocation, totals | rounding, double counting |
| Enricher, providers | `internal/enrich/enricher.go`, `providers/`, `internal/entitymatch` | none | text rules, HTTP clients | fatal against ordinary errors (seen by the router) |
| Market sessions | `internal/market/session.go` | none | alignment, label window | boundaries of days; every day counts as a session |
| Evaluation folds | `internal/eval/eval.go` | none | purged walk-forward folds | off-by-one at the purge |
| Persistent storage | `internal/storage/{persistent,postgres,clickhouse,minio,storage,env}.go` | three back ends | the store operations | partial failure across back ends |
| Exporters, frontend | `internal/export`, `frontend/app.js` | none | formatting, a page over the API | none |

How they interact: a client (browser, scheduler, worker) posts a run;
`handleRunCreate` collects articles and calls `Service.Run`, which takes a run
id, lets the enricher call the router once or more per article, and writes the
result through the store. `handleSourceCreate` changes `sources.yaml`, reloads
the configuration and replaces `rt.Config` and `rt.Service`; the new Service
has a new router (fresh budgets) and a new run id counter over the old store.

What makes each part correct:

* router: a budget is overspent by no more than the callers inside can be
  charged, a charge goes to the provider that was asked, an open breaker lets
  nobody in and closes again, `Enrich` returns;
* engine and store: ids are not shared, the files of a run appear in order,
  the answer the client gets is true of the disk, completed runs stay;
* source administration: created sources stay, are created once, failed ones
  leave no trace, the running process serves what it created;
* entities sync: nothing of the operator's that has a symbol is lost, and what
  it writes is a directory that loads;
* scheduler and worker: one run a day at the configured time, whatever the
  engine does; what is logged as done is on disk;
* sessions and folds: no label of a training row reaches into the test.

## 2. Modules

```
SpendGate             abstract budget               SpendGate_proofs
  ^ refined by
RouterGates           the router's four budgets     MCRouterGates, RouterGates_proofs
  extends ProviderRouter   router.go
RunBudget             runs over ProviderRouter      MCRunBudget
RunLedger             abstract POST /v1/runs
  ^ refined by
EngineRuns            service.go                    MCEngineRuns, EngineRuns_proofs
  extends FileStore        file_store.go
PersistentRuns        service.go over persistent.go, postgres.go, clickhouse.go, minio.go
                                                    MCPersistentRuns, PersistentRuns_proofs
SourceAdmin           sourceadmin and its handler   MCSourceAdmin
  ^ refined by
EntitiesSync          entities-sync beside the API  MCEntitiesSync, ConfigDir_proofs
  extends SourceAdmin
Pipeline              one run, request to rows      MCPipeline, Pipeline_proofs
  extends Collector        collector.go, backfill.go, ingest/
  extends ImpactRows       impact_rows.go
  both extend Filtering    the loops that filter a list
DailyRuns             scheduler, engine and worker  MCDailyRuns, DailyRuns_proofs
  extends WalkForward      session.go, eval.go
DataLemmas            numbers, finite sets, sums and folds, used by the proofs
```

A definition marked "Wrong on purpose" is a plausible bug: substituted for the
definition after it, TLC finds a property violated. It is used by no
specification.

### ProviderRouter

A caller is one goroutine inside `Enrich`; `pc` is its place between two
critical sections, `chain` and `pos` are the loop over the fallback chain,
`bill` the tokens of the current attempt. `usage`, `failures` and `openUntil`
are the router's maps (a missing entry is 0). Each function that takes the
mutex is one atomic step. Provider calls are the environment: an answer with
any bill of `Bills`, an ordinary error, or a fatal one. A context that is
cancelled shows as an ordinary error. When no chain is configured the order is
Go's map iteration order, so `ChainOrders` is every permutation. Cost is
counted in integer price units instead of floating-point dollars; rounding is
not modelled. Providers in the chain that are disabled have no client and are
skipped, but only after the budgets were asked, as in the code.

`RouterGates` states what the four budgets promise as instances of `SpendGate`:
one gate over all providers, one for a provider `Watched` that stands for any
of them. `SpendGate` knows only who is inside and what is spent: the budget is
a threshold for admission, so what can be promised is a bounded overshoot.

`RunBudget` adds the start of runs, to relate the budget to what one run used.

### FileStore and EngineRuns

A stored value is abstracted to the request whose run produced it, so "whose
data is in this file" is the whole content. `memory` is the three maps, `disk`
the seven files of each run directory, `mu` the write lock. A save is two
steps, begin (map entry set, file truncated) and end (file written), with the
lock held over both; `Put` has the same two steps and no lock. A torn file is
the value `Torn`. An error of closing a file that was written whole is left out, as are writes
that reach the disk only later. `EngineRuns` walks each request through
`Script`, the order in which `Run` and `persistRunArtifacts` write. `Restart`
empties the maps, loses the requests in flight and starts a new Service;
`ReplaceService` is what `handleSourceCreate` does to the runs. A Service is a
"generation": its id counter is `seq[g]`. `ExportCSV` reads two maps under two
read locks and is one step here: the first read only asks whether the run
exists, and entries are never removed.

`RunLedger` promises a client that its run is stored once and for all before
success is told, that a failed request stored nothing complete, and that a
crash loses answers but no stored run, as long as no other request is given the
id of the run; those that share one are `shared` and lose the promise for good,
and what they write can change only each other. `EngineRuns` gives the
refinement mapping: a run is stored when all of its seven files are its own,
and shared when its id is another's too. The refinement is checked with a
replacement or a restart, so a new Service is shown to harm nobody but the runs
whose ids it gives out again.

### PersistentRuns

The same runs over `STORAGE_MODE=persistent`. A place of `Script` is a table or
an export; what it holds for a run id is a set of items, each with the request
it is from. A back end is the environment: a write takes effect at once, or
fails before or after it did (a lost acknowledgement), and a transaction is
all or nothing. Postgres and MinIO replace what was there, ClickHouse adds to
it. Nobody asks `rows.Err`, so a query gives any part of what is stored; an
export can therefore be shorter than its run, and `CompletedRunsReadBack` asks
of it no more than the code gives. A run id that two requests got mixes their
rows in ClickHouse; `SoleOwner` leaves those runs out, and `engine_reuse` shows
how an id is given twice. The choice of a store from the environment, the
in-memory store and the migrations are left out.

### SourceAdmin

The configuration is its set of source ids. `Create` runs from `Lock` to
`Validated`, `Duplicate`, `ReplaceFails` or `Rollback` under the mutex;
replacing the file is one step because it is a rename, and its rollback's error
is ignored as in the code: `leftovers`, which no action reads, remembers the
sources that stayed because of it, so that `FailedSourcesRolledBack` can set
them aside. The handler's reload and its two assignments follow
with no lock. `rt.Config` is a large struct, so two overlapping assignments may
leave a mixture (`Mixed`). `OthersChange` is another process that makes the
rest of the directory invalid or valid again: `EntitiesSync` says which and how.

### EntitiesSync

`cmd/entities-sync` and the API as two processes over one directory. The sync
loads it, merges the rows of a bhavcopy into the custom entities and rewrites
`entities.custom.yaml` in place: the file is truncated (an empty file is valid
YAML), then holds any piece of what is written, and in the end all of it, unless
the write is cut short; the second load only reports. Every content has a
verdict of `validate` (`Loadable`), which is what `SourceAdmin` knows as
`othersOK`; so the module extends `SourceAdmin`, and every step of the sync is
one of its `OthersChange` or a stutter.

A file of entities lists, under each symbol, a sequence of entries, since nothing
keeps a file from naming a symbol twice. An entity without a symbol is known to
`EffectiveEntities` by its name (`internal/config/types.go:185-191`), and so has a
key of its own among the symbols (`ByName`). An entry is its role and its switch:
those are what the rules about groups and `EffectiveEntities` look at, and the row
of a bhavcopy keeps the second and not the first. `config.Load` takes the last
entry of a symbol that is enabled. `NormalizeBhavcopyRows` keys everything by
symbol, so it drops the entities without one (`internal/nse/bhavcopy.go:214-217`)
and every entry of a symbol but the last: a sync takes an entity away that counted
by its name, and switches off a symbol whose enabled entry is followed by a
disabled one. `UniverseKept` says both, what every whole sync keeps and what it
drops. An entity with neither symbol nor name counts for nothing before and after.
Names, aliases and types are left out; rows outside series EQ and rows without a
symbol have no effect and are not in `Bhavcopies`. What a
reader finds of a file that is being written is a prefix of its symbols in
order, with the last one whole, without its last keys or unreadable. Load,
merge and truncation are one step, since no other program writes the file and
syncs are started by hand one after another.

### WalkForward and DailyRuns

The scheduler is asleep until `wakeAt`, awake (between two statements of its
loop), in a call, or down. Instants are whole numbers and a zone is a function
from them to an offset that changes at most once; `Date` is `time.Date`, which
for a wall time that is skipped or shown twice may give either reading.
`NextDailyRun` adds 24 hours as the code does. `RunOnce` posts a run for the
`Window` before now; the call then goes through collecting and running in the
engine, any of which may fail or take for ever, while the client waits, gives up
after `ClientTimeout` or reads the answer. A handler whose client is gone may
still store its run: the file store does not look at the context. The engine
may crash (its counter of ids starts again), the scheduler may crash and start,
and a worker may run over the same store with a counter of its own. Time
passes only when no deadline of the scheduler is due. A run is abstracted to the
session of one article of its window and to its directory on disk; the steps in
between are `EngineRuns` and `Pipeline`. `WalkForward` is `AlignToNSESession`
without the name of the phase, `LabelWindowEnd`, and the folds that
`BuildPurgedWalkForward` makes of sessions; a fold here is over the sessions of
the runs that are on disk. `UniqueDates`, a map and a sort in the code, is the
one increasing sequence of those sessions. The wall clock never steps back, and the replacement
of a Service by a source creation is in `EngineRuns` only.

### Collector, ImpactRows and Pipeline

One run as data: `Collector` follows `handleRunCreate` from the request to the
list of articles, one action per answer or failure of a source; a feed that
fails goes to the crawl when the source has a fallback, and otherwise ends the
request. A story is a model value that stands for link, title, summary and body;
the text of a page, its parsing and the order of
links are left out. Dates are whole numbers on the scale of the clock.
Deduplication goes by the key of `internal/ingest/dedupe.go:20-23` (`Key`): an
article that was fetched has the canonical hash of its link, title and summary, a
record of a backfill has none (`internal/ingest/toon.go:70-82`) and is keyed by
link and title, either or both of which may be blank. `CanonicalHash` and
`LinkAndTitle` give both for each story, so stories that differ may share a key,
and the first collected article of a key stands for all of them.
`ImpactRows` has the pure part: which entities a request is about, relevance
(0.65 and 0.35 as whole percentages, without floating-point rounding), the
pairs of a parent and a child, the division of tokens and the rows. What a
story mentions is a constant; weights, confidences and display columns are left
out. The universe is a sequence without repetition, because
`EffectiveEntities` (`internal/config/types.go:176`) collects it in a map by
symbol. Ids are neither required nor unique, and the mapper keeps one entity of
each (`internal/enrich/entity_mapper.go:28`): `EntityMatches` is the first
mentioned entity of each id, a missing id being one too (`EntityID`). An entity
without a symbol stands under its name and is in no group; the row that the code
gives it outside impact mode has a blank symbol where the model has that name. `Pipeline` joins them with `Service.Run`: duplicates, relevance,
`EnrichArticle`, one `ClassifyPair` per pair. The router is abstracted to what
it charges: any of `Charges`, or 0 when the rules answer. The writing of the
result is `EngineRuns`. `delivered` is read by no action and remembers what the
sources brought.

Outside impact mode each row of an event carries all its tokens, and in it an
event without a requested parent has no rows, so the totals of a run are not
what the router charged in these two cases: `UsageConserved` speaks of the
events of an impact run that have rows.

Two texts of the repository say otherwise than the code that is modelled here; no
run is spent on them. `docs/plans/2026-02-24-niftyit-alias-llm-first-design.md:14-17`
and `:44` have the relevance filter before the enrichment removed and an event for
every deduplicated article, but `Service.Run` still skips what is below
`min_relevance_score` (`internal/engine/service.go:76-79`), so `EventsAreTheStories`
speaks of relevant articles. `tests/unit/service_unknown_filter_test.go:90` wants
"has no events" when an article matches a parent and no child of it; events do not
depend on pairs, and such a pair has a row with the child N/A
(`internal/engine/impact_rows.go:215-218`), which `PairsComplete` says. The test
passes because its article, with 7 of 20 factor keywords and few of the 17
entities, is below the 0.35 of `high_recall`.

## 3. Runs

| Run | Checks | Result |
|---|---|---|
| `router_gates` | types, bill, breaker, exhaustion, overshoot, both refinements, `EnrichReturns` | hold |
| `run_budget` | `BudgetResetsPerRun` | **violated** |
| `engine_runs` | unique ids, prefix of files, answers, index, `ImplementsLedger`, `RequestsAnswered` | hold |
| `engine_reuse` | `CompletedRunsSurvive` with a second Service | **violated** |
| `engine_listed` | `ListedRunsHaveExports` | **violated** |
| `persistent_runs` | `CompletedRunsReadBack`, `ClickHouseFollowsPostgres`, `NothingWithoutItsRun` | hold |
| `config_dir` | creates beside syncs: `CreatedSourcesPersist`, `OneCreatorPerSource`, `FailedSourcesRolledBack`, `UniverseKept`, `ImplementsSourceAdmin`, `CreatesAnswered` | hold |
| `source_appears` | `CreatedSourcesAppear` | **violated** |
| `entities_sync` | `SyncKeepsConfigLoadable` | **violated** |
| `pipeline` | `EventsAreTheStories`, `UsageConserved`, `PairsComplete` | hold |
| `pipeline_pulse` | `PulseArticlesReachTheRun` | **violated** |
| `daily_runs` | `WindowsDisjoint`, `AtTheDailyTime`, `NoDayMissed`, `ToldRunsOnDisk`, `FoldsPurged`, `SchedulerSleepsAgain` | hold |

What the violated ones show:

* `run_budget`: `per_run_token_budget` is a budget for the life of a Service.
  Nothing resets `usage`; the second run finds it used up and silently falls
  back to the rules. The test `TestServiceRunResetsProviderBudgetsPerRun`
  passes because it only asks for a non-empty provider name, and "rules" is one.
* `engine_reuse`: a restart or `POST /v1/sources` starts the ids again at
  `run-000001`; the next run overwrites the directory of a completed run.
* `engine_listed`: a run without events is saved and listed as completed, then
  fails in its own export; the client gets a 500 and the run has no exports.
* `source_appears`: two creates can load the configuration in one order and
  assign it in the other, after which the process serves the older one.
* `entities_sync`: a bhavcopy lists the parent of an entity group (TCS, say) in
  series EQ. `NormalizeBhavcopyRows` makes a custom entity of it that has no
  role, which counts instead of the default one, and `validate` refuses the
  directory. The sync has written it by then. From there on source creations
  are rolled back, no process starts, and another sync cannot repair the file
  because it loads the directory first.
* `pipeline_pulse`: the Pulse fetcher dates its articles by the clock, the
  default window ended before the fetch, and `CollectArticles` drops them all.
  The crawls of `direct.go`, undated feed items and undated backfill records
  share the fate; an explicit later `date_to` avoids it.

What `daily_runs` sets aside. Its properties about the clock except a day around
a change of the zone's offset, and the size of the change more (`ZoneChanges`),
because there the code does otherwise. When the
clocks go back, 24 hours after 09:15 is 08:15, and the run is asked for again at
09:15: the windows of the two overlap, and their articles are charged twice.
With a daily time in the first hour of the day, 24 hours after it is still the
same day, `wait` is not positive, and the loop posts runs one after another
until midnight. When they go forward, a wall time that does not exist may be
taken an hour early, and a time late in the day skips a date. The default zone,
Asia/Kolkata, never changes. Nor does the code make up for a run that failed,
or was due while the scheduler or the engine was down, and a window of two hours
leaves the other 22 of each day out; these are not properties the code aims at.

Bounds. Router: two callers and two enabled providers give every interleaving
of check and charge at one provider and across two; each budget lies between
one and two attempts' charges above zero, so it runs out, is overshot, and
blocks; the clock goes to 1 with a breaker window of 1, so a breaker opens,
stays open, closes by time and is cleared by success; two providers in either
order make the loop go on, skip and give up. Every provider of the chain is enabled, as
the validation of the configuration asks. Bills are one per call, and the
third call may stay without one. Engine: two requests with one id each are
enough for two runs to meet in one directory; two Services for one replacement
or restart. `persistent_runs` has the same bounds, and two items in each list, so
that a query can break off between them. `config_dir`:
two requests compete for one id over one shipped source, beside two syncs of
five keys: a default parent, a custom child, an entity listed twice and at last
switched off, an index and an entity that has a name and no symbol, with one
bhavcopy that lists the parent and one that does not;
`entities_sync` needs one sync and `source_appears` two requests for different
ids. `daily_runs`: a tick is four hours, so a day has six and a change of the
offset, the client's patience and the window are one, one and two: the order of
the sizes is that of the code except that the first two are equal. Sixteen
instants hold three runs, the fewest that a fold with an embargo needs, and a
change of the offset on the second day; the times of day are the first, the
last and one that is skipped in one zone and shown twice in another. One crash or worker run
(`MaxEvents`) can fall between any two steps; a run that takes longer than
`MaxRunTime` never ends.
Pipeline: six stories cover every case of relevance, of the refinement
by the router and of the pairs (a shared child, an own child, no child, no
parent), with a source asked for twice, one story from two sources, two stories
of one hash that mention different entities, two records of the backfill without
link and title, of which the irrelevant one comes first, and two children without
an id; a charge
of 4 over up to three pairs leaves a remainder; the clock may move once, between
any two fetches. `MaxTime`, `MaxClock`, `MaxGeneration`, `MaxSyncs`, `MaxCalls` and
`MCRunIds` are the bounds on counters. The requests of EngineRuns, PersistentRuns,
SourceAdmin and Pipeline are one-shot and the time of DailyRuns ends, so those
behaviours end and their runs do not check for deadlock; `RequestsAnswered` and `CreatesAnswered`
show that nobody is left waiting.

Fairness. Router: each caller inside `Enrich` keeps running (`WF` on its next
step) because the mutex is held for a few instructions and every provider call
has a time-out; nobody must call `Enrich` again and the clock need not move.
Engine: the same for a request that is being served; new requests, restarts and
replacements are never required. Sources: `SF` on each handler that was called, because the
mutex is held over file operations and `sync.Mutex` guarantees in starvation
mode that a waiter gets it; calls, syncs and reboots are not required. Scheduler: its
own steps and the clock go on; no step of the engine is required, so a call
ends only because its client gives up.

## 4. Proofs

Every safety invariant and every action property that a passing run checks is
also a theorem, for arbitrary constants under the named assumptions of the
modules:

* `RouterAssumption`: callers and providers are finite sets, budgets and
  durations natural numbers, the clients are providers; `RouterGatesAssumption`:
  the bounds on bills and prices are bounds; `GateAssumption`, a hypothesis of
  the gate's theorems that its instances discharge: charges are natural numbers.
* `EngineAssumption`: run ids are positive and there is a first Service;
  `PersistentAssumption`: the same, for finitely many requests;
  `FileStoreAssumption`: a missing and a torn file are no run's.
* `SourceAdminAssumption`: types; `EntitiesSyncAssumption`: types, and the
  shipped entities load.
* `WalkForwardAssumption`, `DailyAssumption`: a day has a length, times of day
  lie within it, offsets are integers, and a run's window is shorter than a day
  (two hours in the code).
* `CollectorAssumption`, `PipelineAssumption`: types of feeds, pages, backfill,
  requests and charges, a hash and a link and title of each story, equal or not; at
  least one source is enabled. `ImpactRowsAssumption`: symbols are distinct, their
  ids are anything, and the roles of groups are those that the configuration
  loader checks.

The bounds on time and counters (`MaxTime`, `MaxCalls`, `MaxGeneration` and the
others) are constants too, so the theorems hold for each of their values.

The arguments, by module:

* `SpendGate_proofs`. Spent plus one charge for each caller inside is inductive:
  an entry happens below the budget, an exit turns at most one charge of
  commitment into spending. The bound on the overshoot follows.
* `RouterGates_proofs`. `RouterOpenBreaker` comes from the lemma that only a
  successful `allowed()` brings a caller to a provider; `RouterBreakerWindow`
  and `RouterBillBounded` are inductive with the types. The budgets rest on
  `StepShape`: every step is quiet, one caller's entry or one caller's exit.
  From it follow `RouterProviderOvershoot` (the bound on what is spent alone is
  not inductive, since it forgets who is inside: `ProviderCommitment` counts
  them), the refinements `RouterProviderGates` and `RouterRunGates`, and
  `RouterExhaustionIsFinal`. The totals of a run are a sum over all providers;
  `ExitRaisesTotals` says what one update does to it.
* `EngineRuns_proofs`. Ids first: they are at most the counter of their Service
  (`RunIDInv`). Then the files: `StoreInv` says that a request with an id to
  itself has exactly the files before its place in the script, the one it is
  writing torn, and the index entries of its own process, and that nothing a
  request produced is found anywhere but under its id. Every step is private to
  one request (`WorkIsPrivate`), so it suffices that it keeps its own directory
  in order (`OwnRunStep`) and cannot reach another's (`PrivateKeeps`).
  `FilesFormAPrefix`, `AnswerMatchesDisk` and `IndexCoversDisk` follow, none of
  which is inductive alone; and with them `EngineImplementsLedger`, step by step.
* `PersistentRuns_proofs`. The same plan with sets of items for files: what a
  place holds after its write has succeeded (`Good`), that ClickHouse has
  nothing before its turn and only rows of its run after, and that the run is
  stored first and never taken out.
* `ConfigDir_proofs`. `SourceInv` says what an editor holds under the lock: the
  file is what it read (plus its own source), and what it read contains
  everything shipped and everything already settled; without it a rollback
  could not be shown harmless to the others. `FailuresRolledBack` needs the
  converse too, `FileExplained`: whatever is in the file was shipped, is in the
  hands of a request, was answered for, lost its client in a crash or was left
  by a rollback that could not write. The sync refines `SourceAdmin`
  (`SyncImplementsSourceAdmin`), so these theorems hold beside any number of
  syncs; `SyncKeepsUniverse` comes from the lemma `MergeKeeps` about one merge,
  of entries that may be many under one symbol or have none, and the strengthening
  that what is being written keeps the universe and is normalized too.
* `DailyRuns_proofs`. Three invariants: `TypesInv`, with one waiting call and a
  counter that counts the runs that began; `TimesInv`, which relates the
  wake-up, the clock and the times of all earlier calls; `IdsInv`, that no life
  gives an id twice and a directory holds a run with its id. The facts about
  the calendar are in `NextDailyRunIs`. `DailyFoldsPurged` shows first that a
  finite set of sessions has an increasing enumeration at all (`OrderExists`)
  and that two sessions are whole days apart.
* `Pipeline_proofs`. `CollectInv`: what is collected is what was delivered by
  the sources asked for in the window. `StoriesInv`: the first collected article
  of each key, if it is relevant, has its event or waits in the queue, and no key
  has two of either; the keys are exactly those of what was collected, since
  `FirstOfEach` loses none (`FirstOfEachKeeps`).
  `RowsInv`: the events before the last have exactly their pairs as rows and
  exactly their charge in them, and the last one owes what its pairs have cost
  so far. They rest on what the loops of the code compute: filtering
  (`OnlyKeeps`), deduplication (`DedupeKeeps`), the mapper (`MatchesAre`), the
  pairs of what it finds (`PairSpecsAre`), the
  sum of tokens (`TokensAre`) and its division (`AllocationAddsUp`,
  `AllocationIsEven`).

`DataLemmas` holds what these share. The provers cannot instantiate an
induction theorem, so an induction over numbers or finite sets is made where it
is needed, as the argument of a smallest counterexample (`Smallest`,
`SmallestSet`). A fold over a sequence is first shown to have a value
(`LoopExists`), then to go through one value per element (`LoopGoes`), and what
each element adds is carried along by `CountUp` and `GrowUp`.

What the proofs changed. The properties of `DailyRuns` about the clock used to set
aside only a change of the offset that fell within the day itself; proving them
showed that one which falls up to its own size before or after disturbs that
day as well, a case the zones of the run do not have, and `ZoneChanges` now has
it. The collector's filter is a fold (`Only`), because the provers cannot unfold
`SelectSeq`. The refinement mapping to `RunLedger` moved from the checked
instance to `EngineRuns`.

Only model-checked: liveness (`EnrichReturns`, `RequestsAnswered`,
`CreatesAnswered`, `SchedulerSleepsAgain`), which is out of the prover's reach,
and the properties the code violates, which have no proof.

## 5. Not modelled, and plan

Left out: the text of articles and pages, floating-point scores, formatting and
HTTP plumbing; the exporters, the page and the reading handlers, which keep no
state; the download and the parsing of a bhavcopy, which end the command before
it has written anything; the configuration rules about factors, providers and
pipelines, whose files no program writes; which entities a running API was
loaded with, so the piece of `entities.custom.yaml` that a source creation may
load and serve is a hazard without a property. Next, in this order:

1. `ControlPlane`: sources, runs and router budgets composed, since replacing
   the Service also resets the budgets; the universe a Service was built with.
2. Theorems that join components: that an id which the engine gives to one
   request only carries through `DailyRuns` as `RunLedger` has it; that the
   totals of a run are the router's charges.
3. Pair weights against a reference definition.
