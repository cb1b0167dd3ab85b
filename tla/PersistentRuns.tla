---------------------------- MODULE PersistentRuns ----------------------------
(***************************************************************************)
(* Runs over internal/storage/persistent.go, the store of                  *)
(* STORAGE_MODE=persistent: runs, events and feature rows in Postgres,     *)
(* feature rows again in ClickHouse, exports in MinIO.  A call to a back   *)
(* end may fail before it took effect or after; a read that fails or       *)
(* breaks off looks like a shorter table.  What a place holds for a run id *)
(* is a set of pairs of a request and the number of one of its two items.  *)
(***************************************************************************)
EXTENDS Integers, FiniteSets, Sequences

CONSTANTS
    Requests,       \* POST /v1/runs requests
    MaxService      \* bound: Services created in a behaviour

ASSUME PersistentAssumption == IsFiniteSet(Requests) /\ MaxService \in Nat \ {0}

VARIABLES
    store,      \* what each place holds for each run id
    service,    \* the number of the current Service
    seq,        \* RunIDGenerator.seq of each Service
    pc,         \* where each request is
    step,       \* the place of Script the request is at
    runID,      \* its run id, 0 before it has one
    produced,   \* "nothing", "events" without rows, or "rows"
    payload,    \* what its next export was made from
    response    \* what the client was told

requestVars == <<pc, step, runID, produced, payload, response>>
vars == <<store, service, seq, requestVars>>

\* Wrong on purpose: ClickHouse is written before Postgres.
ScriptClickHouseFirst == <<"runs", "run_events", "clickhouse", "run_features",
                           "events.jsonl", "features.csv", "events.toon.jsonl">>

\* Wrong on purpose: the run is saved when its events and rows are.
ScriptRunLater == <<"run_events", "run_features", "clickhouse", "runs",
                    "events.jsonl", "features.csv", "events.toon.jsonl">>

\* The order in which Run, PersistentStore.SaveFeatureRows and
\* persistRunArtifacts write.
Script == <<"runs", "run_events", "run_features", "clickhouse",
            "events.jsonl", "features.csv", "events.toon.jsonl">>

Exports == {"events.jsonl", "features.csv", "events.toon.jsonl"}
Places == {Script[i] : i \in DOMAIN Script}
RunIds == 1..Cardinality(Requests)
Place(r) == Script[step[r]]
Whole(r) == {r} \X {1, 2}
Data == Requests \X {1, 2}

Init ==
    /\ store = [p \in Places |-> [id \in RunIds |-> {}]]
    /\ service = 1
    /\ seq = [s \in 1..MaxService |-> 0]
    /\ pc = [r \in Requests |-> "new"]
    /\ step = [r \in Requests |-> 1]
    /\ runID = [r \in Requests |-> 0]
    /\ produced = [r \in Requests |-> "nothing"]
    /\ payload = [r \in Requests |-> {}]
    /\ response = [r \in Requests |-> "none"]

-----------------------------------------------------------------------------
Respond(r, answer) ==
    /\ pc' = [pc EXCEPT ![r] = "done"]
    /\ response' = [response EXCEPT ![r] = answer]

Fail(r) ==
    /\ Respond(r, "error")
    /\ UNCHANGED <<service, seq, step, runID, produced, payload>>

\* Run takes an id and has the articles enriched.
Start(r) ==
    /\ pc[r] = "new"
    /\ seq[service] + 1 \in RunIds
    /\ seq' = [seq EXCEPT ![service] = @ + 1]
    /\ runID' = [runID EXCEPT ![r] = seq[service] + 1]
    /\ \E p \in {"nothing", "events", "rows"} : produced' = [produced EXCEPT ![r] = p]
    /\ pc' = [pc EXCEPT ![r] = "write"]
    /\ UNCHANGED <<store, service, step, payload, response>>

\* Profile fails and no id is taken, or selectEntities or EnrichArticle after it.
StartFails(r) ==
    /\ pc[r] = "new"
    /\ \/ UNCHANGED seq
       \/ seq[service] + 1 \in RunIds /\ seq' = [seq EXCEPT ![service] = @ + 1]
    /\ Respond(r, "error")
    /\ UNCHANGED <<store, service, step, runID, produced, payload>>

EventsOf(r) == IF produced[r] = "nothing" THEN {} ELSE Whole(r)
RowsOf(r) == IF produced[r] = "rows" THEN Whole(r) ELSE {}

\* What the place of r holds after its write: Postgres and MinIO replace,
\* ClickHouse appends.
After(r) ==
    CASE Place(r) = "runs" -> Whole(r)
      [] Place(r) = "run_events" -> EventsOf(r)
      [] Place(r) = "run_features" -> RowsOf(r)
      [] Place(r) = "clickhouse" -> store["clickhouse"][runID[r]] \cup RowsOf(r)
      [] OTHER -> payload[r]

Apply(r) == store' = [store EXCEPT ![Place(r)][runID[r]] = After(r)]

\* Without rows SaveFeatureRows does not call ClickHouse.
Called(r) == ~ (Place(r) = "clickhouse" /\ RowsOf(r) = {})

\* Wrong on purpose: the last place is not recognised.
AdvancePastEnd(r) ==
    /\ step' = [step EXCEPT ![r] = @ + 1]
    /\ pc' = [pc EXCEPT ![r] = IF step[r] < 4 THEN "write" ELSE "export"]

\* The next place of the script, or the answer after the last one.
Advance(r) ==
    IF step[r] = Len(Script)
    THEN pc' = [pc EXCEPT ![r] = "answer"] /\ UNCHANGED step
    ELSE /\ step' = [step EXCEPT ![r] = @ + 1]
         /\ pc' = [pc EXCEPT ![r] = IF Script[step[r] + 1] \in Exports THEN "export" ELSE "write"]

Write(r) ==
    /\ pc[r] = "write"
    /\ Apply(r)
    /\ Advance(r)
    /\ UNCHANGED <<service, seq, runID, produced, payload, response>>

\* Wrong on purpose: a failing ClickHouse is left out.
WriteFailsIgnored(r) ==
    /\ pc[r] = "write" /\ Called(r)
    /\ IF Place(r) = "clickhouse"
       THEN /\ Advance(r)
            /\ UNCHANGED <<service, seq, runID, produced, payload, response>>
       ELSE Fail(r)
    /\ UNCHANGED store

\* The call fails: the transaction was rolled back, or it was committed and
\* the acknowledgement got lost.
WriteFails(r) ==
    /\ pc[r] = "write" /\ Called(r)
    /\ Apply(r) \/ UNCHANGED store
    /\ Fail(r)

-----------------------------------------------------------------------------
\* GetEvents and GetFeatureRows do not ask rows.Err: a query that fails gives
\* nothing, one that breaks off what it had by then.
Reads(place, id) == SUBSET store[place][id]

\* GetFeatureRows asks ClickHouse first, and Postgres when that gave nothing.
FeatureReads(id) == Reads("clickhouse", id) \cup Reads("run_features", id)

\* ExportJSONL and ExportTOON refuse an empty list of events, ExportCSV a run
\* that is not found but not an empty list of rows.
Exportable(r) ==
    IF Place(r) # "features.csv" THEN Reads("run_events", runID[r]) \ {{}}
    ELSE IF store["runs"][runID[r]] = {} THEN {} ELSE FeatureReads(runID[r])

Export(r) ==
    /\ pc[r] = "export"
    /\ \E read \in Exportable(r) : payload' = [payload EXCEPT ![r] = read]
    /\ pc' = [pc EXCEPT ![r] = "put"]
    /\ UNCHANGED <<store, service, seq, step, runID, produced, response>>

\* GetEvents or GetRun had nothing, or its query failed.
ExportFails(r) ==
    /\ pc[r] = "export"
    /\ Fail(r)
    /\ UNCHANGED store

Put(r) ==
    /\ pc[r] = "put"
    /\ Apply(r)
    /\ Advance(r)
    /\ UNCHANGED <<service, seq, runID, produced, payload, response>>

PutFails(r) ==
    /\ pc[r] = "put"
    /\ Apply(r) \/ UNCHANGED store
    /\ Fail(r)

Answer(r) ==
    /\ pc[r] = "answer"
    /\ Respond(r, "ok")
    /\ UNCHANGED <<store, service, seq, step, runID, produced, payload>>

\* handleSourceCreate makes a new Service over the same store.
ReplaceService ==
    /\ service < MaxService
    /\ service' = service + 1
    /\ UNCHANGED <<store, seq, requestVars>>

\* The process dies and comes up again; the back ends stay.
Restart ==
    /\ service < MaxService
    /\ service' = service + 1
    /\ LET lost == {r \in Requests : pc[r] \notin {"new", "done"}}
       IN  /\ pc' = [r \in Requests |-> IF r \in lost THEN "done" ELSE pc[r]]
           /\ response' = [r \in Requests |-> IF r \in lost THEN "lost" ELSE response[r]]
    /\ UNCHANGED <<store, seq, step, runID, produced, payload>>

Next ==
    \/ \E r \in Requests :
        \/ Start(r) \/ StartFails(r) \/ Write(r) \/ WriteFails(r)
        \/ Export(r) \/ ExportFails(r) \/ Put(r) \/ PutFails(r) \/ Answer(r)
    \/ ReplaceService
    \/ Restart

Spec == Init /\ [][Next]_vars

-----------------------------------------------------------------------------
TypeOK ==
    /\ store \in [Places -> [RunIds -> SUBSET Data]]
    /\ service \in 1..MaxService
    /\ seq \in [1..MaxService -> Nat]
    /\ pc \in [Requests -> {"new", "write", "export", "put", "answer", "done"}]
    /\ step \in [Requests -> DOMAIN Script]
    /\ runID \in [Requests -> RunIds \cup {0}]
    /\ produced \in [Requests -> {"nothing", "events", "rows"}]
    /\ payload \in [Requests -> SUBSET Data]
    /\ response \in [Requests -> {"none", "ok", "error", "lost"}]

\* No other request was given the same run id.
SoleOwner(r) ==
    runID[r] # 0 /\ \A q \in Requests \ {r} : runID[q] # runID[r]

\* A run the client was told is completed reads back the same whichever back
\* end answers: its run, events and rows are in Postgres, its rows once more in
\* ClickHouse, and what was exported is of its own, the event exports never
\* empty (Run, persistRunArtifacts, PersistentStore.SaveFeatureRows).
CompletedRunsReadBack ==
    \A r \in Requests : response[r] = "ok" /\ SoleOwner(r) =>
        LET at(place) == store[place][runID[r]]
        IN  /\ at("runs") = Whole(r) /\ at("run_events") = Whole(r)
            /\ at("run_features") = RowsOf(r) /\ at("clickhouse") = RowsOf(r)
            /\ at("features.csv") \subseteq RowsOf(r)
            /\ \A p \in {"events.jsonl", "events.toon.jsonl"} :
                   at(p) # {} /\ at(p) \subseteq Whole(r)

\* ClickHouse answers first and Postgres instead of it: what ClickHouse has of a
\* run, Postgres has too, whatever call failed or lost its acknowledgement
\* (PersistentStore.SaveFeatureRows writes Postgres first).
ClickHouseFollowsPostgres ==
    \A r \in Requests : SoleOwner(r) =>
        store["clickhouse"][runID[r]] \subseteq store["run_features"][runID[r]]

\* The API lists the runs in Postgres: what was stored or exported under an id,
\* by whichever Service and however often the id was given out, is never
\* without a listed run.
NothingWithoutItsRun ==
    \A p \in Places, id \in RunIds : store[p][id] # {} => store["runs"][id] # {}
=============================================================================
