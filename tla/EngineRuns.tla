------------------------------ MODULE EngineRuns ------------------------------
(***************************************************************************)
(* internal/engine/service.go (Service.Run, persistRunArtifacts and the    *)
(* exports) over internal/storage/file_store.go, for concurrent POST       *)
(* /v1/runs requests of cmd/api.  handleSourceCreate replaces rt.Service   *)
(* by a new one while requests run inside the old one; the new Service has *)
(* a new RunIDGenerator, which starts at run-000001 again, and so does the *)
(* Service of a restarted process.  A "generation" is one Service.         *)
(***************************************************************************)
EXTENDS FileStore, Sequences

CONSTANT MaxGeneration      \* bound: Services created in a behaviour

ASSUME EngineAssumption ==
    /\ RunIds \subseteq Nat \ {0}
    /\ MaxGeneration \in Nat \ {0}

Generations == 1..MaxGeneration

VARIABLES
    service,    \* rt.Service, as the number of its generation
    booted,     \* the generation the running process started with
    seq,        \* RunIDGenerator.seq of each generation
    pc,         \* where each request is: see Stages
    step,       \* the file of Script the request is at
    gen,        \* the Service a request runs in, 0 before it has one
    runID,      \* the run id it was given, 0 before it has one
    hasEvents,  \* whether its run produced any event
    payload,    \* what the export it is about to Put was made from
    response    \* what the client was told

serviceVars == <<service, booted, seq>>
requestVars == <<pc, step, gen, runID, hasEvents, payload, response>>
vars == <<storeVars, serviceVars, requestVars>>

\* The order in which Run and persistRunArtifacts write a run's files.
Script == <<"run.json", "events.json", "feature_rows.json", "request.json",
            "events.jsonl", "features.csv", "events.toon.jsonl">>

Stages == {"new", "enrich", "ready", "writing", "export", "encoded", "put", "answer", "done"}
Responses == {"none", "ok", "error", "lost"}

File(r) == Script[step[r]]
InFlight(r) == pc[r] \notin {"new", "done"}

TypeOK ==
    /\ StoreTypeOK
    /\ service \in Generations
    /\ booted \in Generations
    /\ seq \in [Generations -> Nat]
    /\ pc \in [Requests -> Stages]
    /\ step \in [Requests -> 1..Len(Script)]
    /\ gen \in [Requests -> Generations \cup {0}]
    /\ runID \in [Requests -> RunIds \cup {0}]
    /\ hasEvents \in [Requests -> BOOLEAN]
    /\ payload \in [Requests -> Requests \cup {Absent}]
    /\ response \in [Requests -> Responses]

Init ==
    /\ InitStore
    /\ service = 1
    /\ booted = 1
    /\ seq = [g \in Generations |-> 0]
    /\ pc = [r \in Requests |-> "new"]
    /\ step = [r \in Requests |-> 1]
    /\ gen = [r \in Requests |-> 0]
    /\ runID = [r \in Requests |-> 0]
    /\ hasEvents = [r \in Requests |-> FALSE]
    /\ payload = [r \in Requests |-> Absent]
    /\ response = [r \in Requests |-> "none"]

-----------------------------------------------------------------------------
Respond(r, answer) ==
    /\ pc' = [pc EXCEPT ![r] = "done"]
    /\ response' = [response EXCEPT ![r] = answer]

\* Run fails: the error goes straight back to the client, nothing is undone.
Fail(r) ==
    /\ Respond(r, "error")
    /\ UNCHANGED <<serviceVars, step, gen, runID, hasEvents, payload>>

\* The profile is unknown: Run returns before it takes a run id.
RejectProfile(r) == pc[r] = "new" /\ Fail(r) /\ UNCHANGED storeVars

\* Wrong on purpose: the counter is read and not written back.
TakeStaleRunID(r) ==
    /\ pc[r] = "new"
    /\ seq[service] + 1 \in RunIds
    /\ gen' = [gen EXCEPT ![r] = service]
    /\ runID' = [runID EXCEPT ![r] = seq[service] + 1]
    /\ pc' = [pc EXCEPT ![r] = "enrich"]
    /\ UNCHANGED <<storeVars, serviceVars, step, hasEvents, payload, response>>

\* Run enters the current Service and takes the next id of its generator.
TakeRunID(r) ==
    /\ pc[r] = "new"
    /\ seq[service] + 1 \in RunIds
    /\ seq' = [seq EXCEPT ![service] = @ + 1]
    /\ gen' = [gen EXCEPT ![r] = service]
    /\ runID' = [runID EXCEPT ![r] = seq[service] + 1]
    /\ pc' = [pc EXCEPT ![r] = "enrich"]
    /\ UNCHANGED <<storeVars, service, booted, step, hasEvents, payload, response>>

\* selectEntities refuses the request, after its id is spent.
RejectEntities(r) == pc[r] = "enrich" /\ Fail(r) /\ UNCHANGED storeVars

\* The articles pass dedupe, the relevance gate and enrichment, or none does.
Enrich(r) ==
    /\ pc[r] = "enrich"
    /\ \E produced \in BOOLEAN : hasEvents' = [hasEvents EXCEPT ![r] = produced]
    /\ pc' = [pc EXCEPT ![r] = "ready"]
    /\ UNCHANGED <<storeVars, serviceVars, step, gen, runID, payload, response>>

\* Wrong on purpose: the end of the script is not recognised.
AdvancePastEnd(r) ==
    /\ step' = [step EXCEPT ![r] = @ + 1]
    /\ pc' = [pc EXCEPT ![r] = IF step[r] < 4 THEN "ready" ELSE "export"]

\* Wrong on purpose: answers once the store has the run, before the exports.
AdvanceWithoutExports(r) ==
    IF File(r) = "request.json"
    THEN pc' = [pc EXCEPT ![r] = "answer"] /\ UNCHANGED step
    ELSE /\ step' = [step EXCEPT ![r] = @ + 1]
         /\ pc' = [pc EXCEPT ![r] = "ready"]

\* The next file of the script, or the answer after the last one.
Advance(r) ==
    IF step[r] = Len(Script)
    THEN pc' = [pc EXCEPT ![r] = "answer"] /\ UNCHANGED step
    ELSE /\ step' = [step EXCEPT ![r] = @ + 1]
         /\ pc' = [pc EXCEPT ![r] =
                IF Script[step[r] + 1] \in JsonFiles THEN "ready" ELSE "export"]

BeginSave(r) ==
    /\ pc[r] = "ready"
    /\ SaveBegins(File(r), runID[r], r)
    /\ pc' = [pc EXCEPT ![r] = "writing"]
    /\ UNCHANGED <<serviceVars, step, gen, runID, hasEvents, payload, response>>

EndSave(r) ==
    /\ pc[r] = "writing"
    /\ SaveEnds(File(r), runID[r], r)
    /\ Advance(r)
    /\ UNCHANGED <<serviceVars, gen, runID, hasEvents, payload, response>>

\* Wrong on purpose: the error of a save is ignored.
SaveFailsIgnored(r) ==
    /\ \/ pc[r] = "ready" /\ SaveCannotOpen(File(r), runID[r], r)
       \/ pc[r] = "writing" /\ SaveCutShort(r)
    /\ Advance(r)
    /\ UNCHANGED <<serviceVars, gen, runID, hasEvents, payload, response>>

SaveFails(r) ==
    /\ \/ pc[r] = "ready" /\ SaveCannotOpen(File(r), runID[r], r)
       \/ pc[r] = "writing" /\ SaveCutShort(r)
    /\ Fail(r)

\* The export reads back from the store what it is about to publish.
\* ExportJSONL and ExportTOON refuse a run without events; ExportCSV asks for
\* the run itself.
ExportSource(f) == IF f = "features.csv" THEN "features" ELSE "events"

ExportRefused(r) ==
    IF File(r) = "features.csv"
    THEN Lookup("runs", runID[r]) = Absent
    ELSE LET stored == Lookup("events", runID[r])
         IN  stored = Absent \/ ~hasEvents[stored]

Export(r) ==
    /\ pc[r] = "export"
    /\ CanRead
    /\ ~ExportRefused(r)
    /\ payload' = [payload EXCEPT ![r] = Lookup(ExportSource(File(r)), runID[r])]
    /\ pc' = [pc EXCEPT ![r] = "encoded"]
    /\ UNCHANGED <<storeVars, serviceVars, step, gen, runID, hasEvents, response>>

ExportFails(r) ==
    /\ pc[r] = "export"
    /\ CanRead
    /\ ExportRefused(r)
    /\ Fail(r)
    /\ UNCHANGED storeVars

BeginPut(r) ==
    /\ pc[r] = "encoded"
    /\ PutBegins(File(r), runID[r])
    /\ pc' = [pc EXCEPT ![r] = "put"]
    /\ UNCHANGED <<serviceVars, step, gen, runID, hasEvents, payload, response>>

EndPut(r) ==
    /\ pc[r] = "put"
    /\ PutEnds(File(r), runID[r], payload[r])
    /\ Advance(r)
    /\ UNCHANGED <<serviceVars, gen, runID, hasEvents, payload, response>>

\* Wrong on purpose: the error of an export's Put is ignored.
PutErrorIgnored(r) ==
    /\ pc[r] \in {"encoded", "put"}
    /\ PutFails
    /\ Advance(r)
    /\ UNCHANGED <<serviceVars, gen, runID, hasEvents, payload, response>>

\* The open failed, before the truncation, or the write, after it.
PutError(r) ==
    /\ pc[r] \in {"encoded", "put"}
    /\ PutFails
    /\ Fail(r)

\* Run has returned its result and handleRunCreate writes it to the client.
Answer(r) ==
    /\ pc[r] = "answer"
    /\ Respond(r, "ok")
    /\ UNCHANGED <<storeVars, serviceVars, step, gen, runID, hasEvents, payload>>

\* handleSourceCreate: rt.Service = engine.NewService(reloaded, rt.Store).
ReplaceService ==
    /\ service < MaxGeneration
    /\ service' = service + 1
    /\ UNCHANGED <<storeVars, booted, seq, requestVars>>

\* The process dies and comes up again with an empty index and a new Service.
Restart ==
    /\ service < MaxGeneration
    /\ service' = service + 1
    /\ booted' = service + 1
    /\ LoseMemory
    /\ response' = [r \in Requests |-> IF InFlight(r) THEN "lost" ELSE response[r]]
    /\ pc' = [r \in Requests |-> IF InFlight(r) THEN "done" ELSE pc[r]]
    /\ UNCHANGED <<seq, step, gen, runID, hasEvents, payload>>

Work(r) ==
    \/ Enrich(r) \/ RejectEntities(r)
    \/ BeginSave(r) \/ EndSave(r) \/ SaveFails(r)
    \/ Export(r) \/ ExportFails(r) \/ BeginPut(r) \/ EndPut(r) \/ PutError(r)
    \/ Answer(r)

Next ==
    \/ \E r \in Requests : RejectProfile(r) \/ TakeRunID(r) \/ Work(r)
    \/ ReplaceService
    \/ Restart

Spec == Init /\ [][Next]_vars

\* A request that is being served keeps running.
FairSpec == Spec /\ \A r \in Requests : WF_vars(Work(r))

-----------------------------------------------------------------------------
\* No other request was given the same run id.
SoleOwner(r) ==
    /\ runID[r] # 0
    /\ \A q \in Requests \ {r} : runID[q] # runID[r]

\* Every file of r's run directory is r's.
Complete(r) == runID[r] # 0 /\ \A f \in Files : disk[f][runID[r]] = r

\* Two requests served by the same Service never share a run directory,
\* however their steps interleave with each other and with replacements.
RunIDsUniquePerService ==
    \A q, r \in Requests :
        q # r /\ gen[q] # 0 /\ gen[q] = gen[r] => runID[q] # runID[r]

\* After a crash, a failed write or a refusal at any point, what is found of a
\* run on disk is a prefix of the script: no export without the events it was
\* made from, no events without the run.
FilesFormAPrefix ==
    \A r \in Requests : SoleOwner(r) =>
        \A i, j \in 1..Len(Script) :
            i < j /\ disk[Script[j]][runID[r]] = r => disk[Script[i]][runID[r]] = r

\* The client is told 200 only when all seven files are there, and is told of
\* an error only when they are not.
AnswerMatchesDisk ==
    \A r \in Requests : SoleOwner(r) =>
        /\ response[r] = "ok" => Complete(r)
        /\ response[r] = "error" => ~Complete(r)

\* The index of the running process knows every run of this process whose file
\* is whole: a failed write may leave the index ahead of the disk, never behind.
IndexCoversDisk ==
    \A r \in Requests : SoleOwner(r) /\ gen[r] >= booted =>
        \A m \in Maps :
            disk[JsonFileOf[m]][runID[r]] = r => memory[m][runID[r]] = r

\* What the ledger sees of the runs: who is stored, and whose id is not its own.
Ledger == INSTANCE RunLedger WITH
    stored <- {r \in Requests : Complete(r)},
    shared <- {r \in Requests : runID[r] # 0 /\ ~SoleOwner(r)},
    answer <- response

\* The seven writes of a run, interleaved with those of the other requests and
\* cut short by failures, by a new Service or by a crash, look like one atomic
\* store that comes before the answer, for every run that has its id to itself.
ImplementsLedger == Ledger!Spec

\* What the README promises of a completed run (its files are kept in the
\* mounted volume): once the client has been told 200, all of the run's files
\* stay what the run made them.
CompletedRunsSurvive ==
    \A r \in Requests : response[r] = "ok" => Complete(r)

\* What the README's output layout says of a run the API lists as completed:
\* once its request is answered, its exports are there.
ListedRunsHaveExports ==
    \A r \in Requests :
        response[r] \in {"ok", "error"} /\ SoleOwner(r) /\ memory["runs"][runID[r]] = r
            => \A f \in Exports : disk[f][runID[r]] = r

\* Every request that is being served is answered, or lost with the process.
RequestsAnswered == \A r \in Requests : InFlight(r) ~> pc[r] = "done"
=============================================================================
