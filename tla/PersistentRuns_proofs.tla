------------------------- MODULE PersistentRuns_proofs -------------------------
(* Theorems about runs over the persistent store, for any number of requests
   and Services. *)
EXTENDS PersistentRuns, FiniteSetTheorems, TLAPS

\* Where a request can be.
Lifecycle ==
    \A r \in Requests :
        /\ pc[r] = "new" => step[r] = 1 /\ runID[r] = 0
        /\ pc[r] \notin {"new", "done"} => runID[r] # 0
        /\ pc[r] # "done" => response[r] = "none"
        /\ pc[r] = "write" => step[r] <= 4
        /\ pc[r] \in {"export", "put"} => step[r] >= 5
        /\ pc[r] = "answer" \/ response[r] = "ok" => step[r] = Len(Script)

\* What is stored under an id was stored by a request that has it.
StoredByItsRequest ==
    \A p \in Places, id \in RunIds :
        store[p][id] # {} => \E r \in Requests : runID[r] = id

\* The run comes first, and is never taken out.
RunStoredFirst ==
    \A r \in Requests : runID[r] # 0 /\ step[r] > 1 => store["runs"][runID[r]] # {}

\* What a place may hold of a run once the call that writes it has succeeded.
Good(r, p) ==
    CASE p = "runs" -> {Whole(r)}
      [] p = "run_events" -> {EventsOf(r)}
      [] p \in {"run_features", "clickhouse"} -> {RowsOf(r)}
      [] p = "features.csv" -> SUBSET RowsOf(r)
      [] OTHER -> (SUBSET EventsOf(r)) \ {{}}

Holds(r, k) == store[Script[k]][runID[r]] \in Good(r, Script[k])

\* A request that has its id to itself: the places before its own hold what they
\* should, and ClickHouse nothing before its turn and nothing but its rows.
OwnPlaces(r) ==
    /\ \A k \in DOMAIN Script : k < step[r] => Holds(r, k)
    /\ pc[r] = "answer" \/ response[r] = "ok" => Holds(r, step[r])
    /\ pc[r] = "put" => payload[r] \in Good(r, Place(r))
    /\ step[r] < 4 => store["clickhouse"][runID[r]] = {}
    /\ store["clickhouse"][runID[r]] \subseteq RowsOf(r)

PersistentInv ==
    /\ TypeOK /\ Lifecycle
    /\ StoredByItsRequest /\ RunStoredFirst /\ NothingWithoutItsRun
    /\ \A r \in Requests : SoleOwner(r) => OwnPlaces(r)

\* The script visits every place once.
LEMMA ScriptPlaces ==
    /\ Len(Script) = 7 /\ DOMAIN Script = 1..7
    /\ \A k \in 1..7 : Script[k] \in Places
    /\ \A j, k \in 1..7 : Script[j] = Script[k] => j = k
    /\ \A k \in 1..7 : Script[k] \in Exports <=> k >= 5
    /\ "runs" \in Places /\ "run_events" \in Places
    /\ "run_features" \in Places /\ "clickhouse" \in Places
    /\ Script[1] = "runs" /\ Script[2] = "run_events" /\ Script[3] = "run_features"
    /\ Script[4] = "clickhouse" /\ Script[5] = "events.jsonl"
    /\ Script[6] = "features.csv" /\ Script[7] = "events.toon.jsonl"
<1>1. Len(Script) = 7 /\ DOMAIN Script = 1..7
    BY DEF Script
<1>2. \A k \in 1..7 : Script[k] \in Places
    BY <1>1 DEF Places
<1>3. /\ Script[1] = "runs" /\ Script[2] = "run_events" /\ Script[3] = "run_features"
      /\ Script[4] = "clickhouse" /\ Script[5] = "events.jsonl"
      /\ Script[6] = "features.csv" /\ Script[7] = "events.toon.jsonl"
    BY DEF Script
<1>4. \A j, k \in 1..7 : Script[j] = Script[k] => j = k
    BY <1>3
<1>5. \A k \in 1..7 : Script[k] \in Exports <=> k >= 5
    BY <1>3 DEF Exports
<1>6. QED  BY <1>1, <1>2, <1>3, <1>4, <1>5

\* Run ids are positive.
LEMMA RunIdsType == RunIds \subseteq Nat \ {0}
<1>1. Cardinality(Requests) \in Nat
    BY PersistentAssumption, FS_CardinalityType
<1>2. QED  BY <1>1 DEF RunIds

\* It holds at the start.
LEMMA PersistentInit == Init => PersistentInv
<1> SUFFICES ASSUME Init  PROVE PersistentInv
    OBVIOUS
<1>1. 1 \in DOMAIN Script /\ 1 \in 1..MaxService
    BY ScriptPlaces, PersistentAssumption
<1>2. TypeOK
    BY <1>1 DEF Init, TypeOK
<1>3. Lifecycle /\ RunStoredFirst
    BY DEF Init, Lifecycle, RunStoredFirst
<1>4. StoredByItsRequest /\ NothingWithoutItsRun
    BY ScriptPlaces DEF Init, StoredByItsRequest, NothingWithoutItsRun
<1>5. \A r \in Requests : ~ SoleOwner(r)
    BY DEF Init, SoleOwner
<1>6. QED  BY <1>2, <1>3, <1>4, <1>5 DEF PersistentInv

-----------------------------------------------------------------------------
\* A step of a request that has its id: all of them but Start and StartFails.
Work(r) ==
    \/ Write(r) \/ WriteFails(r) \/ Export(r) \/ ExportFails(r)
    \/ Put(r) \/ PutFails(r) \/ Answer(r)

\* A request at work has an id and a place.
LEMMA AtWork ==
    ASSUME TypeOK, Lifecycle, NEW r \in Requests, Work(r)
    PROVE  /\ runID[r] \in RunIds /\ runID[r] # 0
           /\ step[r] \in 1..7 /\ Place(r) \in Places
           /\ pc[r] \notin {"new", "done"} /\ response[r] = "none"
<1>1. pc[r] \notin {"new", "done"}
    BY DEF Work, Write, WriteFails, Export, ExportFails, Put, PutFails, Answer
<1>2. runID[r] \in RunIds /\ runID[r] # 0 /\ response[r] = "none"
    BY <1>1 DEF TypeOK, Lifecycle
<1>3. step[r] \in 1..7
    BY ScriptPlaces DEF TypeOK
<1>4. QED  BY <1>1, <1>2, <1>3, ScriptPlaces DEF Place

\* A call that takes effect changes one place of one run id.
LEMMA ApplyAt ==
    ASSUME TypeOK, NEW r \in Requests, Place(r) \in Places, runID[r] \in RunIds, Apply(r)
    PROVE  /\ store'[Place(r)][runID[r]] = After(r)
           /\ \A p \in Places, id \in RunIds :
                p # Place(r) \/ id # runID[r] => store'[p][id] = store[p][id]
<1> DEFINE new == After(r)
<1>1. store' = [store EXCEPT ![Place(r)][runID[r]] = new]
    BY DEF Apply
<1>2. store \in [Places -> [RunIds -> SUBSET Data]]
    BY DEF TypeOK
<1> HIDE DEF new
<1>3. /\ store'[Place(r)][runID[r]] = new
      /\ \A p \in Places, id \in RunIds :
           p # Place(r) \/ id # runID[r] => store'[p][id] = store[p][id]
    BY <1>1, <1>2
<1>4. QED  BY <1>3 DEF new

\* What a write leaves behind is data.
LEMMA AfterType ==
    ASSUME TypeOK, NEW r \in Requests, runID[r] \in RunIds
    PROVE  After(r) \in SUBSET Data
<1>1. Whole(r) \in SUBSET Data
    BY DEF Whole, Data
<1>2. EventsOf(r) \in SUBSET Data /\ RowsOf(r) \in SUBSET Data
    BY <1>1 DEF EventsOf, RowsOf
<1>3. payload[r] \in SUBSET Data
    BY DEF TypeOK
<1>4. store["clickhouse"][runID[r]] \in SUBSET Data
    BY ScriptPlaces DEF TypeOK
<1>5. QED  BY <1>1, <1>2, <1>3, <1>4 DEF After

\* A write keeps the store well typed.
LEMMA ApplyType ==
    ASSUME TypeOK, NEW r \in Requests, Place(r) \in Places, runID[r] \in RunIds,
           Apply(r) \/ UNCHANGED store
    PROVE  store' \in [Places -> [RunIds -> SUBSET Data]]
<1> DEFINE new == After(r)
<1>1. new \in SUBSET Data
    BY AfterType
<1>2. store' = [store EXCEPT ![Place(r)][runID[r]] = new] \/ store' = store
    BY DEF Apply
<1>3. store \in [Places -> [RunIds -> SUBSET Data]]
    BY DEF TypeOK
<1> HIDE DEF new
<1>4. store[Place(r)] \in [RunIds -> SUBSET Data]
    BY <1>3
<1>5. [store[Place(r)] EXCEPT ![runID[r]] = new] \in [RunIds -> SUBSET Data]
    BY <1>1, <1>4
<1>6. QED  BY <1>2, <1>3, <1>5

\* After a place comes the next one, or the answer.
LEMMA AdvanceTo ==
    ASSUME TypeOK, NEW r \in Requests, Advance(r)
    PROVE  /\ pc' \in [Requests -> {"new", "write", "export", "put", "answer", "done"}]
           /\ step' \in [Requests -> DOMAIN Script]
           /\ \A q \in Requests \ {r} : pc'[q] = pc[q] /\ step'[q] = step[q]
           /\ \/ step[r] = 7 /\ step'[r] = 7 /\ pc'[r] = "answer"
              \/ /\ step[r] < 7 /\ step'[r] = step[r] + 1
                 /\ pc'[r] = IF step[r] < 4 THEN "write" ELSE "export"
<1>1. /\ step \in [Requests -> 1..7] /\ step[r] \in 1..7
      /\ pc \in [Requests -> {"new", "write", "export", "put", "answer", "done"}]
    BY ScriptPlaces DEF TypeOK
<1>2. CASE step[r] = 7
    BY <1>1, <1>2, ScriptPlaces DEF Advance
<1>3. CASE step[r] # 7
    <2>1. step[r] < 7 /\ step[r] + 1 \in 1..7
        BY <1>1, <1>3
    <2>2. Script[step[r] + 1] \in Exports <=> step[r] >= 4
        BY <1>1, <2>1, ScriptPlaces
    <2>3. /\ step' = [step EXCEPT ![r] = step[r] + 1]
          /\ pc' = [pc EXCEPT ![r] = IF step[r] >= 4 THEN "export" ELSE "write"]
        BY <1>3, <2>2, ScriptPlaces DEF Advance
    <2>4. QED  BY <1>1, <2>1, <2>3, ScriptPlaces
<1>4. QED  BY <1>2, <1>3

\* What is exported is what Postgres or ClickHouse has, or a part of it.
LEMMA ExportableType ==
    ASSUME TypeOK, NEW r \in Requests, runID[r] \in RunIds, NEW read \in Exportable(r)
    PROVE  read \in SUBSET Data
<1>1. \A p \in {"clickhouse", "run_features", "run_events"} : store[p][runID[r]] \in SUBSET Data
    BY ScriptPlaces DEF TypeOK
<1>2. \A p \in {"clickhouse", "run_features", "run_events"} :
          Reads(p, runID[r]) \subseteq SUBSET Data
    BY <1>1 DEF Reads
<1>3. FeatureReads(runID[r]) \subseteq SUBSET Data
    BY <1>2 DEF FeatureReads
<1>4. QED  BY <1>2, <1>3 DEF Exportable

\* What such a step does to the request, and that it leaves the others alone.
LEMMA WorkOnRequest ==
    ASSUME TypeOK, Lifecycle, NEW r \in Requests, Work(r)
    PROVE  /\ TypeOK'
           /\ UNCHANGED <<service, seq, runID, produced>>
           /\ \A q \in Requests \ {r} :
                /\ pc'[q] = pc[q] /\ step'[q] = step[q]
                /\ payload'[q] = payload[q] /\ response'[q] = response[q]
           /\ \/ /\ store' = store \/ (pc[r] \in {"write", "put"} /\ Apply(r))
                 /\ pc'[r] = "done" /\ response'[r] = "error" /\ step'[r] = step[r]
              \/ /\ pc[r] \in {"write", "put"} /\ Apply(r)
                 /\ response'[r] = "none"
                 /\ \/ step[r] = 7 /\ step'[r] = 7 /\ pc'[r] = "answer"
                    \/ /\ step[r] < 7 /\ step'[r] = step[r] + 1
                       /\ pc'[r] = IF step[r] < 4 THEN "write" ELSE "export"
              \/ /\ pc[r] = "export" /\ pc'[r] = "put" /\ response'[r] = "none"
                 /\ store' = store /\ step'[r] = step[r]
                 /\ payload'[r] \in Exportable(r)
              \/ /\ pc[r] = "answer" /\ pc'[r] = "done" /\ response'[r] = "ok"
                 /\ store' = store /\ step'[r] = step[r]
<1>1. /\ runID[r] \in RunIds /\ Place(r) \in Places /\ response[r] = "none"
    BY AtWork
<1>2. /\ pc \in [Requests -> {"new", "write", "export", "put", "answer", "done"}]
      /\ response \in [Requests -> {"none", "ok", "error", "lost"}]
      /\ payload \in [Requests -> SUBSET Data]
    BY DEF TypeOK
<1>3. CASE Fail(r) /\ (store' = store \/ (pc[r] \in {"write", "put"} /\ Apply(r)))
    <2>1. store' \in [Places -> [RunIds -> SUBSET Data]]
        BY <1>1, <1>3, ApplyType
    <2>2. TypeOK'
        BY <1>3, <2>1 DEF TypeOK, Fail, Respond
    <2>3. QED  BY <1>2, <1>3, <2>2 DEF Fail, Respond
<1>4. CASE Write(r) \/ Put(r)
    <2>1. /\ pc[r] \in {"write", "put"} /\ Apply(r) /\ Advance(r)
          /\ UNCHANGED <<service, seq, runID, produced, payload, response>>
        BY <1>4 DEF Write, Put
    <2>2. store' \in [Places -> [RunIds -> SUBSET Data]]
        BY <1>1, <2>1, ApplyType
    <2>3. TypeOK'
        BY <2>1, <2>2, AdvanceTo DEF TypeOK
    <2>4. QED  BY <1>1, <2>1, <2>3, AdvanceTo
<1>5. CASE Export(r)
    <2>1. PICK read \in Exportable(r) : payload' = [payload EXCEPT ![r] = read]
        BY <1>5 DEF Export
    <2>2. read \in SUBSET Data
        BY <1>1, ExportableType
    <2>3. TypeOK'
        BY <1>5, <2>1, <2>2 DEF Export, TypeOK
    <2>4. QED  BY <1>1, <1>2, <1>5, <2>1, <2>3 DEF Export
<1>6. CASE Answer(r)
    <2>1. TypeOK'
        BY <1>6 DEF Answer, Respond, TypeOK
    <2>2. QED  BY <1>2, <1>6, <2>1 DEF Answer, Respond
<1>7. QED
    BY <1>3, <1>4, <1>5, <1>6 DEF Work, WriteFails, ExportFails, PutFails

\* A request has all of its events and rows, or none.
LEMMA EventsAndRows ==
    ASSUME NEW r \in Requests
    PROVE  /\ EventsOf(r) \in {{}, Whole(r)} /\ RowsOf(r) \in {{}, Whole(r)}
           /\ Whole(r) # {}
<1>1. <<r, 1>> \in Whole(r)
    BY DEF Whole
<1>2. QED  BY <1>1 DEF EventsOf, RowsOf

\* What a call writes is what its place may hold.
LEMMA AfterIsGood ==
    ASSUME PersistentInv, NEW r \in Requests, SoleOwner(r), pc[r] \in {"write", "put"}
    PROVE  After(r) \in Good(r, Place(r))
<1>1. OwnPlaces(r) /\ TypeOK /\ Lifecycle /\ step[r] \in 1..7
    BY ScriptPlaces DEF PersistentInv, TypeOK
<1>2. CASE pc[r] = "put"
    <2>1. Place(r) \in {"events.jsonl", "features.csv", "events.toon.jsonl"}
        BY <1>1, <1>2, ScriptPlaces DEF Lifecycle, Place
    <2>2. After(r) = payload[r]
        BY <2>1 DEF After
    <2>3. QED  BY <1>1, <1>2, <2>2 DEF OwnPlaces
<1>3. CASE pc[r] = "write"
    <2>1. Place(r) \in {"runs", "run_events", "run_features", "clickhouse"}
        BY <1>1, <1>3, ScriptPlaces DEF Lifecycle, Place
    <2>2. store["clickhouse"][runID[r]] \cup RowsOf(r) = RowsOf(r)
        BY <1>1 DEF OwnPlaces
    <2>3. CASE Place(r) = "runs"
        BY <2>3 DEF After, Good
    <2>4. CASE Place(r) = "run_events"
        BY <2>4 DEF After, Good
    <2>5. CASE Place(r) = "run_features"
        BY <2>5 DEF After, Good
    <2>6. CASE Place(r) = "clickhouse"
        BY <2>2, <2>6 DEF After, Good
    <2>7. QED  BY <2>1, <2>3, <2>4, <2>5, <2>6
<1>4. QED  BY <1>2, <1>3

\* What is read for an export, in whole or in part and from either back end, is
\* what the export may hold.
LEMMA ExportableIsGood ==
    ASSUME PersistentInv, NEW r \in Requests, SoleOwner(r), pc[r] = "export",
           NEW read \in Exportable(r)
    PROVE  read \in Good(r, Place(r))
<1>1. OwnPlaces(r) /\ TypeOK /\ Lifecycle /\ step[r] \in 5..7
    BY ScriptPlaces DEF PersistentInv, TypeOK, Lifecycle
<1>2. Holds(r, 2) /\ Holds(r, 3)
    BY <1>1, ScriptPlaces DEF OwnPlaces
<1>3. /\ store["run_events"][runID[r]] = EventsOf(r)
      /\ store["run_features"][runID[r]] = RowsOf(r)
      /\ store["clickhouse"][runID[r]] \subseteq RowsOf(r)
    BY <1>1, <1>2, ScriptPlaces DEF OwnPlaces, Holds, Good
<1>4. CASE Place(r) = "features.csv"
    <2>1. read \in FeatureReads(runID[r])
        BY <1>4 DEF Exportable
    <2>2. read \subseteq RowsOf(r)
        BY <1>3, <2>1 DEF FeatureReads, Reads
    <2>3. QED  BY <1>4, <2>2 DEF Good
<1>5. CASE Place(r) \in {"events.jsonl", "events.toon.jsonl"}
    <2>1. read \in (SUBSET EventsOf(r)) \ {{}}
        BY <1>3, <1>5 DEF Exportable, Reads
    <2>2. QED  BY <1>5, <2>1 DEF Good
<1>6. Place(r) \in {"events.jsonl", "features.csv", "events.toon.jsonl"}
    BY <1>1, ScriptPlaces DEF Place
<1>7. QED  BY <1>4, <1>5, <1>6

\* ClickHouse is written before its turn by nobody, and with rows only.
LEMMA WorkOnClickHouse ==
    ASSUME PersistentInv, NEW r \in Requests, SoleOwner(r), Work(r)
    PROVE  /\ store'["clickhouse"][runID[r]] \subseteq RowsOf(r)
           /\ step[r] < 4 => store'["clickhouse"][runID[r]] = {}
<1>1. OwnPlaces(r) /\ TypeOK /\ Lifecycle /\ step[r] \in 1..7
    BY ScriptPlaces DEF PersistentInv, TypeOK
<1>2. runID[r] \in RunIds /\ Place(r) \in Places
    BY <1>1, AtWork
<1>3. CASE Apply(r) /\ pc[r] \in {"write", "put"}
    <2>1. CASE step[r] = 4
        <3>1. Place(r) = "clickhouse"
            BY <2>1, ScriptPlaces DEF Place
        <3>2. store'["clickhouse"][runID[r]] \in Good(r, "clickhouse")
            BY <1>1, <1>2, <1>3, <3>1, AfterIsGood, ApplyAt
        <3>3. store'["clickhouse"][runID[r]] = RowsOf(r)
            BY <3>2 DEF Good
        <3>4. QED  BY <2>1, <3>3
    <2>2. CASE step[r] # 4
        <3>1. Place(r) # "clickhouse"
            BY <1>1, <2>2, ScriptPlaces DEF Place
        <3>2. store'["clickhouse"][runID[r]] = store["clickhouse"][runID[r]]
            BY <1>1, <1>2, <1>3, <3>1, ApplyAt, ScriptPlaces
        <3>3. QED  BY <1>1, <3>2 DEF OwnPlaces
    <2>3. QED  BY <2>1, <2>2
<1>4. CASE store' = store
    BY <1>1, <1>4 DEF OwnPlaces
<1>5. QED  BY <1>1, <1>3, <1>4, WorkOnRequest

\* A step of a request with an id of its own keeps what its places hold.
LEMMA OwnPlacesStep ==
    ASSUME PersistentInv, NEW r \in Requests, SoleOwner(r), Work(r)
    PROVE  OwnPlaces(r)'
<1>1. OwnPlaces(r) /\ TypeOK /\ Lifecycle /\ step[r] \in 1..7
    BY ScriptPlaces DEF PersistentInv, TypeOK
<1>2. /\ runID[r] \in RunIds /\ Place(r) \in Places
      /\ pc[r] \notin {"new", "done"} /\ response[r] = "none"
    BY <1>1, AtWork
<1> PICK here \in 1..7 : here = step[r]
    BY <1>1
<1>3. runID' = runID /\ produced' = produced
    BY <1>1, WorkOnRequest
<1>4. /\ RowsOf(r)' = RowsOf(r)
      /\ \A p \in Places : Good(r, p)' = Good(r, p)
    BY <1>3 DEF RowsOf, EventsOf, Good
<1>5. ASSUME NEW k \in 1..7, k # step[r]
      PROVE  store'[Script[k]][runID[r]] = store[Script[k]][runID[r]]
    <2>1. Script[k] \in Places /\ Script[k] # Place(r)
        BY <1>1, <1>5, ScriptPlaces DEF Place
    <2>2. QED  BY <1>1, <1>2, <2>1, ApplyAt, WorkOnRequest
<1>6. ASSUME NEW k \in 1..7
      PROVE  Holds(r, k)' <=> store'[Script[k]][runID[r]] \in Good(r, Script[k])
    BY <1>3, <1>4, ScriptPlaces DEF Holds
<1>7. \A k \in 1..7 : k < step[r] => Holds(r, k)'
    <2> SUFFICES ASSUME NEW k \in 1..7, k < step[r]  PROVE Holds(r, k)'
        OBVIOUS
    <2>1. Holds(r, k) /\ k # step[r]
        BY <1>1, ScriptPlaces DEF OwnPlaces
    <2>2. QED  BY <1>5, <1>6, <2>1 DEF Holds
<1>8. Apply(r) /\ pc[r] \in {"write", "put"} => Holds(r, here)'
    <2> SUFFICES ASSUME Apply(r), pc[r] \in {"write", "put"}
                 PROVE  store'[Place(r)][runID[r]] \in Good(r, Place(r))
        BY <1>1, <1>6 DEF Place
    <2>1. QED  BY <1>1, <1>2, AfterIsGood, ApplyAt
<1>9. /\ store'["clickhouse"][runID[r]] \subseteq RowsOf(r)
      /\ step[r] < 4 => store'["clickhouse"][runID[r]] = {}
    BY WorkOnClickHouse
<1>10. ASSUME step'[r] = step[r], pc'[r] # "put",
              pc'[r] = "answer" \/ response'[r] = "ok" => Holds(r, here)'
       PROVE  OwnPlaces(r)'
    BY <1>3, <1>4, <1>7, <1>9, <1>10, ScriptPlaces DEF OwnPlaces
<1>11. ASSUME step'[r] = step[r] + 1, pc'[r] \notin {"put", "answer"}, response'[r] = "none",
              Holds(r, here)'
       PROVE  OwnPlaces(r)'
    <2>1. \A k \in 1..7 : k < step'[r] => Holds(r, k)'
        BY <1>1, <1>7, <1>11
    <2>2. step'[r] < 4 => step[r] < 4
        BY <1>1, <1>11
    <2>3. QED  BY <1>3, <1>4, <1>9, <1>11, <2>1, <2>2, ScriptPlaces DEF OwnPlaces
<1>12. ASSUME pc[r] = "export", pc'[r] = "put", response'[r] = "none", store' = store,
              step'[r] = step[r], payload'[r] \in Exportable(r)
       PROVE  OwnPlaces(r)'
    <2>1. payload'[r] \in Good(r, Place(r))
        BY <1>12, ExportableIsGood
    <2>2. Place(r)' = Place(r)
        BY <1>12 DEF Place
    <2>3. (payload[r] \in Good(r, Place(r)))'
        BY <1>2, <1>4, <2>1, <2>2
    <2>4. QED  BY <1>3, <1>4, <1>7, <1>9, <1>12, <2>3, ScriptPlaces DEF OwnPlaces
<1>13. pc[r] = "answer" /\ store' = store => Holds(r, here)'
    <2> SUFFICES ASSUME pc[r] = "answer", store' = store  PROVE Holds(r, here)'
        OBVIOUS
    <2>1. Holds(r, here)
        BY <1>1 DEF OwnPlaces
    <2>2. QED  BY <1>1, <1>6, <2>1 DEF Holds
<1>14. QED
    BY <1>1, <1>8, <1>10, <1>11, <1>12, <1>13, WorkOnRequest

\* Nor does it touch what other requests with an id of their own have stored.
LEMMA OthersPlacesStep ==
    ASSUME PersistentInv, NEW r \in Requests, Work(r), NEW q \in Requests \ {r}, SoleOwner(q)
    PROVE  OwnPlaces(q)'
<1>1. OwnPlaces(q) /\ TypeOK /\ Lifecycle
    BY DEF PersistentInv
<1>2. /\ runID[r] \in RunIds /\ Place(r) \in Places
      /\ runID[q] \in RunIds /\ runID[q] # runID[r]
    BY <1>1, AtWork DEF SoleOwner, TypeOK
<1>3. /\ runID' = runID /\ produced' = produced
      /\ pc'[q] = pc[q] /\ step'[q] = step[q]
      /\ payload'[q] = payload[q] /\ response'[q] = response[q]
    BY <1>1, WorkOnRequest
<1>4. \A p \in Places : store'[p][runID[q]] = store[p][runID[q]]
    BY <1>1, <1>2, ApplyAt, WorkOnRequest
<1> PICK here \in 1..7 : here = step[q]
    BY <1>1, ScriptPlaces DEF TypeOK
<1>5. \A k \in 1..7 : Holds(q, k)' <=> Holds(q, k)
    BY <1>3, <1>4, ScriptPlaces DEF Holds, Good, RowsOf, EventsOf
<1>6. (payload[q] \in Good(q, Place(q)))' <=> payload[q] \in Good(q, Place(q))
    BY <1>3 DEF Good, RowsOf, EventsOf, Place
<1>7. RowsOf(q)' = RowsOf(q)
    BY <1>3 DEF RowsOf
<1>8. store'["clickhouse"][runID[q]] = store["clickhouse"][runID[q]]
    BY <1>4, ScriptPlaces
<1>9. QED
    BY <1>1, <1>3, <1>5, <1>6, <1>7, <1>8, ScriptPlaces DEF OwnPlaces

\* A step of a run keeps the invariant, its own places and everybody else's.
LEMMA WorkStep ==
    ASSUME PersistentInv, NEW r \in Requests, Work(r)
    PROVE  PersistentInv'
<1>1. TypeOK /\ Lifecycle /\ StoredByItsRequest /\ RunStoredFirst /\ NothingWithoutItsRun
    BY DEF PersistentInv
<1>2. /\ runID[r] \in RunIds /\ runID[r] # 0 /\ step[r] \in 1..7 /\ Place(r) \in Places
      /\ pc[r] \notin {"new", "done"} /\ response[r] = "none"
    BY <1>1, AtWork
<1>3. TypeOK' /\ runID' = runID
    BY <1>1, WorkOnRequest
<1>4. Lifecycle'
    BY <1>1, <1>2, <1>3, ScriptPlaces, WorkOnRequest DEF Lifecycle
<1>5. ASSUME NEW p \in Places, NEW id \in RunIds, store'[p][id] # store[p][id]
      PROVE  id = runID[r] /\ p = Place(r) /\ Apply(r)
    BY <1>1, <1>2, <1>5, ApplyAt, WorkOnRequest
<1>6. StoredByItsRequest'
    BY <1>1, <1>3, <1>5 DEF StoredByItsRequest
<1>7. \A id \in RunIds : store["runs"][id] # {} => store'["runs"][id] # {}
    <2> SUFFICES ASSUME NEW id \in RunIds, store["runs"][id] # {}
                 PROVE  store'["runs"][id] # {}
        OBVIOUS
    <2>1. CASE store'["runs"][id] = store["runs"][id]
        BY <2>1
    <2>2. CASE store'["runs"][id] # store["runs"][id]
        <3>1. id = runID[r] /\ Place(r) = "runs" /\ Apply(r)
            BY <1>5, <2>2, ScriptPlaces
        <3>2. store'["runs"][id] = After(r)
            BY <1>1, <1>2, <3>1, ApplyAt
        <3>3. QED  BY <3>1, <3>2, EventsAndRows DEF After
    <2>3. QED  BY <2>1, <2>2
<1>8. Apply(r) => store'["runs"][runID[r]] # {}
    <2> SUFFICES ASSUME Apply(r)  PROVE store'["runs"][runID[r]] # {}
        OBVIOUS
    <2>1. CASE step[r] = 1
        <3>1. Place(r) = "runs"
            BY <2>1, ScriptPlaces DEF Place
        <3>2. store'["runs"][runID[r]] = After(r)
            BY <1>1, <1>2, <3>1, ApplyAt
        <3>3. QED  BY <3>1, <3>2, EventsAndRows DEF After
    <2>2. CASE step[r] # 1
        BY <1>1, <1>2, <1>7, <2>2 DEF RunStoredFirst
    <2>3. QED  BY <2>1, <2>2
<1>9. RunStoredFirst'
    <2> SUFFICES ASSUME NEW q \in Requests, runID[q] # 0, step'[q] > 1
                 PROVE  store'["runs"][runID[q]] # {}
        BY <1>3 DEF RunStoredFirst
    <2>1. runID[q] \in RunIds
        BY <1>1 DEF TypeOK
    <2>2. CASE step'[q] = step[q]
        BY <1>1, <1>7, <2>1, <2>2 DEF RunStoredFirst
    <2>3. CASE step'[q] # step[q]
        BY <1>1, <1>2, <1>8, <2>3, WorkOnRequest
    <2>4. QED  BY <2>2, <2>3
<1>10. NothingWithoutItsRun'
    <2> SUFFICES ASSUME NEW p \in Places, NEW id \in RunIds, store'[p][id] # {}
                 PROVE  store'["runs"][id] # {}
        BY DEF NothingWithoutItsRun
    <2>1. CASE store'[p][id] = store[p][id]
        BY <1>1, <1>7, <2>1 DEF NothingWithoutItsRun
    <2>2. CASE store'[p][id] # store[p][id]
        BY <1>5, <1>8, <2>2
    <2>3. QED  BY <2>1, <2>2
<1>11. \A q \in Requests : SoleOwner(q)' => OwnPlaces(q)'
    BY <1>3, OwnPlacesStep, OthersPlacesStep DEF SoleOwner
<1>12. QED
    BY <1>3, <1>4, <1>6, <1>9, <1>10, <1>11 DEF PersistentInv

\* A step that stores nothing, gives out no id and at most ends requests without
\* an ok.
LEMMA QuietStep ==
    ASSUME PersistentInv, TypeOK',
           UNCHANGED <<store, step, runID, produced, payload>>,
           \A r \in Requests :
               \/ pc'[r] = pc[r] /\ response'[r] = response[r]
               \/ pc'[r] = "done" /\ response'[r] \in {"error", "lost"}
    PROVE  PersistentInv'
<1>1. Lifecycle'
    BY DEF PersistentInv, Lifecycle
<1>2. StoredByItsRequest' /\ RunStoredFirst' /\ NothingWithoutItsRun'
    BY DEF PersistentInv, StoredByItsRequest, RunStoredFirst, NothingWithoutItsRun
<1>3. ASSUME NEW r \in Requests, SoleOwner(r)'
      PROVE  OwnPlaces(r)'
    <2>1. OwnPlaces(r)
        BY <1>3 DEF PersistentInv, SoleOwner
    <2>2. \A k \in DOMAIN Script : Holds(r, k)' <=> Holds(r, k)
        BY DEF Holds, Good, RowsOf, EventsOf
    <2>3. Holds(r, step[r])' <=> Holds(r, step[r])
        BY DEF Holds, Good, RowsOf, EventsOf
    <2>4. (payload[r] \in Good(r, Place(r)))' <=> payload[r] \in Good(r, Place(r))
        BY DEF Good, RowsOf, EventsOf, Place
    <2>5. RowsOf(r)' = RowsOf(r)
        BY DEF RowsOf
    <2>6. QED  BY <2>1, <2>2, <2>3, <2>4, <2>5 DEF OwnPlaces
<1>4. QED  BY <1>1, <1>2, <1>3 DEF PersistentInv

\* A fresh id finds its places empty; an id given out again is nobody's own.
LEMMA StartStep ==
    ASSUME PersistentInv, NEW r \in Requests, Start(r)
    PROVE  PersistentInv'
<1>1. TypeOK /\ Lifecycle /\ StoredByItsRequest /\ RunStoredFirst /\ NothingWithoutItsRun
    BY DEF PersistentInv
<1> DEFINE id == seq[service] + 1
<1>2. /\ id \in RunIds /\ id # 0 /\ pc[r] = "new" /\ step[r] = 1 /\ runID[r] = 0
      /\ response[r] = "none"
    BY <1>1, RunIdsType DEF Start, Lifecycle
<1>3. /\ seq' = [seq EXCEPT ![service] = @ + 1] /\ runID' = [runID EXCEPT ![r] = id]
      /\ pc' = [pc EXCEPT ![r] = "write"]
      /\ UNCHANGED <<store, service, step, payload, response>>
    BY DEF Start
<1>4. PICK made \in {"nothing", "events", "rows"} : produced' = [produced EXCEPT ![r] = made]
    BY DEF Start
<1>5. TypeOK'
    <2>1. service \in 1..MaxService /\ seq \in [1..MaxService -> Nat]
        BY <1>1 DEF TypeOK
    <2>2. seq' \in [1..MaxService -> Nat]
        BY <1>3, <2>1
    <2>3. QED  BY <1>1, <1>2, <1>3, <1>4, <2>2 DEF TypeOK
<1> HIDE DEF id
<1>6. /\ runID'[r] = id /\ pc'[r] = "write" /\ step'[r] = 1
      /\ \A q \in Requests \ {r} :
           runID'[q] = runID[q] /\ pc'[q] = pc[q] /\ produced'[q] = produced[q]
    BY <1>1, <1>2, <1>3, <1>4 DEF TypeOK
<1>7. Lifecycle'
    BY <1>1, <1>2, <1>3, <1>6, ScriptPlaces DEF Lifecycle
<1>8. StoredByItsRequest'
    <2> SUFFICES ASSUME NEW p \in Places, NEW i \in RunIds, store[p][i] # {}
                 PROVE  \E q \in Requests : runID'[q] = i
        BY <1>3 DEF StoredByItsRequest
    <2>1. PICK q \in Requests : runID[q] = i
        BY <1>1 DEF StoredByItsRequest
    <2>2. q # r
        BY <1>2, <2>1, RunIdsType
    <2>3. QED  BY <1>6, <2>1, <2>2
<1>9. RunStoredFirst' /\ NothingWithoutItsRun'
    BY <1>1, <1>2, <1>3, <1>6 DEF RunStoredFirst, NothingWithoutItsRun
<1>10. ASSUME NEW q \in Requests, SoleOwner(q)'
       PROVE  OwnPlaces(q)'
    <2>1. CASE q = r
        <3>1. \A p \in Requests : runID[p] # id
            BY <1>2, <1>6, <1>10, <2>1 DEF SoleOwner
        <3>2. store["clickhouse"][id] = {}
            BY <1>1, <1>2, <3>1, ScriptPlaces DEF StoredByItsRequest
        <3>3. \A k \in DOMAIN Script : ~ k < 1
            BY ScriptPlaces
        <3>4. QED  BY <1>2, <1>3, <1>6, <2>1, <3>2, <3>3 DEF OwnPlaces
    <2>2. CASE q # r
        <3>1. SoleOwner(q)
            BY <1>2, <1>6, <1>10, <2>2 DEF SoleOwner
        <3>2. OwnPlaces(q)
            BY <3>1 DEF PersistentInv
        <3>3. /\ runID'[q] = runID[q] /\ produced'[q] = produced[q] /\ pc'[q] = pc[q]
              /\ store' = store /\ step' = step /\ payload' = payload /\ response' = response
            BY <1>3, <1>6, <2>2
        <3>4. \A k \in DOMAIN Script : Holds(q, k)' <=> Holds(q, k)
            BY <3>3 DEF Holds, Good, RowsOf, EventsOf
        <3>5. Holds(q, step[q])' <=> Holds(q, step[q])
            BY <3>3 DEF Holds, Good, RowsOf, EventsOf
        <3>6. (payload[q] \in Good(q, Place(q)))' <=> payload[q] \in Good(q, Place(q))
            BY <3>3 DEF Good, RowsOf, EventsOf, Place
        <3>7. RowsOf(q)' = RowsOf(q)
            BY <3>3 DEF RowsOf
        <3>8. QED  BY <3>2, <3>3, <3>4, <3>5, <3>6, <3>7 DEF OwnPlaces
    <2>3. QED  BY <2>1, <2>2
<1>11. QED  BY <1>5, <1>7, <1>8, <1>9, <1>10 DEF PersistentInv

\* Every step does.
LEMMA PersistentStep == PersistentInv /\ [Next]_vars => PersistentInv'
<1> SUFFICES ASSUME PersistentInv, [Next]_vars  PROVE PersistentInv'
    OBVIOUS
<1> USE DEF requestVars
<1>1. TypeOK
    BY DEF PersistentInv
<1>2. service < MaxService => service + 1 \in 1..MaxService
    BY <1>1, PersistentAssumption DEF TypeOK
<1>3. ASSUME NEW r \in Requests, StartFails(r)
      PROVE  PersistentInv'
    <2>1. seq' \in [1..MaxService -> Nat]
        BY <1>1, <1>3 DEF StartFails, TypeOK
    <2>2. TypeOK'
        BY <1>1, <1>3, <2>1 DEF StartFails, Respond, TypeOK
    <2>3. QED  BY <1>1, <1>3, <2>2, QuietStep DEF StartFails, Respond, TypeOK
<1>4. CASE ReplaceService
    <2>1. TypeOK'
        BY <1>1, <1>2, <1>4 DEF ReplaceService, TypeOK
    <2>2. QED  BY <1>4, <2>1, QuietStep DEF ReplaceService
<1>5. CASE Restart
    <2>1. TypeOK'
        BY <1>1, <1>2, <1>5 DEF Restart, TypeOK
    <2>2. QED  BY <1>5, <2>1, QuietStep DEF Restart
<1>6. CASE UNCHANGED vars
    <2>1. TypeOK'
        BY <1>1, <1>6 DEF vars, TypeOK
    <2>2. QED  BY <1>6, <2>1, QuietStep DEF vars
<1>7. QED
    BY <1>3, <1>4, <1>5, <1>6, StartStep, WorkStep DEF Next, Work

-----------------------------------------------------------------------------
\* The state of the persistent store and of the requests is always well typed.
THEOREM PersistentTypeOK == Spec => []TypeOK
<1>1. PersistentInv => TypeOK
    BY DEF PersistentInv
<1>2. QED  BY <1>1, PersistentInit, PersistentStep, PTL DEF Spec

\* Nothing is stored or exported under an id without a listed run, however many
\* Services give the id out and whatever calls fail before or after they took
\* effect.
THEOREM PersistentNothingWithoutItsRun == Spec => []NothingWithoutItsRun
<1>1. PersistentInv => NothingWithoutItsRun
    BY DEF PersistentInv
<1>2. QED  BY <1>1, PersistentInit, PersistentStep, PTL DEF Spec

\* What ClickHouse has of a run with an id of its own, Postgres has too, at every
\* step of the save and after every failure.
THEOREM PersistentClickHouseFollows == Spec => []ClickHouseFollowsPostgres
<1>1. ASSUME PersistentInv, NEW r \in Requests, SoleOwner(r)
      PROVE  store["clickhouse"][runID[r]] \subseteq store["run_features"][runID[r]]
    <2>1. OwnPlaces(r) /\ step[r] \in 1..7
        BY <1>1, ScriptPlaces DEF PersistentInv, TypeOK
    <2>2. CASE step[r] < 4
        BY <2>1, <2>2 DEF OwnPlaces
    <2>3. CASE step[r] >= 4
        <3>1. Holds(r, 3)
            BY <2>1, <2>3, ScriptPlaces DEF OwnPlaces
        <3>2. store["run_features"][runID[r]] = RowsOf(r)
            BY <3>1, ScriptPlaces DEF Holds, Good
        <3>3. QED  BY <2>1, <3>2 DEF OwnPlaces
    <2>4. QED  BY <2>1, <2>2, <2>3
<1>2. PersistentInv => ClickHouseFollowsPostgres
    BY <1>1 DEF ClickHouseFollowsPostgres
<1>3. QED  BY <1>2, PersistentInit, PersistentStep, PTL DEF Spec

\* A run the client was told is completed is whole in both back ends, and its
\* exports are its own, although reads may break off unnoticed.
THEOREM PersistentCompletedReadBack == Spec => []CompletedRunsReadBack
<1>1. ASSUME PersistentInv, NEW r \in Requests, response[r] = "ok", SoleOwner(r)
      PROVE  LET at(place) == store[place][runID[r]]
             IN  /\ at("runs") = Whole(r) /\ at("run_events") = Whole(r)
                 /\ at("run_features") = RowsOf(r) /\ at("clickhouse") = RowsOf(r)
                 /\ at("features.csv") \subseteq RowsOf(r)
                 /\ \A p \in {"events.jsonl", "events.toon.jsonl"} :
                        at(p) # {} /\ at(p) \subseteq Whole(r)
    <2>1. OwnPlaces(r) /\ step[r] = 7
        BY <1>1, ScriptPlaces DEF PersistentInv, Lifecycle
    <2>2. \A k \in 1..7 : Holds(r, k)
        BY <1>1, <2>1, ScriptPlaces DEF OwnPlaces
    <2>3. \A k \in 1..7 : store[Script[k]][runID[r]] \in Good(r, Script[k])
        BY <2>2 DEF Holds
    <2>4. /\ store["runs"][runID[r]] \in Good(r, "runs")
          /\ store["run_events"][runID[r]] \in Good(r, "run_events")
          /\ store["run_features"][runID[r]] \in Good(r, "run_features")
          /\ store["clickhouse"][runID[r]] \in Good(r, "clickhouse")
          /\ store["events.jsonl"][runID[r]] \in Good(r, "events.jsonl")
          /\ store["features.csv"][runID[r]] \in Good(r, "features.csv")
          /\ store["events.toon.jsonl"][runID[r]] \in Good(r, "events.toon.jsonl")
        BY <2>3, ScriptPlaces
    <2>5. /\ store["runs"][runID[r]] = Whole(r)
          /\ store["run_events"][runID[r]] = EventsOf(r)
          /\ store["run_features"][runID[r]] = RowsOf(r)
          /\ store["clickhouse"][runID[r]] = RowsOf(r)
          /\ store["features.csv"][runID[r]] \subseteq RowsOf(r)
        BY <2>4 DEF Good
    <2>6. \A p \in {"events.jsonl", "events.toon.jsonl"} :
              store[p][runID[r]] # {} /\ store[p][runID[r]] \subseteq EventsOf(r)
        BY <2>4 DEF Good
    <2>7. EventsOf(r) = Whole(r)
        BY <2>6, EventsAndRows
    <2>8. QED  BY <2>5, <2>6, <2>7
<1>2. PersistentInv => CompletedRunsReadBack
    BY <1>1 DEF CompletedRunsReadBack
<1>3. QED  BY <1>2, PersistentInit, PersistentStep, PTL DEF Spec

=============================================================================
