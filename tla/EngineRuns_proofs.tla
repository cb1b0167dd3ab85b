--------------------------- MODULE EngineRuns_proofs ---------------------------
(* Theorems about runs and their files, for any number of requests, run ids
   and Services. *)
EXTENDS EngineRuns, TLAPS

\* The script is a sequence of the store's files.
LEMMA ScriptType ==
    /\ Len(Script) = 7
    /\ \A i \in 1..Len(Script) : Script[i] \in Files
BY DEF Script, Files, JsonFiles, Exports

\* The file a request is at is one of the store's.
LEMMA FileType ==
    ASSUME TypeOK, NEW r \in Requests
    PROVE  File(r) \in Files
BY ScriptType DEF TypeOK, File

\* Writing one file of one run directory keeps the disk well typed.
LEMMA SetFileType ==
    ASSUME StoreTypeOK, NEW f \in Files, NEW i \in RunIds,
           NEW content \in Requests \cup {Absent, Torn}, SetFile(f, i, content)
    PROVE  disk' \in [Files -> [RunIds -> Requests \cup {Absent, Torn}]]
BY DEF StoreTypeOK, SetFile

\* An entry keeps the maps well typed.
LEMMA RememberType ==
    ASSUME StoreTypeOK, NEW f, NEW i, NEW r \in Requests, Remember(f, i, r)
    PROVE  memory' \in [Maps -> [RunIds -> Requests \cup {Absent}]]
<1>1. \A m \in Maps : memory[m] \in [RunIds -> Requests \cup {Absent}]
    BY DEF StoreTypeOK
<1>2. \A m \in Maps : [memory[m] EXCEPT ![i] = r] \in [RunIds -> Requests \cup {Absent}]
    BY <1>1
<1>3. QED  BY <1>1, <1>2 DEF Remember

\* Each operation of the store keeps it well typed.
LEMMA StoreStepType ==
    ASSUME StoreTypeOK, NEW f \in Files, NEW i \in RunIds, NEW r \in Requests,
           NEW content \in Requests \cup {Absent},
           \/ SaveBegins(f, i, r) \/ SaveEnds(f, i, r)
           \/ SaveCannotOpen(f, i, r) \/ SaveCutShort(r)
           \/ PutBegins(f, i) \/ PutEnds(f, i, content) \/ PutFails
           \/ LoseMemory \/ UNCHANGED storeVars
    PROVE  StoreTypeOK'
<1>1. CASE SaveBegins(f, i, r)
    BY <1>1, SetFileType, RememberType DEF SaveBegins, StoreTypeOK
<1>2. CASE SaveEnds(f, i, r)
    BY <1>2, SetFileType DEF SaveEnds, StoreTypeOK
<1>3. CASE SaveCannotOpen(f, i, r)
    BY <1>3, RememberType DEF SaveCannotOpen, StoreTypeOK
<1>4. CASE SaveCutShort(r)
    BY <1>4 DEF SaveCutShort, StoreTypeOK
<1>5. CASE PutBegins(f, i)
    BY <1>5, SetFileType DEF PutBegins, StoreTypeOK
<1>6. CASE PutEnds(f, i, content)
    BY <1>6, SetFileType DEF PutEnds, StoreTypeOK
<1>7. CASE PutFails \/ UNCHANGED storeVars
    BY <1>7 DEF PutFails, storeVars, StoreTypeOK
<1>8. CASE LoseMemory
    BY <1>8 DEF LoseMemory, EmptyMemory, StoreTypeOK
<1>9. QED  BY <1>1, <1>2, <1>3, <1>4, <1>5, <1>6, <1>7, <1>8

\* A request that writes has a run id.
HasID == \A r \in Requests :
    pc[r] \in {"enrich", "ready", "writing", "export", "encoded", "put", "answer"}
        => gen[r] # 0

\* Ids come from the generator of the Service: they are at most its counter.
IDsFromGenerator == \A r \in Requests :
    gen[r] # 0 => runID[r] # 0 /\ runID[r] <= seq[gen[r]]

RunIDInv == TypeOK /\ HasID /\ IDsFromGenerator /\ RunIDsUniquePerService

\* It holds at the start.
LEMMA RunIDInit == Init => RunIDInv
<1> SUFFICES ASSUME Init  PROVE RunIDInv
    OBVIOUS
<1>1. StoreTypeOK
    BY DEF Init, InitStore, EmptyMemory, StoreTypeOK
<1>2. 1 \in Generations /\ 1 \in 1..Len(Script)
    BY EngineAssumption, ScriptType DEF Generations
<1>3. TypeOK
    BY <1>1, <1>2 DEF Init, TypeOK, Stages, Responses
<1>4. QED
    BY <1>3 DEF Init, RunIDInv, HasID, IDsFromGenerator, RunIDsUniquePerService

\* The next stage of a request that has finished a file.
LEMMA AdvanceType ==
    ASSUME TypeOK, NEW r \in Requests, Advance(r)
    PROVE  /\ step' \in [Requests -> 1..Len(Script)]
           /\ pc' \in [Requests -> Stages]
           /\ \A q \in Requests \ {r} : pc'[q] = pc[q]
<1>1. step \in [Requests -> 1..Len(Script)] /\ pc \in [Requests -> Stages]
    BY DEF TypeOK
<1>2. CASE step[r] = Len(Script)
    BY <1>1, <1>2 DEF Advance, Stages
<1>3. CASE step[r] # Len(Script)
    <2>1. step[r] + 1 \in 1..Len(Script)
        BY <1>1, <1>3, ScriptType
    <2>2. QED  BY <1>1, <1>3, <2>1 DEF Advance, Stages
<1>4. QED  BY <1>2, <1>3

\* A step that gives out no id keeps the invariant if it keeps the types and
\* sends no request without an id to work.
LEMMA NoNewID ==
    ASSUME RunIDInv, TypeOK', UNCHANGED <<seq, gen, runID>>,
           \A q \in Requests : pc'[q] = pc[q] \/ pc'[q] = "done" \/ gen[q] # 0
    PROVE  RunIDInv'
BY DEF RunIDInv, HasID, IDsFromGenerator, RunIDsUniquePerService

\* No step gives out an id again, but for another Service.
LEMMA RunIDStep == RunIDInv /\ [Next]_vars => RunIDInv'
<1> SUFFICES ASSUME RunIDInv, [Next]_vars  PROVE RunIDInv'
    OBVIOUS
<1> USE DEF serviceVars, requestVars
<1>1. TypeOK
    BY DEF RunIDInv
<1>2. ASSUME NEW r \in Requests, gen[r] # 0
      PROVE  runID[r] \in RunIds /\ File(r) \in Files
    BY <1>1, <1>2, FileType DEF RunIDInv, IDsFromGenerator, TypeOK
<1>3. ASSUME NEW r \in Requests, NEW what \in Responses, Respond(r, what),
             StoreTypeOK', UNCHANGED <<serviceVars, step, gen, runID, hasEvents, payload>>
      PROVE  RunIDInv'
    <2>1. TypeOK'
        BY <1>1, <1>3 DEF Respond, TypeOK, Stages
    <2>2. QED  BY <1>1, <1>3, <2>1, NoNewID DEF Respond, TypeOK
<1>4. ASSUME UNCHANGED storeVars
      PROVE  StoreTypeOK'
    BY <1>1, <1>4 DEF storeVars, StoreTypeOK, TypeOK
<1>5. ASSUME NEW r \in Requests, Fail(r), StoreTypeOK'
      PROVE  RunIDInv'
    BY <1>3, <1>5 DEF Fail, Responses
<1>6. ASSUME NEW r \in Requests, RejectProfile(r)
      PROVE  RunIDInv'
    BY <1>4, <1>5, <1>6 DEF RejectProfile
<1>7. ASSUME NEW r \in Requests, TakeRunID(r)
      PROVE  RunIDInv'
    <2>1. StoreTypeOK'
        BY <1>4, <1>7 DEF TakeRunID
    <2>2. /\ service \in Generations /\ seq \in [Generations -> Nat]
          /\ gen \in [Requests -> Generations \cup {0}]
          /\ runID \in [Requests -> RunIds \cup {0}]
          /\ pc \in [Requests -> Stages]
        BY <1>1 DEF TypeOK
    <2>3. /\ seq' = [seq EXCEPT ![service] = seq[service] + 1]
          /\ gen' = [gen EXCEPT ![r] = service]
          /\ runID' = [runID EXCEPT ![r] = seq[service] + 1]
          /\ pc' = [pc EXCEPT ![r] = "enrich"]
          /\ seq[service] + 1 \in RunIds
        BY <1>7 DEF TakeRunID
    <2>4. TypeOK'
        BY <1>1, <1>7, <2>1, <2>2, <2>3 DEF TakeRunID, TypeOK, Stages
    <2>5. service # 0 /\ \A g \in Generations : g \in Nat \ {0}
        BY <2>2, EngineAssumption DEF Generations
    <2>6. HasID'
        BY <2>2, <2>3, <2>5 DEF RunIDInv, HasID
    <2>7. \A q \in Requests : runID[q] \in Nat
        <3>1. RunIds \cup {0} \subseteq Nat
            BY EngineAssumption
        <3>2. QED  BY <2>2, <3>1
    <2>8. IDsFromGenerator'
        <3> SUFFICES ASSUME NEW q \in Requests, gen'[q] # 0
                     PROVE  runID'[q] # 0 /\ runID'[q] <= seq'[gen'[q]]
            BY DEF IDsFromGenerator
        <3>1. CASE q = r
            BY <2>2, <2>3, <3>1
        <3>2. CASE q # r
            <4>1. gen'[q] = gen[q] /\ runID'[q] = runID[q] /\ gen[q] \in Generations
                BY <2>2, <2>3, <3>2
            <4>2. runID[q] # 0 /\ runID[q] <= seq[gen[q]]
                BY <4>1 DEF RunIDInv, IDsFromGenerator
            <4>3. seq'[gen[q]] \in Nat /\ seq[gen[q]] <= seq'[gen[q]]
                BY <2>2, <2>3, <4>1
            <4>4. QED  BY <2>2, <2>7, <4>1, <4>2, <4>3
        <3>3. QED  BY <3>1, <3>2
    <2>9. \A q \in Requests \ {r} : gen[q] = service => runID[q] # seq[service] + 1
        <3> SUFFICES ASSUME NEW q \in Requests \ {r}, gen[q] = service
                     PROVE  runID[q] # seq[service] + 1
            OBVIOUS
        <3>1. runID[q] <= seq[service]
            BY <2>5 DEF RunIDInv, IDsFromGenerator
        <3>2. QED  BY <2>2, <2>7, <3>1
    <2>10. RunIDsUniquePerService'
        BY <2>2, <2>3, <2>9 DEF RunIDInv, RunIDsUniquePerService
    <2>11. QED  BY <2>4, <2>6, <2>8, <2>10 DEF RunIDInv
<1>8. ASSUME NEW r \in Requests, Work(r)
      PROVE  RunIDInv'
    <2>1. gen[r] # 0 /\ runID[r] \in RunIds /\ File(r) \in Files
        <3>1. pc[r] \in {"enrich", "ready", "writing", "export", "encoded", "put", "answer"}
            BY <1>8
            DEF Work, Enrich, RejectEntities, BeginSave, EndSave, SaveFails, Export,
                ExportFails, BeginPut, EndPut, PutError, Answer
        <3>2. QED  BY <1>2, <3>1 DEF RunIDInv, HasID
    <2>2. ASSUME TypeOK', UNCHANGED <<seq, gen, runID>>,
                 \A q \in Requests \ {r} : pc'[q] = pc[q]
          PROVE  RunIDInv'
        BY <2>1, <2>2, NoNewID
    <2>3. payload[r] \in Requests \cup {Absent}
        BY <1>1 DEF TypeOK
    <2>4. CASE Enrich(r)
        <3>1. TypeOK'
            BY <1>1, <1>4, <2>4 DEF Enrich, TypeOK, Stages
        <3>2. QED  BY <1>1, <2>2, <2>4, <3>1 DEF Enrich, TypeOK
    <2>5. CASE RejectEntities(r)
        BY <1>4, <1>5, <2>5 DEF RejectEntities
    <2>6. CASE BeginSave(r)
        <3>1. StoreTypeOK'
            BY <1>1, <2>1, <2>3, <2>6, StoreStepType DEF BeginSave, TypeOK
        <3>2. TypeOK'
            BY <1>1, <2>6, <3>1 DEF BeginSave, TypeOK, Stages
        <3>3. QED  BY <1>1, <2>2, <2>6, <3>2 DEF BeginSave, TypeOK
    <2>7. CASE EndSave(r)
        <3>1. StoreTypeOK'
            BY <1>1, <2>1, <2>3, <2>7, StoreStepType DEF EndSave, TypeOK
        <3>2. TypeOK'
            BY <1>1, <2>7, <3>1, AdvanceType DEF EndSave, TypeOK
        <3>3. QED  BY <1>1, <2>2, <2>7, <3>2, AdvanceType DEF EndSave
    <2>8. CASE SaveFails(r)
        <3>1. StoreTypeOK'
            BY <1>1, <2>1, <2>3, <2>8, StoreStepType DEF SaveFails, TypeOK
        <3>2. QED  BY <1>5, <2>8, <3>1 DEF SaveFails
    <2>9. CASE Export(r)
        <3>1. Lookup(ExportSource(File(r)), runID[r]) \in Requests \cup {Absent}
            <4>1. ExportSource(File(r)) \in Maps
                BY DEF ExportSource, Maps, JsonFileOf
            <4>2. QED  BY <1>1, <2>1, <4>1 DEF Lookup, TypeOK, StoreTypeOK
        <3>2. TypeOK'
            BY <1>1, <1>4, <2>9, <3>1 DEF Export, TypeOK, Stages
        <3>3. QED  BY <1>1, <2>2, <2>9, <3>2 DEF Export, TypeOK
    <2>10. CASE ExportFails(r)
        BY <1>4, <1>5, <2>10 DEF ExportFails
    <2>11. CASE BeginPut(r)
        <3>1. StoreTypeOK'
            BY <1>1, <2>1, <2>3, <2>11, StoreStepType DEF BeginPut, TypeOK
        <3>2. TypeOK'
            BY <1>1, <2>11, <3>1 DEF BeginPut, TypeOK, Stages
        <3>3. QED  BY <1>1, <2>2, <2>11, <3>2 DEF BeginPut, TypeOK
    <2>12. CASE EndPut(r)
        <3>1. StoreTypeOK'
            BY <1>1, <2>1, <2>3, <2>12, StoreStepType DEF EndPut, TypeOK
        <3>2. TypeOK'
            BY <1>1, <2>12, <3>1, AdvanceType DEF EndPut, TypeOK
        <3>3. QED  BY <1>1, <2>2, <2>12, <3>2, AdvanceType DEF EndPut
    <2>13. CASE PutError(r)
        <3>1. StoreTypeOK'
            BY <1>1, <2>1, <2>3, <2>13, StoreStepType DEF PutError, TypeOK
        <3>2. QED  BY <1>5, <2>13, <3>1 DEF PutError
    <2>14. CASE Answer(r)
        BY <1>3, <1>4, <2>14 DEF Answer, Responses
    <2>15. QED
        BY <1>8, <2>4, <2>5, <2>6, <2>7, <2>8, <2>9, <2>10, <2>11, <2>12, <2>13, <2>14
        DEF Work
<1>9. service < MaxGeneration => service + 1 \in Generations
    BY <1>1, EngineAssumption DEF TypeOK, Generations
<1>10. CASE ReplaceService
    <2>1. TypeOK'
        BY <1>1, <1>4, <1>9, <1>10 DEF ReplaceService, TypeOK
    <2>2. QED  BY <1>10, <2>1, NoNewID DEF ReplaceService
<1>11. CASE Restart
    <2>1. StoreTypeOK'
        BY <1>1, <1>11 DEF Restart, LoseMemory, EmptyMemory, TypeOK, StoreTypeOK
    <2>2. TypeOK'
        BY <1>1, <1>9, <1>11, <2>1 DEF Restart, TypeOK, Stages, Responses
    <2>3. QED  BY <1>11, <2>2, NoNewID DEF Restart
<1>12. CASE UNCHANGED vars
    <2>1. TypeOK'
        BY <1>1, <1>4, <1>12 DEF vars, TypeOK
    <2>2. QED  BY <1>12, <2>1, NoNewID DEF vars
<1>13. QED
    BY <1>6, <1>7, <1>8, <1>10, <1>11, <1>12 DEF Next

\* The engine's state is always well typed.
THEOREM EngineTypeOK == Spec => []TypeOK
<1>1. RunIDInv => TypeOK
    BY DEF RunIDInv
<1>2. QED  BY <1>1, RunIDInit, RunIDStep, PTL DEF Spec

\* Requests served by one Service never share a run directory, however many
\* there are and however their steps interleave with replacements, failures
\* and crashes.
THEOREM EngineRunIDsUnique == Spec => []RunIDsUniquePerService
<1>1. RunIDInv => RunIDsUniquePerService
    BY DEF RunIDInv
<1>2. QED  BY <1>1, RunIDInit, RunIDStep, PTL DEF Spec

-----------------------------------------------------------------------------
(* The files of a run.  A request that has its run id to itself works its   *)
(* way through the script in a directory that nobody else touches.          *)

\* What a request produced is found under its own run id only.
OwnDirectory == \A r \in Requests :
    /\ \A i \in RunIds :
        (\E f \in Files : disk[f][i] = r) \/ (\E m \in Maps : memory[m][i] = r)
            => runID[r] = i
    /\ \A q \in Requests : payload[q] = r => runID[r] # 0 /\ runID[r] = runID[q]

\* Where a request can be, and which Service it runs in.
Lifecycle ==
    /\ booted <= service
    /\ \A r \in Requests :
        /\ pc[r] = "new" => step[r] = 1 /\ runID[r] = 0
        /\ pc[r] # "done" => response[r] = "none"
        /\ InFlight(r) => gen[r] >= booted
        /\ gen[r] <= service
        /\ pc[r] \in {"export", "encoded", "put"} => step[r] >= 5

\* The k-th file of the script is there, and is r's.
Found(r, k) == disk[Script[k]][runID[r]] = r

\* The files before the one a request is at are there, the ones after it not.
InOrder(r) ==
    \A k \in 1..Len(Script) :
        /\ k < step[r] => Found(r, k)
        /\ k > step[r] => ~ Found(r, k)

\* The file a request is at is there when it was the last one.
AtLast(r) ==
    /\ pc[r] = "answer" \/ response[r] = "ok" => step[r] = Len(Script) /\ Found(r, step[r])
    /\ pc[r] \notin {"answer", "done"} \/ response[r] = "error" => ~ Found(r, step[r])

\* Between the truncation of a file and its end, and what is written to it.
BeingWritten(r) ==
    /\ pc[r] \in {"writing", "put"} => disk[File(r)][runID[r]] = Torn
    /\ pc[r] = "writing" =>
        \A m \in Maps : JsonFileOf[m] = File(r) => memory[m][runID[r]] = r
    /\ pc[r] \in {"encoded", "put"} => payload[r] = r

\* The index knows what the running process has on disk.
Indexed(r) ==
    gen[r] >= booted =>
        \A m \in Maps : disk[JsonFileOf[m]][runID[r]] = r => memory[m][runID[r]] = r

OwnRun(r) == InOrder(r) /\ AtLast(r) /\ BeingWritten(r) /\ Indexed(r)

StoreInv ==
    /\ RunIDInv /\ OwnDirectory /\ Lifecycle
    /\ \A r \in Requests : SoleOwner(r) => OwnRun(r)

\* The store changes in one run directory only, where files get one of the
\* contents and entries become r's.
TouchesOnly(i, contents, r) ==
    /\ \A j \in RunIds \ {i} :
        /\ \A f \in Files : disk'[f][j] = disk[f][j]
        /\ \A m \in Maps : memory'[m][j] = memory[m][j]
    /\ \A f \in Files : disk'[f][i] \in {disk[f][i]} \cup contents
    /\ \A m \in Maps : memory'[m][i] \in {memory[m][i], r}

\* A step of r that gives out no id changes nothing of the other requests.
KeepsRequests(r) ==
    /\ UNCHANGED <<serviceVars, gen, runID>>
    /\ \A q \in Requests \ {r} :
        /\ pc'[q] = pc[q] /\ step'[q] = step[q]
        /\ payload'[q] = payload[q] /\ response'[q] = response[q]

\* It puts nothing into its run directory but its own output or what it found.
Private(r) ==
    /\ KeepsRequests(r)
    /\ TouchesOnly(runID[r], {Torn, r, payload[r]}, r)
    /\ payload'[r] # payload[r] =>
        runID[r] \in RunIds /\ \E m \in Maps : payload'[r] = memory[m][runID[r]]

\* The files behind the maps, and the maps behind the exports.
LEMMA JsonFileType ==
    /\ \A m \in Maps : JsonFileOf[m] \in Files
    /\ \A f : ExportSource(f) \in Maps
BY DEF JsonFileOf, Maps, Files, JsonFiles, ExportSource

\* The directory of a request that has its id to itself is nobody else's.
LEMMA OtherOwner ==
    ASSUME TypeOK, NEW r \in Requests, NEW q \in Requests \ {r}, SoleOwner(q)
    PROVE  runID[q] \in RunIds \ {runID[r]}
BY DEF TypeOK, SoleOwner

\* A step that is private to one request leaves everybody else's directory as it was.
LEMMA PrivateKeeps ==
    ASSUME StoreInv, NEW r \in Requests, Private(r)
    PROVE  /\ OwnDirectory'
           /\ \A q \in Requests : SoleOwner(q)' = SoleOwner(q)
           /\ \A q \in Requests \ {r} : SoleOwner(q) => OwnRun(q)'
<1>1. TypeOK /\ OwnDirectory /\ runID' = runID
    BY DEF StoreInv, RunIDInv, Private, KeepsRequests
<1>2. OwnDirectory'
    <2>1. ASSUME NEW x \in Requests, NEW i \in RunIds, NEW f \in Files, disk'[f][i] = x
          PROVE  runID[x] = i
        <3>1. CASE i # runID[r]
            BY <1>1, <2>1, <3>1 DEF Private, KeepsRequests, TouchesOnly, OwnDirectory
        <3>2. CASE i = runID[r]
            <4>1. x \in {disk[f][i], r, payload[r]}
                BY <2>1, <3>2, FileStoreAssumption DEF Private, TouchesOnly
            <4>2. QED  BY <1>1, <3>2, <4>1 DEF OwnDirectory
        <3>3. QED  BY <3>1, <3>2
    <2>2. ASSUME NEW x \in Requests, NEW i \in RunIds, NEW m \in Maps, memory'[m][i] = x
          PROVE  runID[x] = i
        <3>1. CASE i # runID[r]
            BY <1>1, <2>2, <3>1 DEF Private, KeepsRequests, TouchesOnly, OwnDirectory
        <3>2. CASE i = runID[r]
            BY <1>1, <2>2, <3>2 DEF Private, KeepsRequests, TouchesOnly, OwnDirectory
        <3>3. QED  BY <3>1, <3>2
    <2>3. ASSUME NEW x \in Requests, NEW q \in Requests, payload'[q] = x
          PROVE  runID[x] # 0 /\ runID[x] = runID[q]
        <3>1. CASE payload'[q] = payload[q]
            BY <1>1, <2>3, <3>1 DEF OwnDirectory
        <3>2. CASE payload'[q] # payload[q]
            <4>1. q = r /\ runID[r] \in RunIds /\ runID[r] # 0
                BY <3>2, EngineAssumption DEF Private, KeepsRequests
            <4>2. QED  BY <1>1, <2>3, <3>2, <4>1 DEF Private, KeepsRequests, TouchesOnly, OwnDirectory
        <3>3. QED  BY <3>1, <3>2
    <2>4. QED  BY <1>1, <2>1, <2>2, <2>3 DEF OwnDirectory
<1>3. \A q \in Requests : SoleOwner(q)' = SoleOwner(q)
    BY <1>1 DEF SoleOwner
<1>4. ASSUME NEW q \in Requests \ {r}, SoleOwner(q)
      PROVE  OwnRun(q)'
    <2>1. OwnRun(q)
        BY <1>4 DEF StoreInv
    <2>2. /\ \A f \in Files : disk'[f][runID[q]] = disk[f][runID[q]]
          /\ \A m \in Maps : memory'[m][runID[q]] = memory[m][runID[q]]
        BY <1>1, <1>4, OtherOwner DEF Private, TouchesOnly
    <2>3. /\ pc'[q] = pc[q] /\ step'[q] = step[q] /\ runID'[q] = runID[q]
          /\ payload'[q] = payload[q] /\ response'[q] = response[q]
          /\ gen' = gen /\ booted' = booted
        BY <1>1 DEF Private, KeepsRequests, serviceVars
    <2>4. \A k \in 1..Len(Script) : Found(q, k)' = Found(q, k)
        BY <2>2, <2>3, ScriptType DEF Found
    <2>5. step[q] \in 1..Len(Script) /\ File(q) \in Files /\ File(q)' = File(q)
        BY <1>1, <2>3, FileType DEF TypeOK, File
    <2>6. InOrder(q)' /\ AtLast(q)'
        BY <2>1, <2>3, <2>4, <2>5 DEF OwnRun, InOrder, AtLast
    <2>7. BeingWritten(q)' /\ Indexed(q)'
        BY <2>1, <2>2, <2>3, <2>5, JsonFileType DEF OwnRun, BeingWritten, Indexed
    <2>8. QED  BY <2>6, <2>7 DEF OwnRun
<1>5. QED  BY <1>2, <1>3, <1>4

\* A request at work has an id and is served by a Service of the process.
LEMMA AtWork ==
    ASSUME RunIDInv, NEW r \in Requests, Work(r)
    PROVE  /\ runID[r] \in RunIds /\ File(r) \in Files
           /\ pc[r] \notin {"new", "done"}
<1>1. pc[r] \in {"enrich", "ready", "writing", "export", "encoded", "put", "answer"}
    BY DEF Work, Enrich, RejectEntities, BeginSave, EndSave, SaveFails, Export,
           ExportFails, BeginPut, EndPut, PutError, Answer
<1>2. gen[r] # 0
    BY <1>1 DEF RunIDInv, HasID
<1>3. runID[r] # 0 /\ runID[r] \in RunIds \cup {0}
    BY <1>2 DEF RunIDInv, IDsFromGenerator, TypeOK
<1>4. QED  BY <1>1, <1>3, FileType DEF RunIDInv

\* A step of the store is about one file of one run directory.
LEMMA StoreStepTouches ==
    ASSUME StoreTypeOK, NEW f \in Files, NEW i \in RunIds, NEW r \in Requests,
           NEW content, NEW contents, {Torn, r, content} \subseteq contents,
           \/ SaveBegins(f, i, r) \/ SaveEnds(f, i, r)
           \/ SaveCannotOpen(f, i, r) \/ SaveCutShort(r)
           \/ PutBegins(f, i) \/ PutEnds(f, i, content) \/ UNCHANGED storeVars
    PROVE  TouchesOnly(i, contents, r)
<1>1. ASSUME NEW g \in Files, NEW j \in RunIds,
             NEW c \in {Torn, r, content}, SetFile(f, i, c)
      PROVE  disk'[g][j] = disk[g][j] \/ (j = i /\ disk'[g][j] \in contents)
    BY <1>1 DEF StoreTypeOK, SetFile
<1>2. ASSUME NEW m \in Maps, NEW j \in RunIds, Remember(f, i, r)
      PROVE  memory'[m][j] = memory[m][j] \/ (j = i /\ memory'[m][j] = r)
    BY <1>2 DEF StoreTypeOK, Remember
<1>3. \/ UNCHANGED disk \/ \E c \in {Torn, r, content} : SetFile(f, i, c)
    BY DEF SaveBegins, SaveEnds, SaveCannotOpen, SaveCutShort, PutBegins, PutEnds, storeVars
<1>4. UNCHANGED memory \/ Remember(f, i, r)
    BY DEF SaveBegins, SaveEnds, SaveCannotOpen, SaveCutShort, PutBegins, PutEnds, storeVars
<1>5. \A g \in Files, j \in RunIds :
        disk'[g][j] = disk[g][j] \/ (j = i /\ disk'[g][j] \in contents)
    BY <1>1, <1>3
<1>6. \A m \in Maps, j \in RunIds :
        memory'[m][j] = memory[m][j] \/ (j = i /\ memory'[m][j] = r)
    BY <1>2, <1>4
<1>7. QED  BY <1>5, <1>6 DEF TouchesOnly

\* What a request does in its run is private to it.
LEMMA WorkIsPrivate ==
    ASSUME RunIDInv, NEW r \in Requests, Work(r)
    PROVE  Private(r)
<1>1. TypeOK /\ StoreTypeOK
    BY DEF RunIDInv, TypeOK
<1>2. runID[r] \in RunIds /\ File(r) \in Files
    BY AtWork
<1> DEFINE i == runID[r]
           f == File(r)
           StoreStep == \/ SaveBegins(f, i, r) \/ SaveEnds(f, i, r)
                        \/ SaveCannotOpen(f, i, r) \/ SaveCutShort(r)
                        \/ PutBegins(f, i) \/ PutEnds(f, i, payload[r]) \/ UNCHANGED storeVars
<1>3. StoreStep
    BY DEF Work, Enrich, RejectEntities, BeginSave, EndSave, SaveFails, Export,
           ExportFails, BeginPut, EndPut, PutError, PutFails, Answer
<1>4. TouchesOnly(runID[r], {Torn, r, payload[r]}, r)
    BY <1>1, <1>2, <1>3, StoreStepTouches
<1>5. KeepsRequests(r)
    <2> USE DEF KeepsRequests, serviceVars
    <2>1. CASE Fail(r)
        BY <1>1, <2>1 DEF Fail, Respond, TypeOK
    <2>2. CASE Enrich(r) \/ BeginSave(r) \/ BeginPut(r) \/ Export(r)
        BY <1>1, <2>2 DEF Enrich, BeginSave, BeginPut, Export, TypeOK
    <2>3. CASE EndSave(r) \/ EndPut(r)
        <3>1. step' = step \/ step' = [step EXCEPT ![r] = @ + 1]
            BY <2>3 DEF EndSave, EndPut, Advance
        <3>2. QED  BY <1>1, <2>3, <3>1, AdvanceType DEF EndSave, EndPut, TypeOK
    <2>4. CASE Answer(r)
        BY <1>1, <2>4 DEF Answer, Respond, TypeOK
    <2>5. QED
        BY <2>1, <2>2, <2>3, <2>4
        DEF Work, RejectEntities, SaveFails, ExportFails, PutError
<1>6. ASSUME payload'[r] # payload[r]
      PROVE  \E m \in Maps : payload'[r] = memory[m][runID[r]]
    <2>1. Export(r)
        BY <1>6 DEF Work, Enrich, RejectEntities, BeginSave, EndSave, SaveFails, Fail,
                    ExportFails, BeginPut, EndPut, PutError, Answer
    <2>2. QED  BY <1>1, <2>1, JsonFileType DEF Export, Lookup, TypeOK
<1>7. QED  BY <1>2, <1>4, <1>5, <1>6 DEF Private

\* The script writes every file once, the exports last.
LEMMA ScriptInjective ==
    /\ \A j, k \in 1..Len(Script) : Script[j] = Script[k] => j = k
    /\ \A k \in 5..Len(Script) : Script[k] \notin {JsonFileOf[m] : m \in Maps}
    /\ Script[2] = JsonFileOf["events"] /\ Script[3] = JsonFileOf["features"]
    /\ Files = {Script[k] : k \in 1..Len(Script)}
<1>1. Len(Script) = 7
    BY ScriptType
<1>2. QED  BY <1>1 DEF Script, JsonFileOf, Maps, Files, JsonFiles, Exports

\* What a step of a request does to the file that the request is at.
Leaves(r) == disk' = disk /\ step' = step
Truncates(r) == SetFile(File(r), runID[r], Torn) /\ step' = step
Completes(r) ==
    /\ pc[r] \in {"writing", "put"}
    /\ SetFile(File(r), runID[r], r) /\ memory' = memory
    /\ Advance(r)

\* When the id is the request's own, a step leaves its file, truncates it or
\* completes it: an export is never overlaid.
LEMMA WorkOnFile ==
    ASSUME StoreInv, NEW r \in Requests, Work(r), SoleOwner(r)
    PROVE  \/ /\ Leaves(r)
              /\ \/ Fail(r) \/ Enrich(r) \/ Export(r) \/ Answer(r)
           \/ Truncates(r) /\ (BeginSave(r) \/ BeginPut(r))
           \/ Completes(r) /\ (EndSave(r) \/ EndPut(r))
<1>1. OwnRun(r) /\ TypeOK
    BY DEF StoreInv, RunIDInv
<1>2. CASE EndPut(r)
    <2>1. disk[File(r)][runID[r]] = Torn /\ payload[r] = r
        BY <1>1, <1>2 DEF OwnRun, BeingWritten, EndPut
    <2>2. QED  BY <1>2, <2>1 DEF EndPut, PutEnds, Completes
<1>3. CASE EndSave(r)
    BY <1>3 DEF EndSave, SaveEnds, Completes
<1>4. CASE BeginSave(r) \/ BeginPut(r)
    BY <1>4 DEF BeginSave, BeginPut, SaveBegins, PutBegins, Truncates
<1>5. CASE Enrich(r) \/ Export(r) \/ Answer(r)
    BY <1>5 DEF Enrich, Export, Answer, Leaves, storeVars
<1>6. CASE RejectEntities(r) \/ SaveFails(r) \/ ExportFails(r) \/ PutError(r)
    BY <1>6 DEF RejectEntities, SaveFails, SaveCannotOpen, SaveCutShort, ExportFails,
                PutError, PutFails, Fail, Leaves, storeVars
<1>7. QED  BY <1>2, <1>3, <1>4, <1>5, <1>6 DEF Work

\* The files found after such a step.
LEMMA FilesFound ==
    ASSUME RunIDInv, NEW r \in Requests, Work(r),
           Leaves(r) \/ Truncates(r) \/ Completes(r)
    PROVE  /\ \A k \in 1..Len(Script) : k # step[r] => Found(r, k)' = Found(r, k)
           /\ Leaves(r) => Found(r, step[r])' = Found(r, step[r])
           /\ Truncates(r) => disk'[File(r)][runID[r]] = Torn /\ ~ disk'[File(r)][runID[r]] = r
           /\ Completes(r) => disk'[File(r)][runID[r]] = r
<1>1. /\ runID' = runID /\ runID[r] \in RunIds /\ File(r) \in Files
      /\ StoreTypeOK /\ step[r] \in 1..Len(Script)
    BY AtWork, WorkIsPrivate DEF Private, KeepsRequests, RunIDInv, TypeOK
<1>2. \A k \in 1..Len(Script) : k # step[r] => Script[k] # File(r) /\ Script[k] \in Files
    BY <1>1, ScriptInjective, ScriptType DEF File
<1>3. ASSUME NEW c, SetFile(File(r), runID[r], c)
      PROVE  /\ disk'[File(r)][runID[r]] = c
             /\ \A f \in Files \ {File(r)} : disk'[f][runID[r]] = disk[f][runID[r]]
    BY <1>1, <1>3 DEF SetFile, StoreTypeOK
<1>4. Torn # r
    BY FileStoreAssumption
<1>5. ASSUME NEW k \in 1..Len(Script), k # step[r]
      PROVE  Found(r, k)' = Found(r, k)
    BY <1>1, <1>2, <1>3, <1>5 DEF Found, Leaves, Truncates, Completes
<1>6. QED
    BY <1>1, <1>3, <1>4, <1>5 DEF Found, Leaves, Truncates, Completes

\* A step of a run keeps the run's own files in order.
LEMMA OwnRunStep ==
    ASSUME StoreInv, NEW r \in Requests, Work(r), SoleOwner(r)
    PROVE  OwnRun(r)'
<1>1. TypeOK /\ RunIDInv /\ OwnRun(r) /\ Lifecycle
    BY DEF StoreInv, RunIDInv
<1>2. /\ runID' = runID /\ gen' = gen /\ booted' = booted
      /\ TouchesOnly(runID[r], {Torn, r, payload[r]}, r)
      /\ runID[r] \in RunIds /\ File(r) \in Files /\ pc[r] \notin {"new", "done"}
      /\ step[r] \in 1..Len(Script)
      /\ pc \in [Requests -> Stages] /\ response \in [Requests -> Responses]
    BY <1>1, AtWork, WorkIsPrivate DEF Private, KeepsRequests, serviceVars, TypeOK
<1>3. gen[r] >= booted /\ response[r] = "none"
    BY <1>1, <1>2 DEF Lifecycle, InFlight
<1> DEFINE Same(k) == Found(r, k)' = Found(r, k)
<1>4. CASE Leaves(r) /\ (Fail(r) \/ Enrich(r) \/ Export(r) \/ Answer(r))
    <2>1. step' = step /\ \A k \in 1..Len(Script) : Found(r, k)' = Found(r, k)
        BY <1>1, <1>2, <1>4, FilesFound DEF Leaves
    <2>2. InOrder(r)'
        BY <1>1, <2>1 DEF OwnRun, InOrder
    <2>3. \/ pc'[r] = "done" /\ response'[r] = "error" /\ pc[r] # "answer"
          \/ pc'[r] = "done" /\ response'[r] = "ok" /\ pc[r] = "answer"
          \/ pc'[r] \in {"ready", "encoded"} /\ response'[r] = "none" /\ pc[r] # "answer"
        <3>1. CASE Fail(r)
            <4>1. pc'[r] = "done" /\ response'[r] = "error"
                BY <1>2, <3>1 DEF Fail, Respond
            <4>2. ~ Answer(r)
                BY <1>2, <4>1 DEF Answer, Respond
            <4>3. pc[r] # "answer"
                BY <4>2 DEF Work, Enrich, RejectEntities, BeginSave, EndSave, SaveFails,
                            Export, ExportFails, BeginPut, EndPut, PutError
            <4>4. QED  BY <4>1, <4>3
        <3>2. CASE Answer(r)
            BY <1>2, <3>2 DEF Answer, Respond
        <3>3. CASE Enrich(r) \/ Export(r)
            BY <1>2, <1>3, <3>3 DEF Enrich, Export
        <3>4. QED  BY <1>4, <3>1, <3>2, <3>3
    <2>4. AtLast(r)'
        BY <1>1, <1>2, <2>1, <2>3 DEF OwnRun, AtLast
    <2>5. Indexed(r)'
        BY <1>1, <1>2, <1>3, <1>4 DEF OwnRun, Indexed, TouchesOnly, Leaves
    <2>6. pc'[r] = "encoded" => payload'[r] = r
        <3> SUFFICES ASSUME Export(r)  PROVE payload'[r] = r
            BY <1>2, <1>4 DEF Fail, Respond, Enrich, Answer
        <3>1. step[r] >= 5
            BY <1>1 DEF Export, Lifecycle
        <3>2. Found(r, 2) /\ Found(r, 3)
            BY <1>1, <1>2, <3>1, ScriptType DEF OwnRun, InOrder
        <3>3. memory["events"][runID[r]] = r /\ memory["features"][runID[r]] = r
            BY <1>1, <1>3, <3>2, ScriptInjective DEF OwnRun, Indexed, Found, Maps, JsonFileOf
        <3>4. QED  BY <1>1, <3>3 DEF Export, Lookup, ExportSource, TypeOK
    <2>7. BeingWritten(r)'
        BY <2>3, <2>6 DEF BeingWritten
    <2>8. QED  BY <2>2, <2>4, <2>5, <2>7 DEF OwnRun
<1>5. CASE Truncates(r) /\ (BeginSave(r) \/ BeginPut(r))
    <2>1. /\ step' = step /\ \A k \in 1..Len(Script) : k # step[r] => Found(r, k)' = Found(r, k)
          /\ disk'[File(r)][runID[r]] = Torn /\ disk'[File(r)][runID[r]] # r
        BY <1>1, <1>2, <1>5, FilesFound DEF Truncates
    <2>2. InOrder(r)'
        BY <1>1, <1>2, <2>1 DEF OwnRun, InOrder
    <2>3. /\ pc'[r] \in {"writing", "put"} /\ response' = response
          /\ pc'[r] = "writing" => BeginSave(r)
          /\ pc'[r] = "put" => BeginPut(r)
          /\ payload' = payload
        BY <1>2, <1>5 DEF BeginSave, BeginPut
    <2>4. AtLast(r)'
        BY <1>2, <1>3, <2>1, <2>3 DEF AtLast, Found, File
    <2>5. ASSUME NEW m \in Maps, disk'[JsonFileOf[m]][runID[r]] = r
          PROVE  memory'[m][runID[r]] = r
        <3>1. PICK k \in 1..Len(Script) : Script[k] = JsonFileOf[m]
            BY JsonFileType, ScriptInjective
        <3>2. k # step[r]
            BY <2>1, <2>5, <3>1 DEF File
        <3>3. disk[JsonFileOf[m]][runID[r]] = r
            BY <1>2, <2>1, <2>5, <3>1, <3>2 DEF Found
        <3>4. QED  BY <1>1, <1>2, <1>3, <3>3 DEF OwnRun, Indexed, TouchesOnly
    <2>6. Indexed(r)'
        BY <1>2, <2>5 DEF Indexed
    <2>7. ASSUME pc'[r] = "writing", NEW m \in Maps, JsonFileOf[m] = File(r)
          PROVE  memory'[m][runID[r]] = r
        BY <1>1, <1>2, <2>3, <2>7
        DEF BeginSave, SaveBegins, Remember, TypeOK, StoreTypeOK
    <2>8. pc'[r] = "put" => payload'[r] = r
        BY <1>1, <2>3 DEF BeginPut, OwnRun, BeingWritten
    <2>9. BeingWritten(r)'
        <3>1. File(r)' = File(r)
            BY <2>1 DEF File
        <3>2. QED  BY <1>2, <2>1, <2>3, <2>7, <2>8, <3>1 DEF BeingWritten
    <2>10. QED  BY <2>2, <2>4, <2>6, <2>9 DEF OwnRun
<1>6. CASE Completes(r) /\ (EndSave(r) \/ EndPut(r))
    <2>1. /\ \A k \in 1..Len(Script) : k # step[r] => Found(r, k)' = Found(r, k)
          /\ \A k \in 1..Len(Script) : k = step[r] => Found(r, k)'
        <3>1. \A k \in 1..Len(Script) :
                k = step[r] => (Found(r, k)' <=> disk'[File(r)][runID[r]] = r)
            BY <1>2 DEF Found, File
        <3>2. disk'[File(r)][runID[r]] = r
            BY <1>1, <1>6, FilesFound
        <3>3. QED  BY <1>1, <1>6, <3>1, <3>2, FilesFound
    <2>2. /\ response' = response
          /\ \/ step[r] = Len(Script) /\ step'[r] = step[r] /\ pc'[r] = "answer"
             \/ /\ step[r] + 1 \in 1..Len(Script) /\ step'[r] = step[r] + 1
                /\ pc'[r] \in {"ready", "export"}
        BY <1>1, <1>2, <1>6, ScriptType DEF Completes, Advance, EndSave, EndPut, TypeOK
    <2>3. InOrder(r)'
        BY <1>1, <1>2, <2>1, <2>2 DEF OwnRun, InOrder
    <2>4. AtLast(r)'
        BY <1>1, <1>2, <1>3, <2>1, <2>2 DEF OwnRun, InOrder, AtLast
    <2>5. ASSUME NEW m \in Maps, disk'[JsonFileOf[m]][runID[r]] = r
          PROVE  memory'[m][runID[r]] = r
        <3>1. PICK k \in 1..Len(Script) : Script[k] = JsonFileOf[m]
            BY JsonFileType, ScriptInjective
        <3>2. CASE k # step[r]
            BY <1>1, <1>2, <1>3, <1>6, <2>1, <2>5, <3>1, <3>2
            DEF Found, OwnRun, Indexed, Completes
        <3>3. CASE k = step[r]
            <4>1. JsonFileOf[m] = File(r)
                BY <3>1, <3>3 DEF File
            <4>2. pc[r] # "put"
                BY <1>1, <1>2, <3>1, <3>3, ScriptInjective, ScriptType DEF Lifecycle
            <4>3. QED  BY <1>1, <1>6, <4>1, <4>2 DEF Completes, OwnRun, BeingWritten
        <3>4. QED  BY <3>2, <3>3
    <2>6. Indexed(r)'
        BY <1>2, <2>5 DEF Indexed
    <2>7. BeingWritten(r)'
        BY <2>2 DEF BeingWritten
    <2>8. QED  BY <2>3, <2>4, <2>6, <2>7 DEF OwnRun
<1>7. QED  BY <1>4, <1>5, <1>6, WorkOnFile

\* It holds at the start.
LEMMA StoreInit == Init => StoreInv
<1> SUFFICES ASSUME Init  PROVE StoreInv
    OBVIOUS
<1>1. OwnDirectory
    BY FileStoreAssumption DEF Init, InitStore, EmptyMemory, OwnDirectory
<1>2. Lifecycle
    BY DEF Init, Lifecycle, InFlight
<1>3. QED  BY <1>1, <1>2, RunIDInit DEF StoreInv, Init, SoleOwner

\* A step of a run leaves its request where a request can be.
LEMMA WorkLifecycle ==
    ASSUME RunIDInv, Lifecycle, NEW r \in Requests, Work(r)
    PROVE  Lifecycle'
<1>1. KeepsRequests(r) /\ pc[r] \notin {"new", "done"} /\ TypeOK
    BY AtWork, WorkIsPrivate DEF Private, RunIDInv
<1>2. /\ pc'[r] \notin {"new"}
      /\ pc'[r] # "done" => response'[r] = "none"
      /\ pc'[r] \in {"export", "encoded", "put"} => step'[r] >= 5
    <2> USE <1>1 DEF Lifecycle, TypeOK
    <2>1. CASE Fail(r) \/ Answer(r)
        BY <2>1 DEF Fail, Answer, Respond
    <2>2. CASE Enrich(r) \/ BeginSave(r) \/ Export(r) \/ BeginPut(r)
        BY <2>2 DEF Enrich, BeginSave, Export, BeginPut
    <2>3. CASE EndSave(r) \/ EndPut(r)
        <3>1. Advance(r) /\ response' = response
            BY <2>3 DEF EndSave, EndPut
        <3>2. \A k \in 1..Len(Script) : Script[k] \notin JsonFiles => k >= 5
            BY ScriptType DEF Script, JsonFiles
        <3>3. step[r] # Len(Script) => step[r] + 1 \in 1..Len(Script)
            BY ScriptType
        <3>4. QED  BY <3>1, <3>2, <3>3 DEF Advance
    <2>4. QED
        BY <2>1, <2>2, <2>3 DEF Work, RejectEntities, SaveFails, ExportFails, PutError
<1>3. ASSUME NEW q \in Requests
      PROVE  /\ pc'[q] = "new" => step'[q] = 1 /\ runID'[q] = 0
             /\ pc'[q] # "done" => response'[q] = "none"
             /\ InFlight(q)' => gen'[q] >= booted'
             /\ gen'[q] <= service'
             /\ pc'[q] \in {"export", "encoded", "put"} => step'[q] >= 5
    BY <1>1, <1>2 DEF Lifecycle, InFlight, KeepsRequests, serviceVars
<1>4. QED  BY <1>1, <1>3 DEF Lifecycle, KeepsRequests, serviceVars

\* A step that leaves the store and the requests alone.
LEMMA QuietStep ==
    ASSUME StoreInv, RunIDInv', UNCHANGED <<storeVars, booted, requestVars>>,
           service' = service \/ service' > service
    PROVE  StoreInv'
<1> USE DEF requestVars, storeVars
<1>1. TypeOK /\ Lifecycle
    BY DEF StoreInv, RunIDInv
<1>2. service \in Nat /\ service' \in Nat /\ booted \in Nat /\ \A r \in Requests : gen[r] \in Nat
    BY <1>1, EngineAssumption DEF StoreInv, RunIDInv, TypeOK, Generations
<1>3. Lifecycle'
    BY <1>1, <1>2 DEF Lifecycle, InFlight
<1>4. OwnDirectory'
    BY DEF StoreInv, OwnDirectory
<1>5. ASSUME NEW r \in Requests, SoleOwner(r)'
      PROVE  OwnRun(r)'
    <2>1. OwnRun(r)
        BY <1>5 DEF StoreInv, SoleOwner
    <2>2. QED
        BY <2>1 DEF OwnRun, InOrder, AtLast, BeingWritten, Indexed, Found, File
<1>6. QED  BY <1>3, <1>4, <1>5 DEF StoreInv

\* No step disturbs the directory of a run that has its id to itself.
LEMMA StoreStep == StoreInv /\ [Next]_vars => StoreInv'
<1> SUFFICES ASSUME StoreInv, [Next]_vars  PROVE StoreInv'
    OBVIOUS
<1>1. RunIDInv /\ RunIDInv' /\ TypeOK /\ Lifecycle /\ OwnDirectory
    BY RunIDStep DEF StoreInv, RunIDInv
<1>2. /\ service \in Nat /\ booted \in Nat /\ service # 0
      /\ \A r \in Requests : gen[r] \in Nat /\ runID[r] \in RunIds \cup {0}
      /\ 0 \notin RunIds
    <2>1. \A g \in Generations \cup {0} : g \in Nat
        BY EngineAssumption DEF Generations
    <2>2. 0 \notin Generations /\ 0 \notin RunIds
        BY EngineAssumption DEF Generations
    <2>3. QED  BY <1>1, <2>1, <2>2 DEF TypeOK
<1>3. ASSUME NEW r \in Requests, Work(r)
      PROVE  StoreInv'
    <2>1. Private(r) /\ Lifecycle'
        BY <1>1, <1>3, WorkIsPrivate, WorkLifecycle
    <2>2. QED  BY <1>1, <1>3, <2>1, PrivateKeeps, OwnRunStep DEF StoreInv
<1>4. ASSUME NEW r \in Requests, RejectProfile(r)
      PROVE  StoreInv'
    <2>1. Private(r)
        BY <1>1, <1>4
        DEF RejectProfile, Fail, Respond, Private, KeepsRequests, TouchesOnly,
            storeVars, serviceVars, TypeOK
    <2>2. ~ SoleOwner(r)
        BY <1>1, <1>4 DEF RejectProfile, Lifecycle, SoleOwner
    <2>3. Lifecycle'
        BY <1>1, <1>4
        DEF RejectProfile, Fail, Respond, Lifecycle, InFlight, serviceVars, TypeOK
    <2>4. QED  BY <1>1, <1>4, <2>1, <2>2, <2>3, PrivateKeeps DEF StoreInv
<1>5. ASSUME NEW r \in Requests, TakeRunID(r)
      PROVE  StoreInv'
    <2>1. /\ pc[r] = "new" /\ runID[r] = 0 /\ step[r] = 1 /\ response[r] = "none"
          /\ UNCHANGED <<storeVars, service, booted, step, payload, response>>
          /\ gen' = [gen EXCEPT ![r] = service]
          /\ runID' = [runID EXCEPT ![r] = seq[service] + 1]
          /\ seq[service] + 1 \in RunIds
          /\ pc' = [pc EXCEPT ![r] = "enrich"]
        BY <1>1, <1>5 DEF TakeRunID, Lifecycle
    <2>2. /\ pc'[r] = "enrich" /\ gen'[r] = service /\ runID'[r] = seq[service] + 1
          /\ \A q \in Requests \ {r} :
                pc'[q] = pc[q] /\ gen'[q] = gen[q] /\ runID'[q] = runID[q]
        BY <1>1, <2>1 DEF TypeOK
    <2>3. /\ \A i \in RunIds : \A f \in Files : disk[f][i] # r
          /\ \A i \in RunIds : \A m \in Maps : memory[m][i] # r
          /\ \A q \in Requests : payload[q] # r
        BY <1>1, <1>2, <2>1 DEF OwnDirectory
    <2>4. \A q \in Requests, x \in Requests : payload[q] = x => q # r
        BY <1>1, <2>1 DEF OwnDirectory
    <2>5. OwnDirectory'
        BY <1>1, <2>1, <2>2, <2>3, <2>4 DEF OwnDirectory, storeVars
    <2>6. Lifecycle'
        BY <1>1, <1>2, <2>1, <2>2 DEF Lifecycle, InFlight
    <2>7. OwnRun(r)'
        <3>1. \A k \in 1..Len(Script) : ~ Found(r, k)'
            BY <2>1, <2>2, <2>3, ScriptType DEF Found, storeVars
        <3>2. \A m \in Maps : disk'[JsonFileOf[m]][runID'[r]] # r
            BY <2>1, <2>2, <2>3, JsonFileType DEF storeVars
        <3>3. step'[r] = 1 /\ response'[r] = "none" /\ 1 \in 1..Len(Script)
            BY <2>1, ScriptType
        <3>4. QED
            BY <2>2, <3>1, <3>2, <3>3
            DEF OwnRun, InOrder, AtLast, BeingWritten, Indexed
    <2>8. ASSUME NEW q \in Requests \ {r}, SoleOwner(q)'
          PROVE  OwnRun(q)'
        <3>1. SoleOwner(q)
            BY <1>2, <2>1, <2>2, <2>8 DEF SoleOwner
        <3>2. OwnRun(q)
            BY <3>1 DEF StoreInv
        <3>3. QED
            BY <2>1, <2>2, <3>2
            DEF OwnRun, InOrder, AtLast, BeingWritten, Indexed, Found, File, storeVars
    <2>9. QED  BY <1>1, <2>5, <2>6, <2>7, <2>8 DEF StoreInv
<1>6. CASE ReplaceService
    BY <1>1, <1>2, <1>6, QuietStep DEF ReplaceService
<1>7. CASE Restart
    <2>1. /\ service' = service + 1 /\ booted' = service + 1
          /\ UNCHANGED <<disk, step, gen, runID, payload>>
          /\ memory' = EmptyMemory
          /\ \A r \in Requests :
                /\ pc'[r] = IF InFlight(r) THEN "done" ELSE pc[r]
                /\ response'[r] = IF InFlight(r) THEN "lost" ELSE response[r]
        BY <1>7 DEF Restart, LoseMemory
    <2>2. OwnDirectory'
        BY <1>1, <2>1, FileStoreAssumption DEF OwnDirectory, EmptyMemory
    <2>3. Lifecycle'
        BY <1>1, <1>2, <2>1 DEF Lifecycle, InFlight
    <2>4. ASSUME NEW r \in Requests, SoleOwner(r)'
          PROVE  OwnRun(r)'
        <3>1. OwnRun(r)
            BY <2>1, <2>4 DEF StoreInv, SoleOwner
        <3>2. \A k \in 1..Len(Script) : Found(r, k)' = Found(r, k)
            BY <2>1 DEF Found
        <3>3. step[r] \in 1..Len(Script)
            BY <1>1 DEF TypeOK
        <3>4. pc'[r] \in {"new", "done"}
            BY <2>1 DEF InFlight
        <3>5. InOrder(r)'
            BY <2>1, <3>1, <3>2 DEF OwnRun, InOrder
        <3>6. AtLast(r)'
            BY <1>1, <2>1, <3>1, <3>2, <3>3, <3>4
            DEF OwnRun, AtLast, Lifecycle, InFlight, SoleOwner
        <3>7. BeingWritten(r)' /\ Indexed(r)'
            BY <1>1, <1>2, <2>1, <3>4 DEF BeingWritten, Indexed, Lifecycle
        <3>8. QED  BY <3>5, <3>6, <3>7 DEF OwnRun
    <2>5. QED  BY <1>1, <2>2, <2>3, <2>4 DEF StoreInv
<1>8. CASE UNCHANGED vars
    BY <1>1, <1>8, QuietStep DEF vars, serviceVars
<1>9. QED
    BY <1>3, <1>4, <1>5, <1>6, <1>7, <1>8 DEF Next

\* After a crash, a failed write or a refusal at any point, what is found of a
\* run with an id of its own is a prefix of the script.
THEOREM EngineFilesFormAPrefix == Spec => []FilesFormAPrefix
<1>1. StoreInv => FilesFormAPrefix
    <2> SUFFICES ASSUME StoreInv, NEW r \in Requests, SoleOwner(r),
                        NEW i \in 1..Len(Script), NEW j \in 1..Len(Script),
                        i < j, Found(r, j)
                 PROVE  Found(r, i)
        BY DEF FilesFormAPrefix, Found
    <2>1. InOrder(r) /\ step[r] \in 1..Len(Script)
        BY DEF StoreInv, OwnRun, RunIDInv, TypeOK
    <2>2. QED  BY <2>1, ScriptType DEF InOrder
<1>2. QED  BY <1>1, StoreInit, StoreStep, PTL DEF Spec

\* What completeness on disk means along the script.
LEMMA CompleteFiles ==
    ASSUME NEW r \in Requests
    PROVE  Complete(r) <=> runID[r] # 0 /\ \A k \in 1..Len(Script) : Found(r, k)
BY ScriptInjective DEF Complete, Found

\* A run with an id to itself is complete exactly when it can be answered so.
LEMMA AnswersTrue ==
    ASSUME StoreInv, NEW r \in Requests, SoleOwner(r)
    PROVE  /\ pc[r] = "answer" \/ response[r] = "ok" => Complete(r)
           /\ pc[r] \notin {"answer", "done"} \/ response[r] = "error" => ~ Complete(r)
<1>1. OwnRun(r) /\ step[r] \in 1..Len(Script) /\ runID[r] # 0
    BY DEF StoreInv, RunIDInv, TypeOK, SoleOwner
<1>2. QED  BY <1>1, CompleteFiles, ScriptType DEF OwnRun, InOrder, AtLast

\* Success is reported only of a run whose seven files are there, and an error
\* only of one whose files are not.
THEOREM EngineAnswersMatchDisk == Spec => []AnswerMatchesDisk
<1>1. StoreInv => AnswerMatchesDisk
    BY AnswersTrue DEF AnswerMatchesDisk
<1>2. QED  BY <1>1, StoreInit, StoreStep, PTL DEF Spec

\* The index in memory is never behind the files of the running process.
THEOREM EngineIndexCoversDisk == Spec => []IndexCoversDisk
<1>1. StoreInv => IndexCoversDisk
    BY DEF StoreInv, OwnRun, Indexed, IndexCoversDisk
<1>2. QED  BY <1>1, StoreInit, StoreStep, PTL DEF Spec

-----------------------------------------------------------------------------
(* The seven writes of a run implement one atomic store.                    *)

Shared == {r \in Requests : runID[r] # 0 /\ ~ SoleOwner(r)}
Stored == {r \in Requests : Complete(r)}

\* A step in the directory of r alone stores nothing of a request elsewhere.
LEMMA StoredElsewhere ==
    ASSUME TypeOK, NEW r \in Requests, Private(r), runID[r] \in RunIds,
           NEW q \in Requests, runID[q] # runID[r]
    PROVE  Complete(q)' <=> Complete(q)
<1>1. runID' = runID /\ TouchesOnly(runID[r], {Torn, r, payload[r]}, r)
    BY DEF Private, KeepsRequests
<1>2. runID[q] # 0 => runID[q] \in RunIds \ {runID[r]}
    BY DEF TypeOK
<1>3. QED  BY <1>1, <1>2 DEF Complete, TouchesOnly

\* A step that ends a request leaves the files as they are.
LEMMA EndingStep ==
    ASSUME NEW r \in Requests, Work(r)
    PROVE  \/ Fail(r) /\ disk' = disk
           \/ Answer(r) /\ disk' = disk
           \/ response' = response
BY DEF Work, Enrich, RejectEntities, BeginSave, EndSave, SaveFails, SaveCannotOpen,
       SaveCutShort, Export, ExportFails, BeginPut, EndPut, PutError, PutFails, Answer,
       storeVars

\* A step of a run is a step of the ledger, or none.
LEMMA WorkSimulates ==
    ASSUME StoreInv, NEW r \in Requests, Work(r)
    PROVE  [Ledger!Next]_(Ledger!ledgerVars)
<1> USE DEF Ledger!ledgerVars
<1>1. TypeOK /\ Private(r) /\ runID[r] \in RunIds /\ runID[r] # 0
    BY AtWork, WorkIsPrivate, EngineAssumption DEF StoreInv, RunIDInv
<1>2. runID' = runID /\ Shared' = Shared /\ response[r] = "none"
    <2>1. runID' = runID /\ pc[r] # "done"
        BY <1>1, AtWork DEF Private, KeepsRequests, StoreInv
    <2>2. Shared' = Shared
        BY <2>1 DEF Shared, SoleOwner
    <2>3. QED  BY <2>1, <2>2 DEF Lifecycle, StoreInv
<1>3. disk' = disk => Stored' = Stored
    BY <1>2 DEF Stored, Complete
<1>4. r \notin Shared => SoleOwner(r)
    BY <1>1 DEF Shared
<1>5. CASE Fail(r) /\ disk' = disk
    <2>1. pc[r] \notin {"answer", "done"}
        <3>1. response' = [response EXCEPT ![r] = "error"] /\ response \in [Requests -> Responses]
            BY <1>1, <1>5 DEF Fail, Respond, TypeOK
        <3>2. ~ Answer(r)
            BY <3>1 DEF Answer, Respond
        <3>3. QED
            BY <3>2 DEF Work, Enrich, RejectEntities, BeginSave, EndSave, SaveFails,
                        Export, ExportFails, BeginPut, EndPut, PutError
    <2>2. r \notin Stored \ Shared
        BY <1>4, <2>1, AnswersTrue DEF Stored
    <2>3. Ledger!Refuse(r)
        BY <1>2, <1>3, <1>5, <2>2
        DEF Ledger!Refuse, Ledger!Tell, Stored, Shared, Fail, Respond
    <2>4. QED  BY <2>3 DEF Ledger!Next
<1>6. CASE Answer(r) /\ disk' = disk
    <2>1. r \in Stored \cup Shared
        BY <1>4, <1>6, AnswersTrue DEF Stored, Answer
    <2>2. Ledger!Accept(r)
        BY <1>2, <1>3, <1>6, <2>1
        DEF Ledger!Accept, Ledger!Tell, Stored, Shared, Answer, Respond
    <2>3. QED  BY <2>2 DEF Ledger!Next
<1>7. CASE response' = response /\ r \in Shared
    <2>1. \A q \in Requests \ Shared : Complete(q)' <=> Complete(q)
        BY <1>1, <1>7, StoredElsewhere DEF Shared, SoleOwner
    <2>2. Stored' = (Stored \ Shared) \cup (Stored' \cap Shared)
        BY <2>1 DEF Stored
    <2>3. PICK rs \in SUBSET Requests : rs = Stored' \cap Shared
        BY DEF Shared
    <2>4. Ledger!Mix(rs)
        BY <1>2, <1>7, <2>2, <2>3 DEF Ledger!Mix, Stored, Shared
    <2>5. QED  BY <2>4 DEF Ledger!Next
<1>8. CASE response' = response /\ r \notin Shared
    <2>1. \A q \in Requests \ {r} : Complete(q)' <=> Complete(q)
        BY <1>1, <1>4, <1>8, StoredElsewhere DEF SoleOwner
    <2>2. Stored' \in {Stored, Stored \cup {r}, Stored \ {r}}
        BY <2>1 DEF Stored
    <2>3. CASE Stored' \in {Stored, Stored \cup {r}}
        <3>1. CASE Stored' = Stored
            BY <1>2, <1>8, <3>1 DEF Stored, Shared
        <3>2. CASE Stored' = Stored \cup {r}
            <4>1. Ledger!Store(r)
                BY <1>2, <1>8, <3>2 DEF Ledger!Store, Stored, Shared
            <4>2. QED  BY <4>1 DEF Ledger!Next
        <3>3. QED  BY <2>3, <3>1, <3>2
    <2>4. CASE Stored' = Stored \ {r}
        <3>1. Leaves(r) \/ pc[r] # "answer"
            BY <1>4, <1>8, WorkOnFile DEF BeginSave, BeginPut, Completes
        <3>2. CASE Leaves(r)
            BY <1>2, <1>3, <1>8, <3>2 DEF Leaves, Stored, Shared
        <3>3. CASE pc[r] # "answer"
            <4>1. ~ Complete(r)
                BY <1>1, <1>4, <1>8, <3>3, AtWork, AnswersTrue DEF StoreInv
            <4>2. Stored' = Stored
                BY <2>4, <4>1 DEF Stored
            <4>3. QED  BY <1>2, <1>8, <4>2 DEF Stored, Shared
        <3>4. QED  BY <3>1, <3>2, <3>3
    <2>5. QED  BY <2>2, <2>3, <2>4
<1>9. QED  BY <1>5, <1>6, <1>7, <1>8, EndingStep

\* Every step is a step of the ledger, or none.
LEMMA StepSimulates ==
    ASSUME StoreInv, [Next]_vars
    PROVE  [Ledger!Next]_(Ledger!ledgerVars)
<1> USE DEF Ledger!ledgerVars
<1>1. TypeOK /\ Lifecycle /\ OwnDirectory
    BY DEF StoreInv, RunIDInv
<1>2. (disk' = disk /\ runID' = runID) => Stored' = Stored /\ Shared' = Shared
    BY DEF Stored, Shared, Complete, SoleOwner
<1>3. ASSUME NEW r \in Requests, RejectProfile(r)
      PROVE  Ledger!Refuse(r)
    <2>1. /\ disk' = disk /\ runID' = runID /\ runID[r] = 0 /\ response[r] = "none"
          /\ response' = [response EXCEPT ![r] = "error"]
        BY <1>1, <1>3 DEF RejectProfile, Fail, Respond, storeVars, Lifecycle
    <2>2. r \notin Stored
        BY <2>1 DEF Stored, Complete
    <2>3. QED  BY <1>2, <2>1, <2>2 DEF Ledger!Refuse, Ledger!Tell, Stored, Shared
<1>4. ASSUME NEW r \in Requests, TakeRunID(r)
      PROVE  \E rs \in SUBSET Requests : Ledger!Share(rs)
    <2>1. /\ UNCHANGED <<disk, response>> /\ runID[r] = 0
          /\ runID' = [runID EXCEPT ![r] = seq[service] + 1]
          /\ seq[service] + 1 \in RunIds
          /\ runID \in [Requests -> RunIds \cup {0}]
        BY <1>1, <1>4 DEF TakeRunID, storeVars, Lifecycle, TypeOK
    <2>2. \A f \in Files : disk[f][seq[service] + 1] # r
        <3>1. seq[service] + 1 # 0
            BY <2>1, EngineAssumption
        <3>2. QED  BY <1>1, <2>1, <3>1 DEF OwnDirectory
    <2>3. Stored' = Stored
        <3>1. ~ Complete(r) /\ ~ Complete(r)'
            BY <2>1, <2>2 DEF Complete, Files, JsonFiles
        <3>2. \A q \in Requests \ {r} : Complete(q)' <=> Complete(q)
            BY <2>1 DEF Complete
        <3>3. QED  BY <3>1, <3>2 DEF Stored
    <2>4. Shared \subseteq Shared'
        BY <2>1 DEF Shared, SoleOwner
    <2>5. PICK rs \in SUBSET Requests : rs = Shared'
        BY DEF Shared
    <2>6. Ledger!Share(rs)
        BY <2>1, <2>3, <2>4, <2>5 DEF Ledger!Share, Stored, Shared
    <2>7. QED  BY <2>6
<1>5. CASE ReplaceService
    BY <1>2, <1>5 DEF ReplaceService, storeVars, requestVars, Stored, Shared
<1>6. CASE Restart
    <2> DEFINE lost == {r \in Requests : InFlight(r)}
    <2>1. /\ disk' = disk /\ runID' = runID
          /\ response' = [r \in Requests |-> IF r \in lost THEN "lost" ELSE response[r]]
          /\ \A r \in lost : response[r] = "none"
        BY <1>1, <1>6 DEF Restart, LoseMemory, Lifecycle, InFlight
    <2>2. Ledger!Crash(lost)
        BY <1>2, <2>1 DEF Ledger!Crash, Stored, Shared
    <2>3. QED  BY <2>2 DEF Ledger!Next
<1>7. CASE UNCHANGED vars
    BY <1>2, <1>7 DEF vars, storeVars, requestVars, Stored, Shared
<1>8. QED
    BY <1>3, <1>4, <1>5, <1>6, <1>7, WorkSimulates DEF Next, Ledger!Next

\* The engine over its file store implements the ledger: to every client whose
\* run has its id to itself, seven writes, their failures, a crash and a new
\* Service look like one atomic store before the answer.
THEOREM EngineImplementsLedger == Spec => ImplementsLedger
<1>1. Init => Ledger!Init
    BY DEF Init, Ledger!Init, Complete, SoleOwner
<1>2. QED
    BY <1>1, StoreInit, StoreStep, StepSimulates, PTL DEF Spec, ImplementsLedger, Ledger!Spec
=============================================================================
