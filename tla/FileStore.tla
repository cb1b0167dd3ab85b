------------------------------ MODULE FileStore ------------------------------
(***************************************************************************)
(* internal/storage/file_store.go: maps in memory, guarded by one RWMutex, *)
(* and files on disk.  A stored value is abstracted to the request whose   *)
(* run produced it.  A file is written in place (os.WriteFile: truncate,   *)
(* then write), so it can be found torn: cut short by a crash or by a      *)
(* failed write, or mixed by two writers that hold no lock.                *)
(***************************************************************************)
EXTENDS Integers

CONSTANTS
    Requests,       \* POST /v1/runs requests, naming what they store
    RunIds,         \* the run ids that can be handed out
    Absent,         \* no such entry or file
    Torn,           \* a file that is nobody's complete output
    DiskMayFail     \* whether a write can fail while the process lives on

\* The maps runs, events and features of the store, and their files.
JsonFileOf == [runs |-> "run.json", events |-> "events.json",
               features |-> "feature_rows.json"]
Maps == DOMAIN JsonFileOf

JsonFiles == {"run.json", "events.json", "feature_rows.json", "request.json"}
Exports == {"events.jsonl", "features.csv", "events.toon.jsonl"}
Files == JsonFiles \cup Exports

ASSUME FileStoreAssumption ==
    /\ Absent \notin Requests
    /\ Torn \notin Requests \cup {Absent}
    /\ DiskMayFail \in BOOLEAN

VARIABLES
    memory,     \* the three maps
    disk,       \* the files of each run directory
    mu          \* who holds the mutex for writing, Absent when free

storeVars == <<memory, disk, mu>>

StoreTypeOK ==
    /\ memory \in [Maps -> [RunIds -> Requests \cup {Absent}]]
    /\ disk \in [Files -> [RunIds -> Requests \cup {Absent, Torn}]]
    /\ mu \in Requests \cup {Absent}

EmptyMemory == [m \in Maps |-> [i \in RunIds |-> Absent]]

InitStore ==
    /\ memory = EmptyMemory
    /\ disk = [f \in Files |-> [i \in RunIds |-> Absent]]
    /\ mu = Absent

SetFile(f, i, content) == disk' = [disk EXCEPT ![f][i] = content]

\* The map entry behind a JSON file; request.json has none.
Remember(f, i, r) ==
    memory' = [m \in Maps |->
        IF JsonFileOf[m] = f THEN [memory[m] EXCEPT ![i] = r] ELSE memory[m]]

(***************************************************************************)
(* SaveRun, SaveEvents, SaveFeatureRows and SaveRunRequest: under the lock *)
(* the map entry is set first, then the file is created or truncated, then *)
(* written.                                                                *)
(***************************************************************************)
\* Wrong on purpose: only the file is written, the map is not.
SaveBeginsOnDisk(f, i, r) ==
    /\ mu = Absent
    /\ mu' = r
    /\ SetFile(f, i, Torn)
    /\ UNCHANGED memory

SaveBegins(f, i, r) ==
    /\ mu = Absent
    /\ mu' = r
    /\ Remember(f, i, r)
    /\ SetFile(f, i, Torn)

SaveEnds(f, i, r) ==
    /\ mu = r
    /\ mu' = Absent
    /\ SetFile(f, i, r)
    /\ UNCHANGED memory

\* MkdirAll or the open failed: the map keeps the entry, the file is as it was.
SaveCannotOpen(f, i, r) ==
    /\ DiskMayFail
    /\ mu = Absent
    /\ Remember(f, i, r)
    /\ UNCHANGED <<disk, mu>>

\* Wrong on purpose: the error path returns without unlocking.
SaveCutShortLocked(r) ==
    /\ DiskMayFail
    /\ mu = r
    /\ UNCHANGED storeVars

\* The write failed half-way: the map keeps the entry, the file stays torn.
SaveCutShort(r) ==
    /\ DiskMayFail
    /\ mu = r
    /\ mu' = Absent
    /\ UNCHANGED <<memory, disk>>

(***************************************************************************)
(* Put takes no lock.  If another writer has finished the file since this  *)
(* one truncated it, two different outputs may end up overlaid.            *)
(***************************************************************************)
PutBegins(f, i) == SetFile(f, i, Torn) /\ UNCHANGED <<memory, mu>>

PutEnds(f, i, content) ==
    /\ \/ SetFile(f, i, content)
       \/ disk[f][i] \notin {Torn, content} /\ SetFile(f, i, Torn)
    /\ UNCHANGED <<memory, mu>>

PutFails == DiskMayFail /\ UNCHANGED storeVars

\* GetRun, GetEvents, GetFeatureRows: a read under the read lock.
CanRead == mu = Absent
Lookup(m, i) == memory[m][i]

\* The process dies: the maps are gone, NewFileStore does not reload them, and
\* the files stay as they were found.
LoseMemory ==
    /\ memory' = EmptyMemory
    /\ mu' = Absent
    /\ UNCHANGED disk
=============================================================================
