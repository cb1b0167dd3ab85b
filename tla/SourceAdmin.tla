------------------------------ MODULE SourceAdmin ------------------------------
(***************************************************************************)
(* POST /v1/sources: internal/sourceadmin/service.go (Create, under its    *)
(* mutex) and the reload that cmd/api's handleSourceCreate does after it,  *)
(* outside any lock.  A configuration is abstracted to its set of source   *)
(* ids (equal up to case), since creating sources changes nothing else.    *)
(***************************************************************************)
EXTENDS FiniteSets

CONSTANTS
    Creators,           \* POST /v1/sources requests
    Sources,            \* source ids
    Wants,              \* the id each request asks for
    Shipped,            \* the sources in the file at first
    None,               \* no lock holder
    Mixed,              \* a configuration assigned by two writers at once
    DiskMayFail,        \* whether replacing the file can fail
    OthersMayBreak      \* whether the other configuration files may turn invalid

ASSUME SourceAdminAssumption ==
    /\ Wants \in [Creators -> Sources]
    /\ Shipped \subseteq Sources
    /\ None \notin Creators
    /\ DiskMayFail \in BOOLEAN
    /\ OthersMayBreak \in BOOLEAN

VARIABLES
    file,       \* configs/sources.yaml
    othersOK,   \* whether config.Load accepts the other files
    leftovers,  \* sources whose rollback failed to write
    up,         \* whether the API process runs
    mu,         \* the mutex of sourceadmin.Service
    config,     \* rt.Config
    serving,    \* the configuration inside rt.Service
    pc,         \* where each request is: see Stages
    original,   \* the bytes Create read, for its rollback
    reloaded,   \* what the handler's own Load returned
    raced,      \* requests whose assignment of rt.Config overlapped another
    answer      \* what each client was told

diskVars == <<file, othersOK, leftovers>>
runtimeVars == <<config, serving>>
requestVars == <<original, reloaded, raced, answer>>
vars == <<diskVars, up, mu, runtimeVars, pc, requestVars>>

Stages == {"new", "waiting", "locked", "replace", "validate", "rollback", "unlocked",
           "loaded", "assigning", "assigned", "done"}
Locked == {"locked", "replace", "validate", "rollback"}
Answers == {"none", "created", "rejected", "failed", "reload_failed", "lost"}

TypeOK ==
    /\ file \in SUBSET Sources
    /\ othersOK \in BOOLEAN
    /\ leftovers \in SUBSET Sources
    /\ up \in BOOLEAN
    /\ mu \in Creators \cup {None}
    /\ config \in (SUBSET Sources) \cup {Mixed}
    /\ serving \in SUBSET Sources
    /\ pc \in [Creators -> Stages]
    /\ original \in [Creators -> SUBSET Sources]
    /\ reloaded \in [Creators -> SUBSET Sources]
    /\ raced \in SUBSET Creators
    /\ answer \in [Creators -> Answers]

Init ==
    /\ file = Shipped
    /\ othersOK = TRUE
    /\ leftovers = {}
    /\ up = TRUE
    /\ mu = None
    /\ config = Shipped
    /\ serving = Shipped
    /\ pc = [c \in Creators |-> "new"]
    /\ original = [c \in Creators |-> {}]
    /\ reloaded = [c \in Creators |-> {}]
    /\ raced = {}
    /\ answer = [c \in Creators |-> "none"]

-----------------------------------------------------------------------------
Goto(c, stage) == pc' = [pc EXCEPT ![c] = stage]

Reply(c, what) ==
    /\ Goto(c, "done")
    /\ answer' = [answer EXCEPT ![c] = what]

\* A create unlocks what it has locked.
Unlock(c) == mu' = None

\* normalizeAndValidate refuses the input before the lock is taken.
RejectInput(c) ==
    /\ pc[c] = "new"
    /\ Reply(c, "rejected")
    /\ UNCHANGED <<diskVars, up, mu, runtimeVars, original, reloaded, raced>>

\* The input is good, and Create waits for the mutex.
AcceptInput(c) ==
    /\ pc[c] = "new"
    /\ Goto(c, "waiting")
    /\ UNCHANGED <<diskVars, up, mu, runtimeVars, requestVars>>

\* Wrong on purpose: does not wait for the mutex.
LockAnyway(c) ==
    /\ pc[c] = "waiting"
    /\ mu' = c
    /\ Goto(c, "locked")
    /\ UNCHANGED <<diskVars, up, runtimeVars, requestVars>>

Lock(c) ==
    /\ pc[c] = "waiting"
    /\ mu = None
    /\ mu' = c
    /\ Goto(c, "locked")
    /\ UNCHANGED <<diskVars, up, runtimeVars, requestVars>>

\* Wrong on purpose: does not look for the id among the existing ones.
ReadFileUnchecked(c) ==
    /\ pc[c] = "locked"
    /\ original' = [original EXCEPT ![c] = file]
    /\ Goto(c, "replace")
    /\ UNCHANGED <<diskVars, up, mu, runtimeVars, reloaded, raced, answer>>

\* loadSourcesFile, then the search for the id among the existing ones.
ReadFile(c) ==
    /\ pc[c] = "locked"
    /\ Wants[c] \notin file
    /\ original' = [original EXCEPT ![c] = file]
    /\ Goto(c, "replace")
    /\ UNCHANGED <<diskVars, up, mu, runtimeVars, reloaded, raced, answer>>

Duplicate(c) ==
    /\ pc[c] = "locked"
    /\ Wants[c] \in file
    /\ Unlock(c)
    /\ Reply(c, "rejected")
    /\ UNCHANGED <<diskVars, up, runtimeVars, original, reloaded, raced>>

\* Wrong on purpose: writes the request's own spelling, not the normalised id.
ReplaceFileRaw(c) ==
    /\ pc[c] = "replace"
    /\ file' = original[c] \cup {c}
    /\ Goto(c, "validate")
    /\ UNCHANGED <<othersOK, leftovers, up, mu, runtimeVars, requestVars>>

\* writeFileAtomically: a temporary file renamed over the old one.
ReplaceFile(c) ==
    /\ pc[c] = "replace"
    /\ file' = original[c] \cup {Wants[c]}
    /\ Goto(c, "validate")
    /\ UNCHANGED <<othersOK, leftovers, up, mu, runtimeVars, requestVars>>

\* Wrong on purpose: the error returns without unlocking.
ReplaceFailsLocked(c) ==
    /\ DiskMayFail
    /\ pc[c] \in {"locked", "replace"}
    /\ Reply(c, "failed")
    /\ UNCHANGED <<diskVars, up, mu, runtimeVars, original, reloaded, raced>>

\* Reading the file, marshalling it or replacing it fails.
ReplaceFails(c) ==
    /\ DiskMayFail
    /\ pc[c] \in {"locked", "replace"}
    /\ Unlock(c)
    /\ Reply(c, "failed")
    /\ UNCHANGED <<diskVars, up, runtimeVars, original, reloaded, raced>>

\* config.Load accepts the directory with the new file: Create succeeds.
Validated(c) ==
    /\ pc[c] = "validate"
    /\ othersOK
    /\ Unlock(c)
    /\ Goto(c, "unlocked")
    /\ UNCHANGED <<diskVars, up, runtimeVars, requestVars>>

\* Wrong on purpose: reports the failure and leaves the new file in place.
InvalidKeepsFile(c) ==
    /\ pc[c] = "validate"
    /\ ~othersOK
    /\ Unlock(c)
    /\ Reply(c, "failed")
    /\ UNCHANGED <<diskVars, up, runtimeVars, original, reloaded, raced>>

Invalid(c) ==
    /\ pc[c] = "validate"
    /\ ~othersOK
    /\ Goto(c, "rollback")
    /\ UNCHANGED <<diskVars, up, mu, runtimeVars, requestVars>>

\* The rollback's own error is ignored: the file may keep the new source.
Rollback(c) ==
    /\ pc[c] = "rollback"
    /\ \/ file' = original[c] /\ UNCHANGED leftovers
       \/ DiskMayFail /\ leftovers' = leftovers \cup {Wants[c]} /\ UNCHANGED file
    /\ Unlock(c)
    /\ Reply(c, "failed")
    /\ UNCHANGED <<othersOK, up, runtimeVars, original, reloaded, raced>>

-----------------------------------------------------------------------------
(* handleSourceCreate, after Create has returned and released the mutex.   *)

Reload(c) ==
    /\ pc[c] = "unlocked"
    /\ othersOK
    /\ reloaded' = [reloaded EXCEPT ![c] = file]
    /\ Goto(c, "loaded")
    /\ UNCHANGED <<diskVars, up, mu, runtimeVars, original, raced, answer>>

ReloadFails(c) ==
    /\ pc[c] = "unlocked"
    /\ ~othersOK
    /\ Reply(c, "reload_failed")
    /\ UNCHANGED <<diskVars, up, mu, runtimeVars, original, reloaded, raced>>

\* s.rt.Config = reloaded copies a large struct with no synchronisation.
BeginAssign(c) ==
    /\ pc[c] = "loaded"
    /\ LET others == {d \in Creators : pc[d] = "assigning"}
       IN  raced' = IF others = {} THEN raced \ {c} ELSE raced \cup others \cup {c}
    /\ Goto(c, "assigning")
    /\ UNCHANGED <<diskVars, up, mu, runtimeVars, original, reloaded, answer>>

EndAssign(c) ==
    /\ pc[c] = "assigning"
    /\ \/ config' = reloaded[c]
       \/ c \in raced /\ config' = Mixed
    /\ Goto(c, "assigned")
    /\ UNCHANGED <<diskVars, up, mu, serving, requestVars>>

\* s.rt.Service = engine.NewService(reloaded, s.rt.Store), then 201.
AssignService(c) ==
    /\ pc[c] = "assigned"
    /\ serving' = reloaded[c]
    /\ Reply(c, "created")
    /\ UNCHANGED <<diskVars, up, mu, config, original, reloaded, raced>>

-----------------------------------------------------------------------------
\* cmd/entities-sync rewrites another file of the directory in place, and
\* leaves one config.Load rejects, or repairs it (EntitiesSync says how).
OthersChange ==
    /\ OthersMayBreak
    /\ othersOK' = ~othersOK
    /\ UNCHANGED <<file, leftovers, up, mu, runtimeVars, pc, requestVars>>

Crash ==
    /\ up
    /\ up' = FALSE
    /\ mu' = None
    /\ LET hit == {c \in Creators : pc[c] \notin {"new", "done"}}
       IN  /\ pc' = [c \in Creators |-> IF c \in hit THEN "done" ELSE pc[c]]
           /\ answer' = [c \in Creators |-> IF c \in hit THEN "lost" ELSE answer[c]]
    /\ UNCHANGED <<diskVars, runtimeVars, original, reloaded, raced>>

\* engine.Bootstrap: no process without a valid configuration.
Boot ==
    /\ ~up
    /\ othersOK
    /\ up' = TRUE
    /\ config' = file
    /\ serving' = file
    /\ UNCHANGED <<diskVars, mu, pc, requestVars>>

\* Service.Create, up to its return.
Create(c) ==
    \/ RejectInput(c) \/ AcceptInput(c) \/ Lock(c) \/ ReadFile(c) \/ Duplicate(c)
    \/ ReplaceFile(c) \/ ReplaceFails(c) \/ Validated(c) \/ Invalid(c) \/ Rollback(c)

Handle(c) ==
    /\ up
    /\ \/ Create(c) \/ Reload(c) \/ ReloadFails(c)
       \/ BeginAssign(c) \/ EndAssign(c) \/ AssignService(c)

Next == (\E c \in Creators : Handle(c)) \/ OthersChange \/ Crash \/ Boot

Spec == Init /\ [][Next]_vars

\* A handler that was called runs on; a mutex that keeps being released is
\* eventually granted (Go's starvation mode).  Nobody has to call.
FairSpec == Spec /\ \A c \in Creators : SF_vars(pc[c] # "new" /\ Handle(c))

-----------------------------------------------------------------------------
\* The client of every source that is reported as created finds it in the
\* file for good: no concurrent create, rollback or crash takes it out again.
CreatedSourcesPersist ==
    \A c \in Creators :
        answer[c] \in {"created", "reload_failed"} => Wants[c] \in file

\* Two requests for one id never both succeed, and nothing shipped is lost.
OneCreatorPerSource ==
    /\ \A c, d \in Creators :
        c # d /\ Wants[c] = Wants[d] => ~(answer[c] = "created" /\ answer[d] = "created")
    /\ Shipped \subseteq file

\* A create that failed leaves no trace in the file, whatever the other requests
\* wrote before and after its rollback, unless the rollback itself could not
\* write (its error is ignored).
FailedSourcesRolledBack ==
    \A s \in Sources \ (Shipped \cup leftovers) :
        (\A c \in Creators : Wants[c] = s => answer[c] \in {"rejected", "failed"})
            => s \notin file

\* The README's "reloads runtime config so the source appears immediately":
\* a source whose creation was answered with 201 is in the configuration that
\* the running process serves, at the latest when the other requests are over
\* (and setting aside an assignment two of them tore).
CreatedSourcesAppear ==
    /\ up
    /\ config # Mixed
    /\ \A c \in Creators : pc[c] \in {"new", "done"}
    => \A c \in Creators : answer[c] = "created" => Wants[c] \in config

\* Requests that are being handled, or wait for the mutex, get an answer, unless
\* the process dies: no path through Create keeps the mutex.
CreatesAnswered ==
    \A c \in Creators : pc[c] \notin {"new", "done"} ~> pc[c] = "done" \/ ~up
=============================================================================
