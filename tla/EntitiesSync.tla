----------------------------- MODULE EntitiesSync -----------------------------
(***************************************************************************)
(* cmd/entities-sync beside the running API of SourceAdmin: both work on   *)
(* one configuration directory, in two processes that share no lock.  The  *)
(* sync loads the directory, merges the rows of a bhavcopy into            *)
(* entities.custom.yaml, writes that file in place and loads the directory *)
(* again.  What config.Load accepts is the validity that SourceAdmin knows *)
(* as othersOK.  Syncs are started by hand, one after another.             *)
(***************************************************************************)
EXTENDS SourceAdmin, SequencesExt, Naturals

CONSTANTS
    Alphabet,           \* the symbols, in the order they are written in
    ByName,             \* those that are names, of entities without a symbol
    Missing,            \* no entity of a symbol counts
    Garbled,            \* a file that is not YAML
    DefaultEntities,    \* entities.niftyit.yaml
    ShippedEntities,    \* entities.custom.yaml at first
    Groups,             \* <<parent, child>> of entity_groups.yaml
    Indexes,            \* NIFTIT and NIFTBANK
    Bhavcopies,         \* the sets of symbols a bhavcopy lists in series EQ
    MaxSyncs            \* bound: syncs in a behaviour

Symbols == {Alphabet[i] : i \in 1..Len(Alphabet)}
Entities == [role : {"parent", "child", "none"}, enabled : BOOLEAN]

\* A file of entities: what it lists under each symbol, in its order.
Universes == [Symbols -> Seq(Entities)]

VARIABLES
    custom,         \* the content of entities.custom.yaml
    sync,           \* where the sync is: "idle" or "writing"
    payload,        \* the entities it is writing
    outcome,        \* how the last sync ended
    syncs,          \* syncs so far, for the bound alone
    cutShort        \* whether a sync ever stopped in the middle of its write

syncVars == <<sync, payload, outcome, syncs, cutShort>>
entityVars == <<custom, syncVars>>
allVars == <<vars, entityVars>>

Empty == [s \in Symbols |-> <<>>]

-----------------------------------------------------------------------------
(* What config.Load makes of the entity files.                             *)

\* Of the entries of one symbol, or of one name where there is no symbol, the
\* last that is enabled counts; the custom file comes after the default one.
EffectiveEntities(universe) ==
    [s \in Symbols |->
        LET enabled == SelectSeq(DefaultEntities[s] \o universe[s], LAMBDA e : e.enabled)
        IN  IF enabled = <<>> THEN Missing ELSE Last(enabled)]

HasRole(entity, role) == entity # Missing /\ entity.role = role

GroupsHold(effective) ==
    \A g \in Groups : HasRole(effective[g[1]], "parent") /\ HasRole(effective[g[2]], "child")

\* validate: some entity counts, and the groups find their parents and children.
Loadable(content) ==
    /\ content # Garbled
    /\ \E s \in Symbols : EffectiveEntities(content)[s] # Missing
    /\ GroupsHold(EffectiveEntities(content))

ASSUME EntitiesSyncAssumption ==
    /\ OthersMayBreak
    /\ MaxSyncs \in Nat
    /\ DefaultEntities \in Universes
    /\ ShippedEntities \in Universes
    /\ ByName \subseteq Symbols
    /\ Indexes \subseteq Symbols \ ByName
    /\ Bhavcopies \subseteq SUBSET (Symbols \ ByName)
    /\ Groups \subseteq (Symbols \ ByName) \X (Symbols \ ByName)
    /\ Missing \notin Entities
    /\ Garbled \notin Universes
    /\ Loadable(ShippedEntities)

-----------------------------------------------------------------------------
(* NormalizeBhavcopyRows: the last entry of a symbol is the existing one,  *)
(* and an entity without a symbol is dropped.  A row builds a new entity,   *)
(* which takes only the id, the texts, the type and the switch of the       *)
(* existing one.                                                            *)

\* Wrong on purpose: every listed symbol is switched on.
MergedRowEnables(entries) == [role |-> "none", enabled |-> TRUE]

MergedRow(entries) ==
    [role |-> "none", enabled |-> entries = <<>> \/ Last(entries).enabled]

IndexEntry(entries) ==
    IF entries = <<>>
    THEN [role |-> "none", enabled |-> TRUE]
    ELSE [Last(entries) EXCEPT !.enabled = TRUE]

LastOnly(entries) == IF entries = <<>> THEN <<>> ELSE <<Last(entries)>>

\* Wrong on purpose: writes the listed symbols alone.
NormalizeRowsAlone(rows, existing) == [s \in rows |-> <<MergedRow(existing[s])>>]

NormalizeBhavcopyRows(rows, existing) ==
    LET merged == [s \in Symbols |->
            CASE s \in ByName -> <<>>
              [] s \in rows -> <<MergedRow(existing[s])>>
              [] OTHER -> LastOnly(existing[s])]
    IN  [s \in Symbols |-> IF s \in Indexes THEN <<IndexEntry(merged[s])>> ELSE merged[s]]

\* What can be read of a file whose first symbols alone are written: the entity
\* the end falls into is read without its last key, which is "enabled", and so
\* counts for nothing, and a line that breaks off makes the file unreadable.
Cuts(universe) ==
    {Garbled} \cup
    UNION {LET whole == {Alphabet[j] : j \in 1..(i - 1)}
               kept(last) == [s \in Symbols |->
                    CASE s \in whole -> universe[s]
                      [] s = Alphabet[i] /\ universe[s] # <<>> -> last
                      [] OTHER -> <<>>]
           IN  {kept(<<>>), kept(<<[role |-> "none", enabled |-> FALSE]>>)} :
           i \in 1..Len(Alphabet)}

-----------------------------------------------------------------------------
SyncTypeOK ==
    /\ custom \in Universes \cup {Garbled}
    /\ sync \in {"idle", "writing"}
    /\ payload \in Universes
    /\ outcome \in {"none", "synced", "rejected", "stopped"}
    /\ syncs \in 0..MaxSyncs
    /\ cutShort \in BOOLEAN
    /\ othersOK = Loadable(custom)

SyncInit ==
    /\ Init
    /\ custom = ShippedEntities
    /\ sync = "idle"
    /\ payload = Empty
    /\ outcome = "none"
    /\ syncs = 0
    /\ cutShort = FALSE

\* Another content of the file is another verdict of config.Load.
Rewrite(content) ==
    /\ custom' = content
    /\ othersOK' = Loadable(content)

Beside == UNCHANGED <<file, leftovers, up, mu, runtimeVars, pc, requestVars>>

\* The directory loads, the bhavcopy is fetched, parsed and merged, and
\* os.WriteFile truncates the file: an empty file is valid YAML.  Nobody else
\* writes the file, so all this is one step.  When Load, the fetch or the
\* parsing fails the command ends and has changed nothing.
BeginWrite ==
    /\ sync = "idle"
    /\ syncs < MaxSyncs
    /\ othersOK
    /\ \E rows \in Bhavcopies : payload' = NormalizeBhavcopyRows(rows, custom)
    /\ Rewrite(Empty)
    /\ sync' = "writing"
    /\ syncs' = syncs + 1
    /\ UNCHANGED <<outcome, cutShort>>
    /\ Beside

WriteSome ==
    /\ sync = "writing"
    /\ \E content \in Cuts(payload) : Rewrite(content)
    /\ UNCHANGED syncVars
    /\ Beside

EndSync(how) ==
    /\ sync' = "idle"
    /\ payload' = Empty
    /\ outcome' = how
    /\ UNCHANGED syncs
    /\ Beside

\* The file is whole, and the command loads the directory once more: it reports
\* what it finds and leaves it.
EndWrite ==
    /\ sync = "writing"
    /\ Rewrite(payload)
    /\ EndSync(IF Loadable(payload) THEN "synced" ELSE "rejected")
    /\ UNCHANGED cutShort

\* The write fails or the command is killed: the file stays as it is.
CutShort ==
    /\ DiskMayFail
    /\ sync = "writing"
    /\ cutShort' = TRUE
    /\ EndSync("stopped")
    /\ UNCHANGED <<custom, othersOK>>

SyncStep == BeginWrite \/ WriteSome \/ EndWrite \/ CutShort

-----------------------------------------------------------------------------
(* The API, as SourceAdmin has it.                                         *)

\* Wrong on purpose: the error of config.Load is ignored at the start.
BootAnyway ==
    /\ ~up
    /\ up' = TRUE
    /\ config' = file
    /\ serving' = file
    /\ UNCHANGED <<diskVars, mu, pc, requestVars, entityVars>>

BootBesideSync == Boot /\ UNCHANGED entityVars
CrashBesideSync == Crash /\ UNCHANGED entityVars
HandleBesideSync(c) == Handle(c) /\ UNCHANGED entityVars

SyncNext ==
    \/ SyncStep
    \/ \E c \in Creators : HandleBesideSync(c)
    \/ CrashBesideSync
    \/ BootBesideSync

SyncSpec == SyncInit /\ [][SyncNext]_allVars

\* As in SourceAdmin; nobody has to start a sync or to end it.
FairSyncSpec ==
    SyncSpec /\ \A c \in Creators : SF_allVars(pc[c] # "new" /\ HandleBesideSync(c))

-----------------------------------------------------------------------------
\* The API beside any number of syncs behaves as SourceAdmin says: a sync does
\* to it no more than to turn the verdict of config.Load.
ImplementsSourceAdmin == Spec

\* Every symbol that was shipped is still there, and on or off as its last entry
\* was (an index is always switched on).
Kept(universe) ==
    \A s \in Symbols \ ByName : ShippedEntities[s] # <<>> =>
        /\ universe[s] # <<>>
        /\ s \notin Indexes => Last(universe[s]).enabled = Last(ShippedEntities[s]).enabled

\* One entry of a symbol, none without a symbol, and the indexes switched on.
Normalized(universe) ==
    /\ \A s \in Symbols : Len(universe[s]) <= 1
    /\ \A s \in ByName : universe[s] = <<>>
    /\ \A s \in Indexes : universe[s] # <<>> /\ Last(universe[s]).enabled

\* After every sequence of syncs none of which stopped in the middle of its write,
\* the rejected ones included, the shipped symbols are kept, and after the first
\* sync the file is normalized (NormalizeBhavcopyRows).  What a sync does take
\* away from config.Load is said here too: an entity without a symbol, which
\* counted by its name, and an enabled entry with a disabled one after it.
UniverseKept ==
    sync = "idle" /\ ~cutShort =>
        /\ custom # Garbled
        /\ Kept(custom)
        /\ syncs > 0 => Normalized(custom)

\* The sync "upserts into configs/entities.custom.yaml by symbol" (README) and
\* loads the directory it loaded before once more: what it writes without being
\* disturbed is accepted.
SyncKeepsConfigLoadable == outcome # "rejected"
=============================================================================
