--------------------------- MODULE ConfigDir_proofs ---------------------------
(* Theorems about the two writers of the configuration directory: creating
   sources, for any number of requests and sources, any crashes and any
   failures of the disk or of the other files, and the sync beside it, for any
   universes, groups and bhavcopies. *)
EXTENDS EntitiesSync, TLAPS

-----------------------------------------------------------------------------
(* Creating sources.                                                        *)

\* A request whose source has passed validation and is in the file for good.
Settled(c) ==
    \/ pc[c] \in {"unlocked", "loaded", "assigning", "assigned"}
    \/ answer[c] \in {"created", "reload_failed"}

\* A request that has read the file and holds the lock over what it read.
Editing(c) == pc[c] \in {"replace", "validate", "rollback"}

\* The mutex is held by whoever is in Create's critical section.
LockHeld == \A c \in Creators : pc[c] \in Locked => mu = c

\* What an editor read is what the file still is but for its own source, and
\* it holds everything that must not be lost by the replacement or rollback.
EditorsKeep ==
    \A c \in Creators : Editing(c) =>
        /\ file = IF pc[c] = "replace" THEN original[c] ELSE original[c] \cup {Wants[c]}
        /\ Wants[c] \notin original[c]
        /\ Shipped \subseteq original[c]
        /\ \A d \in Creators : Settled(d) => Wants[d] \in original[c]

SettledKept ==
    /\ Shipped \subseteq file
    /\ \A c \in Creators : Settled(c) => Wants[c] \in file
    /\ \A c, d \in Creators : c # d /\ Settled(c) /\ Settled(d) => Wants[c] # Wants[d]

SourceInv == TypeOK /\ LockHeld /\ EditorsKeep /\ SettledKept

\* A request whose source may be in the file: it was written, or its client
\* cannot know.
Witness(c) ==
    Settled(c) \/ pc[c] \in {"validate", "rollback"} \/ answer[c] = "lost"

\* Every source in the file was shipped, was left by a rollback that could not
\* write, or has such a request.
FileExplained ==
    \A s \in file \ (Shipped \cup leftovers) :
        \E c \in Creators : Wants[c] = s /\ Witness(c)

AnsweredWhenDone == \A c \in Creators : pc[c] # "done" => answer[c] = "none"

TraceInv == SourceInv /\ FileExplained /\ AnsweredWhenDone

\* It holds at the start.
LEMMA SourceInit == Init => SourceInv
BY SourceAdminAssumption
DEF Init, SourceInv, TypeOK, LockHeld, EditorsKeep, SettledKept, Settled, Editing,
    Stages, Locked, Answers

\* A step that leaves the file alone and settles nobody keeps the invariant if
\* it lets nobody into the critical section.
LEMMA NothingNew ==
    ASSUME SourceInv, TypeOK', file' = file, original' = original,
           \A d \in Creators : Settled(d)' => Settled(d),
           \A d \in Creators : pc'[d] \in Locked => pc'[d] = pc[d] /\ mu' = mu
    PROVE  SourceInv'
<1>1. LockHeld'
    BY DEF SourceInv, LockHeld
<1>2. \A d \in Creators : Editing(d)' => Editing(d) /\ pc'[d] = pc[d]
    BY DEF Editing, Locked
<1>3. EditorsKeep'
    BY <1>2 DEF SourceInv, EditorsKeep
<1>4. SettledKept'
    BY DEF SourceInv, SettledKept
<1>5. QED  BY <1>1, <1>3, <1>4 DEF SourceInv

\* No step of a handler, of a crash or of another program breaks it.
LEMMA SourceStep == SourceInv /\ [Next]_vars => SourceInv'
<1> SUFFICES ASSUME SourceInv, [Next]_vars  PROVE SourceInv'
    OBVIOUS
<1> USE DEF diskVars, runtimeVars, requestVars
<1>1. /\ TypeOK /\ LockHeld
      /\ pc \in [Creators -> Stages] /\ answer \in [Creators -> Answers]
      /\ original \in [Creators -> SUBSET Sources] /\ file \in SUBSET Sources
    BY DEF SourceInv, TypeOK
<1>2. ASSUME NEW c \in Creators, NEW what \in {"rejected", "failed", "lost"}, Reply(c, what),
             TypeOK', UNCHANGED <<file, original>>, pc[c] \notin Locked => mu' = mu
      PROVE  SourceInv'
    <2>1. \A d \in Creators : Settled(d)' => Settled(d)
        BY <1>1, <1>2 DEF Reply, Goto, Settled
    <2>2. \A d \in Creators : pc'[d] \in Locked => pc'[d] = pc[d] /\ d # c
        BY <1>1, <1>2 DEF Reply, Goto, Locked
    <2>3. \A d \in Creators : pc'[d] \in Locked => mu' = mu
        BY <1>1, <1>2, <2>2 DEF LockHeld
    <2>4. QED  BY <1>2, <2>1, <2>2, <2>3, NothingNew
<1>3. ASSUME NEW c \in Creators, RejectInput(c)
      PROVE  SourceInv'
    <2>1. TypeOK'
        BY <1>1, <1>3 DEF RejectInput, Reply, Goto, TypeOK, Stages, Answers
    <2>2. QED  BY <1>2, <1>3, <2>1 DEF RejectInput
<1>4. ASSUME NEW c \in Creators, Lock(c)
      PROVE  SourceInv'
    <2>1. TypeOK'
        BY <1>1, <1>4 DEF Lock, Goto, TypeOK, Stages
    <2>2. \A d \in Creators : pc[d] \notin Locked
        BY <1>1, <1>4, SourceAdminAssumption DEF Lock, LockHeld
    <2>3. pc' = [pc EXCEPT ![c] = "locked"] /\ mu' = c /\ UNCHANGED <<file, original, answer>>
        BY <1>4 DEF Lock, Goto
    <2>4. LockHeld'
        BY <1>1, <2>2, <2>3 DEF LockHeld
    <2>5. \A d \in Creators : ~Editing(d)'
        BY <1>1, <2>2, <2>3 DEF Editing, Locked
    <2>6. \A d \in Creators : Settled(d)' => Settled(d)
        BY <1>1, <2>3 DEF Settled
    <2>7. QED
        BY <2>1, <2>3, <2>4, <2>5, <2>6 DEF SourceInv, EditorsKeep, SettledKept
<1>5. ASSUME NEW c \in Creators, pc[c] \in Locked, pc'[c] \in Locked,
             \A d \in Creators \ {c} : pc'[d] = pc[d],
             mu' = mu, answer' = answer
      PROVE  /\ LockHeld'
             /\ \A d \in Creators : Editing(d)' => d = c
             /\ \A d \in Creators : Settled(d)' <=> Settled(d)
    <2>1. LockHeld'
        BY <1>1, <1>5 DEF LockHeld
    <2>2. \A d \in Creators \ {c} : pc[d] \notin Locked
        BY <1>1, <1>5 DEF LockHeld
    <2>3. \A d \in Creators : Editing(d)' => d = c
        BY <1>5, <2>2 DEF Editing, Locked
    <2>4. \A d \in Creators : Settled(d)' <=> Settled(d)
        BY <1>5 DEF Settled, Locked
    <2>5. QED  BY <2>1, <2>3, <2>4
<1>6. ASSUME NEW c \in Creators, ReadFile(c)
      PROVE  SourceInv'
    <2>1. TypeOK'
        BY <1>1, <1>6 DEF ReadFile, Goto, TypeOK, Stages
    <2>2. /\ pc' = [pc EXCEPT ![c] = "replace"] /\ pc[c] = "locked"
          /\ original' = [original EXCEPT ![c] = file] /\ Wants[c] \notin file
          /\ UNCHANGED <<file, mu, answer>>
        BY <1>6 DEF ReadFile, Goto
    <2>3. pc'[c] = "replace" /\ original'[c] = file
        BY <1>1, <2>2
    <2>4. /\ LockHeld'
          /\ \A d \in Creators : Editing(d)' => d = c
          /\ \A d \in Creators : Settled(d)' <=> Settled(d)
        BY <1>1, <1>5, <2>2 DEF Locked
    <2>5. QED
        BY <2>1, <2>2, <2>3, <2>4 DEF SourceInv, EditorsKeep, SettledKept
<1>7. ASSUME NEW c \in Creators, Duplicate(c)
      PROVE  SourceInv'
    <2>1. TypeOK'
        BY <1>1, <1>7 DEF Duplicate, Unlock, Reply, Goto, TypeOK, Stages, Answers
    <2>2. QED  BY <1>2, <1>7, <2>1 DEF Duplicate, Locked
<1>8. ASSUME NEW c \in Creators, ReplaceFile(c)
      PROVE  SourceInv'
    <2>1. Wants[c] \in Sources
        BY SourceAdminAssumption
    <2>2. TypeOK'
        BY <1>1, <1>8, <2>1 DEF ReplaceFile, Goto, TypeOK, Stages
    <2>3. /\ pc' = [pc EXCEPT ![c] = "validate"] /\ pc[c] = "replace" /\ pc'[c] = "validate"
          /\ file' = original[c] \cup {Wants[c]} /\ UNCHANGED <<original, mu, answer>>
        BY <1>1, <1>8 DEF ReplaceFile, Goto
    <2>4. /\ LockHeld'
          /\ \A d \in Creators : Editing(d)' => d = c
          /\ \A d \in Creators : Settled(d)' <=> Settled(d)
        BY <1>1, <1>5, <2>3 DEF Locked
    <2>5. Editing(c) /\ file = original[c]
        BY <2>3 DEF SourceInv, EditorsKeep, Editing
    <2>6. QED
        BY <2>2, <2>3, <2>4, <2>5 DEF SourceInv, EditorsKeep, SettledKept
<1>9. ASSUME NEW c \in Creators, ReplaceFails(c)
      PROVE  SourceInv'
    <2>1. TypeOK'
        BY <1>1, <1>9 DEF ReplaceFails, Unlock, Reply, Goto, TypeOK, Stages, Answers
    <2>2. QED  BY <1>2, <1>9, <2>1 DEF ReplaceFails, Locked
<1>10. ASSUME NEW c \in Creators, Validated(c)
       PROVE  SourceInv'
    <2>1. TypeOK'
        BY <1>1, <1>10 DEF Validated, Unlock, Goto, TypeOK, Stages
    <2>2. /\ pc' = [pc EXCEPT ![c] = "unlocked"] /\ pc[c] = "validate"
          /\ UNCHANGED <<file, original, answer>>
        BY <1>10 DEF Validated, Goto
    <2>3. \A d \in Creators : pc'[d] \notin Locked
        BY <1>1, <2>2 DEF LockHeld, Locked
    <2>4. LockHeld' /\ EditorsKeep'
        BY <2>3 DEF LockHeld, EditorsKeep, Editing, Locked
    <2>5. \A d \in Creators : Settled(d)' => d = c \/ Settled(d)
        BY <1>1, <2>2 DEF Settled
    <2>6. /\ file = original[c] \cup {Wants[c]} /\ Wants[c] \notin original[c]
          /\ \A d \in Creators : Settled(d) => Wants[d] \in original[c]
        BY <2>2 DEF SourceInv, EditorsKeep, Editing
    <2>7. SettledKept'
        BY <2>2, <2>5, <2>6 DEF SourceInv, SettledKept
    <2>8. QED  BY <2>1, <2>4, <2>7 DEF SourceInv
<1>11. ASSUME NEW c \in Creators, Invalid(c)
       PROVE  SourceInv'
    <2>1. TypeOK'
        BY <1>1, <1>11 DEF Invalid, Goto, TypeOK, Stages
    <2>2. /\ pc' = [pc EXCEPT ![c] = "rollback"] /\ pc[c] = "validate" /\ pc'[c] = "rollback"
          /\ UNCHANGED <<file, original, mu, answer>>
        BY <1>1, <1>11 DEF Invalid, Goto
    <2>3. /\ LockHeld'
          /\ \A d \in Creators : Editing(d)' => d = c
          /\ \A d \in Creators : Settled(d)' <=> Settled(d)
        BY <1>1, <1>5, <2>2 DEF Locked
    <2>4. Editing(c)
        BY <2>2 DEF Editing
    <2>5. QED
        BY <2>1, <2>2, <2>3, <2>4 DEF SourceInv, EditorsKeep, SettledKept
<1>12. ASSUME NEW c \in Creators, Rollback(c)
       PROVE  SourceInv'
    <2>1. TypeOK'
        <3>1. /\ Wants[c] \in Sources /\ original[c] \in SUBSET Sources
              /\ mu' = None
              /\ pc' = [pc EXCEPT ![c] = "done"] /\ answer' = [answer EXCEPT ![c] = "failed"]
              /\ UNCHANGED <<othersOK, up, config, serving, original, reloaded, raced>>
            BY <1>1, <1>12, SourceAdminAssumption
            DEF Rollback, Unlock, Reply, Goto, TypeOK, runtimeVars
        <3>2. file' \in SUBSET Sources /\ leftovers' \in SUBSET Sources
            BY <1>1, <1>12, <3>1 DEF Rollback, TypeOK
        <3>3. QED  BY <1>1, <3>1, <3>2 DEF TypeOK, Stages, Answers
    <2>2. /\ pc' = [pc EXCEPT ![c] = "done"] /\ answer' = [answer EXCEPT ![c] = "failed"]
          /\ pc[c] = "rollback" /\ UNCHANGED original
          /\ file' = original[c] \/ file' = file
        BY <1>12 DEF Rollback, Reply, Goto
    <2>3. \A d \in Creators : pc'[d] \notin Locked
        BY <1>1, <2>2 DEF LockHeld, Locked
    <2>4. LockHeld' /\ EditorsKeep'
        BY <2>3 DEF LockHeld, EditorsKeep, Editing, Locked
    <2>5. \A d \in Creators : Settled(d)' => Settled(d)
        BY <1>1, <2>2 DEF Settled
    <2>6. /\ Shipped \subseteq original[c]
          /\ \A d \in Creators : Settled(d) => Wants[d] \in original[c]
        BY <2>2 DEF SourceInv, EditorsKeep, Editing
    <2>7. SettledKept'
        BY <2>2, <2>5, <2>6 DEF SourceInv, SettledKept
    <2>8. QED  BY <2>1, <2>4, <2>7 DEF SourceInv
<1>13. ASSUME NEW c \in Creators,
              Reload(c) \/ ReloadFails(c) \/ BeginAssign(c) \/ EndAssign(c) \/ AssignService(c)
       PROVE  SourceInv'
    <2>1. TypeOK'
        <3>1. CASE Reload(c)
            BY <1>1, <3>1 DEF Reload, Goto, TypeOK, Stages
        <3>2. CASE ReloadFails(c)
            BY <1>1, <3>2 DEF ReloadFails, Reply, Goto, TypeOK, Stages, Answers
        <3>3. CASE BeginAssign(c)
            BY <1>1, <3>3 DEF BeginAssign, Goto, TypeOK, Stages
        <3>4. CASE EndAssign(c)
            BY <1>1, <3>4 DEF EndAssign, Goto, TypeOK, Stages
        <3>5. CASE AssignService(c)
            BY <1>1, <3>5 DEF AssignService, Reply, Goto, TypeOK, Stages, Answers
        <3>6. QED  BY <1>13, <3>1, <3>2, <3>3, <3>4, <3>5
    <2>2. UNCHANGED <<file, original, mu>>
        BY <1>13 DEF Reload, ReloadFails, BeginAssign, EndAssign, AssignService
    <2>3. Settled(c)
        BY <1>13 DEF Reload, ReloadFails, BeginAssign, EndAssign, AssignService, Settled
    <2>4. \A d \in Creators \ {c} : pc'[d] = pc[d] /\ answer'[d] = answer[d]
        BY <1>1, <1>13
        DEF Reload, ReloadFails, BeginAssign, EndAssign, AssignService, Reply, Goto
    <2>5. pc'[c] \notin Locked
        BY <1>1, <1>13
        DEF Reload, ReloadFails, BeginAssign, EndAssign, AssignService, Reply, Goto, Locked
    <2>6. \A d \in Creators : Settled(d)' => Settled(d)
        BY <2>3, <2>4 DEF Settled
    <2>7. QED  BY <2>1, <2>2, <2>4, <2>5, <2>6, NothingNew
<1>14. ASSUME NEW c \in Creators, AcceptInput(c)
       PROVE  SourceInv'
    <2>1. TypeOK'
        BY <1>1, <1>14 DEF AcceptInput, Goto, TypeOK, Stages
    <2>2. /\ UNCHANGED <<file, original, mu, answer>>
          /\ \A d \in Creators \ {c} : pc'[d] = pc[d]
          /\ pc'[c] = "waiting"
        BY <1>1, <1>14 DEF AcceptInput, Goto
    <2>3. \A d \in Creators : Settled(d)' => Settled(d)
        BY <2>2 DEF Settled
    <2>4. \A d \in Creators : pc'[d] \in Locked => pc'[d] = pc[d]
        BY <2>2 DEF Locked
    <2>5. QED  BY <2>1, <2>2, <2>3, <2>4, NothingNew
<1>15. CASE OthersChange
    <2>1. TypeOK'
        BY <1>1, <1>15 DEF OthersChange, TypeOK
    <2>2. QED  BY <1>15, <2>1, NothingNew DEF OthersChange, Settled
<1>16. CASE Crash
    <2>1. TypeOK'
        BY <1>1, <1>16 DEF Crash, TypeOK, Stages, Answers
    <2>2. \A d \in Creators : pc'[d] \in {"new", "done"}
        BY <1>1, <1>16 DEF Crash
    <2>3. \A d \in Creators : Settled(d)' => Settled(d)
        BY <1>1, <1>16 DEF Crash, Settled
    <2>4. QED  BY <1>16, <2>1, <2>2, <2>3, NothingNew DEF Crash, Locked
<1>17. CASE Boot
    <2>1. TypeOK'
        BY <1>1, <1>17 DEF Boot, TypeOK
    <2>2. QED  BY <1>17, <2>1, NothingNew DEF Boot, Settled
<1>18. CASE UNCHANGED vars
    <2>1. TypeOK'
        BY <1>1, <1>18 DEF vars, TypeOK
    <2>2. QED  BY <1>18, <2>1, NothingNew DEF vars, Settled
<1>19. QED
    BY <1>3, <1>4, <1>6, <1>7, <1>8, <1>9, <1>10, <1>11, <1>12, <1>13, <1>15, <1>16,
       <1>17, <1>18, <1>14
    DEF Next, Handle, Create

\* The state of the sources and of the requests for them is always well typed.
THEOREM SourceTypeOK == Spec => []TypeOK
<1>1. SourceInv => TypeOK
    BY DEF SourceInv
<1>2. QED  BY <1>1, SourceInit, SourceStep, PTL DEF Spec

\* A source whose creation was answered with success stays in the file,
\* whatever other requests, rollbacks, failures and crashes follow.
THEOREM SourcesPersist == Spec => []CreatedSourcesPersist
<1>1. SourceInv => CreatedSourcesPersist
    BY DEF SourceInv, SettledKept, Settled, CreatedSourcesPersist
<1>2. QED  BY <1>1, SourceInit, SourceStep, PTL DEF Spec

\* Two requests for one source never both succeed, and no request or rollback
\* takes out a source the file was shipped with.
THEOREM OneCreator == Spec => []OneCreatorPerSource
<1>1. SourceInv => OneCreatorPerSource
    BY DEF SourceInv, SettledKept, Settled, OneCreatorPerSource
<1>2. QED  BY <1>1, SourceInit, SourceStep, PTL DEF Spec
-----------------------------------------------------------------------------

\* It holds at the start.
LEMMA TraceInit == Init => TraceInv
BY SourceInit DEF Init, TraceInv, FileExplained, AnsweredWhenDone

\* A step that adds nothing to the file keeps it explained if it takes away no
\* witness.
LEMMA WitnessesKept ==
    ASSUME FileExplained, file' \subseteq file, leftovers \subseteq leftovers',
           \A c \in Creators : Witness(c) => Witness(c)'
    PROVE  FileExplained'
BY DEF FileExplained

\* No step leaves a source in the file that nobody answers for.
LEMMA TraceStep == TraceInv /\ [Next]_vars => TraceInv'
<1> SUFFICES ASSUME TraceInv, [Next]_vars  PROVE FileExplained' /\ AnsweredWhenDone'
    BY SourceStep DEF TraceInv
<1> USE DEF diskVars, runtimeVars, requestVars
<1>1. /\ FileExplained /\ AnsweredWhenDone /\ SourceInv /\ EditorsKeep
      /\ pc \in [Creators -> Stages] /\ answer \in [Creators -> Answers]
    BY DEF TraceInv, SourceInv, TypeOK
<1>2. ASSUME NEW c \in Creators, NEW what \in Answers \ {"none"}, Reply(c, what)
      PROVE  /\ AnsweredWhenDone'
             /\ pc'[c] = "done" /\ answer'[c] = what
             /\ \A d \in Creators \ {c} : Witness(d) => Witness(d)'
    BY <1>1, <1>2 DEF Reply, Goto, AnsweredWhenDone, Witness, Settled
<1>3. ASSUME NEW c \in Creators, NEW stage \in Stages \ {"done"}, Goto(c, stage),
             pc[c] # "done", answer' = answer
      PROVE  /\ AnsweredWhenDone'
             /\ pc'[c] = stage /\ answer'[c] = "none"
             /\ \A d \in Creators \ {c} : Witness(d) => Witness(d)'
    BY <1>1, <1>3 DEF Goto, AnsweredWhenDone, Witness, Settled
\* Before the file is written: nobody needs the request as a witness.
<1>4. ASSUME NEW c \in Creators,
             \/ RejectInput(c) \/ AcceptInput(c) \/ Lock(c) \/ ReadFile(c) \/ Duplicate(c)
             \/ ReplaceFails(c)
      PROVE  FileExplained' /\ AnsweredWhenDone'
    <2>1. AnsweredWhenDone' /\ \A d \in Creators \ {c} : Witness(d) => Witness(d)'
        BY <1>2, <1>3, <1>4
        DEF RejectInput, AcceptInput, Lock, ReadFile, Duplicate, ReplaceFails, Stages, Answers
    <2>2. pc[c] \in {"new", "waiting", "locked", "replace"} /\ UNCHANGED <<file, leftovers>>
        BY <1>4
        DEF RejectInput, AcceptInput, Lock, ReadFile, Duplicate, ReplaceFails
    <2>3. ~ Witness(c)
        BY <1>1, <2>2 DEF AnsweredWhenDone, Witness, Settled
    <2>4. QED  BY <1>1, <2>1, <2>2, <2>3, WitnessesKept
<1>5. ASSUME NEW c \in Creators,
             \/ Validated(c) \/ Invalid(c) \/ Reload(c) \/ ReloadFails(c)
             \/ BeginAssign(c) \/ EndAssign(c) \/ AssignService(c)
      PROVE  FileExplained' /\ AnsweredWhenDone'
    <2>1. /\ AnsweredWhenDone' /\ \A d \in Creators \ {c} : Witness(d) => Witness(d)'
          /\ \/ pc'[c] \in {"unlocked", "rollback", "loaded", "assigning", "assigned"}
             \/ answer'[c] \in {"created", "reload_failed"}
        BY <1>2, <1>3, <1>5
        DEF Validated, Invalid, Reload, ReloadFails, BeginAssign, EndAssign, AssignService,
            Stages, Answers
    <2>2. UNCHANGED <<file, leftovers>>
        BY <1>5
        DEF Validated, Invalid, Reload, ReloadFails, BeginAssign, EndAssign, AssignService
    <2>3. Witness(c)'
        BY <2>1 DEF Witness, Settled
    <2>4. QED  BY <1>1, <2>1, <2>2, <2>3, WitnessesKept
<1>6. ASSUME NEW c \in Creators, ReplaceFile(c)
      PROVE  FileExplained' /\ AnsweredWhenDone'
    <2>1. /\ AnsweredWhenDone' /\ pc'[c] = "validate"
          /\ \A d \in Creators \ {c} : Witness(d) => Witness(d)'
        BY <1>3, <1>6 DEF ReplaceFile, Stages
    <2>2. file = original[c] /\ file' = original[c] \cup {Wants[c]} /\ leftovers' = leftovers
        BY <1>1, <1>6 DEF ReplaceFile, EditorsKeep, Editing
    <2>3. Witness(c)'
        BY <2>1 DEF Witness
    <2>4. FileExplained'
        BY <1>1, <2>1, <2>2, <2>3 DEF FileExplained
    <2>5. QED  BY <2>1, <2>4
<1>7. ASSUME NEW c \in Creators, Rollback(c)
      PROVE  FileExplained' /\ AnsweredWhenDone'
    <2>1. AnsweredWhenDone' /\ \A d \in Creators \ {c} : Witness(d) => Witness(d)'
        BY <1>2, <1>7 DEF Rollback, Answers
    <2>2. file = original[c] \cup {Wants[c]} /\ Wants[c] \notin original[c]
        BY <1>1, <1>7 DEF Rollback, EditorsKeep, Editing
    <2>3. \/ file' = original[c] /\ leftovers' = leftovers
          \/ file' = file /\ leftovers' = leftovers \cup {Wants[c]}
        BY <1>7 DEF Rollback
    <2>4. ASSUME NEW s \in file' \ (Shipped \cup leftovers')
          PROVE  \E d \in Creators : Wants[d] = s /\ Witness(d)'
        <3>1. s \in file \ (Shipped \cup leftovers) /\ s # Wants[c]
            BY <2>2, <2>3, <2>4
        <3>2. PICK d \in Creators : Wants[d] = s /\ Witness(d)
            BY <1>1, <3>1 DEF FileExplained
        <3>3. QED  BY <2>1, <3>1, <3>2
    <2>5. QED  BY <2>1, <2>4 DEF FileExplained
<1>8. CASE Crash
    <2>1. /\ AnsweredWhenDone' /\ UNCHANGED <<file, leftovers>>
          /\ \A c \in Creators : answer'[c] = answer[c] \/ answer'[c] = "lost"
          /\ \A c \in Creators : pc[c] \notin {"new", "done"} => answer'[c] = "lost"
        BY <1>1, <1>8 DEF Crash, AnsweredWhenDone
    <2>2. \A c \in Creators : Witness(c) => Witness(c)'
        BY <2>1 DEF Witness, Settled
    <2>3. QED  BY <1>1, <2>1, <2>2, WitnessesKept
<1>9. CASE OthersChange \/ Boot \/ UNCHANGED vars
    <2>1. UNCHANGED <<file, leftovers, pc, answer>>
        BY <1>9 DEF OthersChange, Boot, vars
    <2>2. QED
        BY <1>1, <2>1, WitnessesKept DEF AnsweredWhenDone, Witness, Settled
<1>10. QED
    BY <1>4, <1>5, <1>6, <1>7, <1>8, <1>9 DEF Next, Handle, Create

\* A source whose every request was answered as rejected or failed is not in the
\* file, unless it was shipped or its rollback could not write: the rollback of
\* one request restores nothing of another's.
THEOREM FailuresRolledBack == Spec => []FailedSourcesRolledBack
<1>1. ASSUME TraceInv, NEW s \in file \ (Shipped \cup leftovers),
             \A c \in Creators : Wants[c] = s => answer[c] \in {"rejected", "failed"}
      PROVE  FALSE
    <2>1. PICK c \in Creators : Wants[c] = s /\ Witness(c)
        BY <1>1 DEF TraceInv, FileExplained
    <2>2. answer[c] \in {"rejected", "failed"} /\ pc[c] = "done"
        BY <1>1, <2>1 DEF TraceInv, AnsweredWhenDone
    <2>3. QED  BY <2>1, <2>2 DEF Witness, Settled
<1>2. TraceInv => FailedSourcesRolledBack
    BY <1>1 DEF FailedSourcesRolledBack
<1>3. QED  BY <1>2, TraceInit, TraceStep, PTL DEF Spec

-----------------------------------------------------------------------------
(* The sync beside the API.                                                 *)

\* The last of some entries.
LEMMA LastIsEntry ==
    ASSUME NEW entries \in Seq(Entities), entries # <<>>
    PROVE  Last(entries) \in Entities
  BY DEF Last

\* One entry alone.
LEMMA OneEntry ==
    ASSUME NEW e \in Entities
    PROVE  <<e>> \in Seq(Entities) /\ <<e>> # <<>> /\ Len(<<e>>) = 1 /\ Last(<<e>>) = e
  BY DEF Last

\* A merge gives a normalized universe and keeps what was shipped.
LEMMA MergeKeeps ==
    ASSUME NEW universe \in Universes, NEW rows \in Bhavcopies
    PROVE  LET merged == NormalizeBhavcopyRows(rows, universe)
           IN  /\ merged \in Universes
               /\ Kept(universe) => Kept(merged)
               /\ Normalized(merged)
<1> DEFINE row(s) == CASE s \in ByName -> <<>>
                       [] s \in rows -> <<MergedRow(universe[s])>>
                       [] OTHER -> LastOnly(universe[s])
           merged == NormalizeBhavcopyRows(rows, universe)
<1>1. ASSUME NEW s \in Symbols
      PROVE  universe[s] \in Seq(Entities)
    BY DEF Universes
<1>2. ASSUME NEW s \in Symbols
      PROVE  /\ MergedRow(universe[s]) \in Entities
             /\ universe[s] # <<>> =>
                    MergedRow(universe[s]).enabled = Last(universe[s]).enabled
    <2>1. universe[s] # <<>> => Last(universe[s]).enabled \in BOOLEAN
        BY <1>1, LastIsEntry DEF Entities
    <2>2. QED  BY <2>1 DEF MergedRow, Entities
<1>3. ASSUME NEW s \in Symbols
      PROVE  row(s) \in Seq(Entities) /\ Len(row(s)) <= 1
    <2>1. CASE s \in ByName
        BY <2>1, EntitiesSyncAssumption
    <2>2. CASE s \notin ByName /\ s \in rows
        BY <1>2, <2>2, OneEntry
    <2>3. CASE s \notin ByName /\ s \notin rows
        BY <1>1, <2>3, OneEntry, LastIsEntry DEF LastOnly
    <2>4. QED  BY <2>1, <2>2, <2>3
<1>4. ASSUME NEW s \in Symbols, s \notin ByName, universe[s] # <<>>
      PROVE  row(s) # <<>> /\ Last(row(s)).enabled = Last(universe[s]).enabled
    <2>1. CASE s \in rows
        BY <1>2, <1>4, <2>1, OneEntry
    <2>2. CASE s \notin rows
        BY <1>1, <1>4, <2>2, OneEntry, LastIsEntry DEF LastOnly
    <2>3. QED  BY <2>1, <2>2
<1>5. ASSUME NEW entries \in Seq(Entities)
      PROVE  IndexEntry(entries) \in Entities /\ IndexEntry(entries).enabled
    <2>1. ASSUME NEW e \in Entities
          PROVE  [e EXCEPT !.enabled = TRUE] \in Entities /\ [e EXCEPT !.enabled = TRUE].enabled
        BY DEF Entities
    <2>2. [role |-> "none", enabled |-> TRUE] \in Entities
        BY DEF Entities
    <2>3. QED  BY <2>1, <2>2, LastIsEntry DEF IndexEntry
<1>6. merged = [s \in Symbols |-> IF s \in Indexes THEN <<IndexEntry(row(s))>> ELSE row(s)]
    BY DEF NormalizeBhavcopyRows
<1> HIDE DEF row, merged
<1>7. ASSUME NEW s \in Symbols
      PROVE  merged[s] \in Seq(Entities) /\ Len(merged[s]) <= 1
    <2>1. CASE s \in Indexes
        BY <1>3, <1>5, <1>6, <2>1, OneEntry
    <2>2. CASE s \notin Indexes
        BY <1>3, <1>6, <2>2
    <2>3. QED  BY <2>1, <2>2
<1>8. merged \in Universes
    BY <1>6, <1>7 DEF Universes
<1>9. ASSUME NEW s \in Indexes
      PROVE  merged[s] # <<>> /\ Last(merged[s]).enabled
    BY <1>3, <1>5, <1>6, OneEntry, EntitiesSyncAssumption
<1>10. ASSUME NEW s \in ByName, s \in Symbols
       PROVE  merged[s] = <<>>
    BY <1>6, <1>10, EntitiesSyncAssumption DEF row
<1>11. Normalized(merged)
    BY <1>7, <1>9, <1>10, EntitiesSyncAssumption DEF Normalized
<1>12. ASSUME Kept(universe)
       PROVE  Kept(merged)
    <2> SUFFICES ASSUME NEW s \in Symbols \ ByName, ShippedEntities[s] # <<>>
                 PROVE  /\ merged[s] # <<>>
                        /\ s \notin Indexes =>
                             Last(merged[s]).enabled = Last(ShippedEntities[s]).enabled
        BY DEF Kept
    <2>1. /\ universe[s] # <<>>
          /\ s \notin Indexes => Last(universe[s]).enabled = Last(ShippedEntities[s]).enabled
        BY <1>12 DEF Kept
    <2>2. row(s) # <<>> /\ Last(row(s)).enabled = Last(universe[s]).enabled
        BY <1>4, <2>1
    <2>3. CASE s \in Indexes
        BY <1>9, <2>3
    <2>4. CASE s \notin Indexes
        BY <1>6, <2>1, <2>2, <2>4
    <2>5. QED  BY <2>3, <2>4
<1>13. QED  BY <1>8, <1>11, <1>12 DEF merged

\* What a half-written file gives is a universe or unreadable.
LEMMA CutsAreContents ==
    ASSUME NEW universe \in Universes, NEW content \in Cuts(universe)
    PROVE  content \in Universes \cup {Garbled}
<1> DEFINE whole(i) == {Alphabet[j] : j \in 1..(i - 1)}
           kept(i, last) == [s \in Symbols |->
               CASE s \in whole(i) -> universe[s]
                 [] s = Alphabet[i] /\ universe[s] # <<>> -> last
                 [] OTHER -> <<>>]
           off == <<[role |-> "none", enabled |-> FALSE]>>
<1>1. off \in Seq(Entities) /\ <<>> \in Seq(Entities)
    <2>1. [role |-> "none", enabled |-> FALSE] \in Entities
        BY DEF Entities
    <2>2. QED  BY <2>1
<1>2. ASSUME NEW i, NEW last \in Seq(Entities)
      PROVE  kept(i, last) \in Universes
    BY <1>1, <1>2 DEF Universes
<1>3. content = Garbled \/ \E i \in 1..Len(Alphabet) :
          content = kept(i, <<>>) \/ content = kept(i, off)
    BY DEF Cuts
<1> HIDE DEF kept, off
<1>4. CASE content = Garbled
    BY <1>4
<1>5. ASSUME NEW i, content = kept(i, <<>>) \/ content = kept(i, off)
      PROVE  content \in Universes
    BY <1>1, <1>2, <1>5
<1>6. QED  BY <1>3, <1>4, <1>5

\* Every step of the sync is a step of SourceAdmin or changes none of its
\* variables.
LEMMA StepSimulates == SourceInv /\ [SyncNext]_allVars => [Next]_vars
<1> SUFFICES ASSUME SourceInv, [SyncNext]_allVars PROVE [Next]_vars
    OBVIOUS
<1> USE DEF diskVars
<1>1. othersOK \in BOOLEAN
    BY DEF SourceInv, TypeOK
<1>2. ASSUME othersOK' \in BOOLEAN, Beside  PROVE [Next]_vars
    BY <1>1, <1>2, EntitiesSyncAssumption DEF Beside, OthersChange, Next, vars
<1>3. ASSUME NEW content, Rewrite(content)  PROVE othersOK' \in BOOLEAN
    BY <1>3 DEF Rewrite, Loadable
<1>4. CASE SyncStep
    BY <1>1, <1>2, <1>3, <1>4
    DEF SyncStep, BeginWrite, WriteSome, EndWrite, CutShort, EndSync
<1>5. CASE \E c \in Creators : HandleBesideSync(c)
    BY <1>5 DEF HandleBesideSync, Next
<1>6. CASE CrashBesideSync \/ BootBesideSync
    BY <1>6 DEF CrashBesideSync, BootBesideSync, Next
<1>7. CASE UNCHANGED allVars
    BY <1>7 DEF allVars
<1>8. QED  BY <1>4, <1>5, <1>6, <1>7 DEF SyncNext

\* The API beside any syncs does what SourceAdmin says, so that every theorem
\* about SourceAdmin holds beside them.
THEOREM SyncImplementsSourceAdmin == SyncSpec => ImplementsSourceAdmin
<1>1. SyncInit => Init /\ SourceInv
    BY SourceInit DEF SyncInit
<1>2. SourceInv /\ [SyncNext]_allVars => [Next]_vars /\ SourceInv'
    BY StepSimulates, SourceStep
<1>3. QED  BY <1>1, <1>2, PTL DEF SyncSpec, Spec, ImplementsSourceAdmin

\* The content of the entities' file, the bookkeeping of the sync and the verdict
\* of config.Load are always well typed and agree.
THEOREM SyncTypes == SyncSpec => []SyncTypeOK
<1>1. Empty \in Universes
    BY DEF Empty, Universes
<1>2. SyncInit => SyncTypeOK
    <2>1. Loadable(ShippedEntities) = TRUE
        BY EntitiesSyncAssumption DEF Loadable
    <2> SUFFICES ASSUME SyncInit PROVE SyncTypeOK
        OBVIOUS
    <2>2. othersOK = TRUE /\ custom = ShippedEntities
        BY DEF SyncInit, Init
    <2>3. othersOK = Loadable(custom)
        BY <2>1, <2>2, Zenon
    <2>4. ShippedEntities \in Universes /\ 0 \in 0..MaxSyncs
        BY EntitiesSyncAssumption
    <2>5. QED  BY <1>1, <2>2, <2>3, <2>4, Zenon DEF SyncInit, SyncTypeOK
<1>3. SyncTypeOK /\ [SyncNext]_allVars => SyncTypeOK'
    <2> SUFFICES ASSUME SyncTypeOK, [SyncNext]_allVars PROVE SyncTypeOK'
        OBVIOUS
    <2> USE DEF SyncTypeOK
    <2>1. CASE BeginWrite
        <3>1. PICK rows \in Bhavcopies : payload' = NormalizeBhavcopyRows(rows, custom)
            BY <2>1 DEF BeginWrite
        <3>2. custom \in Universes
            BY <2>1 DEF BeginWrite, Loadable
        <3>3. payload' \in Universes
            BY <3>1, <3>2, MergeKeeps
        <3>4. custom' = Empty /\ othersOK' = Loadable(custom')
            BY <2>1 DEF BeginWrite, Rewrite
        <3>5. syncs' \in 0..MaxSyncs
            BY <2>1, EntitiesSyncAssumption DEF BeginWrite
        <3>6. QED  BY <1>1, <2>1, <3>3, <3>4, <3>5 DEF BeginWrite
    <2>2. CASE WriteSome
        <3>1. PICK content \in Cuts(payload) : Rewrite(content)
            BY <2>2 DEF WriteSome
        <3>2. content \in Universes \cup {Garbled}
            BY CutsAreContents
        <3>3. QED  BY <2>2, <3>1, <3>2 DEF WriteSome, Rewrite, syncVars
    <2>3. CASE EndWrite
        <3>1. custom' = payload /\ othersOK' = Loadable(custom')
            BY <2>3 DEF EndWrite, Rewrite
        <3>2. QED  BY <1>1, <2>3, <3>1 DEF EndWrite, EndSync
    <2>4. CASE CutShort
        BY <1>1, <2>4 DEF CutShort, EndSync
    <2>5. ASSUME UNCHANGED <<entityVars, othersOK>>  PROVE SyncTypeOK'
        BY <2>5 DEF entityVars, syncVars
    <2>6. CASE \E c \in Creators : HandleBesideSync(c)
        <3>1. UNCHANGED othersOK
            BY <2>6 DEF HandleBesideSync, Handle, Create, RejectInput, AcceptInput, Lock,
                ReadFile, Duplicate, ReplaceFile, ReplaceFails, Validated, Invalid,
                Rollback, Reload, ReloadFails, BeginAssign, EndAssign, AssignService,
                diskVars
        <3>2. QED  BY <2>5, <2>6, <3>1 DEF HandleBesideSync
    <2>7. CASE CrashBesideSync \/ BootBesideSync
        BY <2>5, <2>7 DEF CrashBesideSync, BootBesideSync, Crash, Boot, diskVars
    <2>8. CASE UNCHANGED allVars
        BY <2>5, <2>8 DEF allVars, vars, diskVars
    <2>9. QED  BY <2>1, <2>2, <2>3, <2>4, <2>6, <2>7, <2>8 DEF SyncNext, SyncStep
<1>4. QED  BY <1>2, <1>3, PTL DEF SyncSpec

\* While a sync writes, it is what it writes that has everything.
WriterKeeps ==
    sync = "writing" /\ ~cutShort => Kept(payload) /\ Normalized(payload)

\* However many syncs follow each other beside the API, the shipped symbols stay
\* in the file, switched as their last entries were, and the file is normalized,
\* as long as no write was cut short.
THEOREM SyncKeepsUniverse == SyncSpec => []UniverseKept
<1>1. SyncInit => UniverseKept /\ WriterKeeps
    BY EntitiesSyncAssumption DEF SyncInit, UniverseKept, WriterKeeps, Kept, Loadable
<1>2. SyncTypeOK /\ UniverseKept /\ WriterKeeps /\ [SyncNext]_allVars
          => UniverseKept' /\ WriterKeeps'
    <2> SUFFICES ASSUME SyncTypeOK, UniverseKept, WriterKeeps, [SyncNext]_allVars
                 PROVE  UniverseKept' /\ WriterKeeps'
        OBVIOUS
    <2>1. CASE BeginWrite
        <3>1. PICK rows \in Bhavcopies : payload' = NormalizeBhavcopyRows(rows, custom)
            BY <2>1 DEF BeginWrite
        <3>2. custom \in Universes
            BY <2>1 DEF BeginWrite, SyncTypeOK, Loadable
        <3>3. /\ Kept(custom) => Kept(payload')
              /\ Normalized(payload')
            BY <3>1, <3>2, MergeKeeps
        <3>4. ~cutShort => Kept(custom)
            BY <2>1 DEF BeginWrite, UniverseKept
        <3>5. QED  BY <2>1, <3>3, <3>4 DEF BeginWrite, UniverseKept, WriterKeeps
    <2>2. CASE WriteSome
        BY <2>2 DEF WriteSome, syncVars, UniverseKept, WriterKeeps
    <2>3. CASE EndWrite
        <3>1. sync = "writing" /\ sync' = "idle" /\ custom' = payload /\ cutShort' = cutShort
            BY <2>3 DEF EndWrite, EndSync, Rewrite
        <3>2. payload # Garbled
            BY EntitiesSyncAssumption DEF SyncTypeOK
        <3>3. QED  BY <3>1, <3>2 DEF UniverseKept, WriterKeeps
    <2>4. CASE CutShort
        BY <2>4 DEF CutShort, EndSync, UniverseKept, WriterKeeps
    <2>5. CASE UNCHANGED entityVars
        BY <2>5 DEF entityVars, syncVars, UniverseKept, WriterKeeps
    <2>6. QED
        BY <2>1, <2>2, <2>3, <2>4, <2>5
        DEF SyncNext, SyncStep, HandleBesideSync, CrashBesideSync, BootBesideSync, allVars
<1>3. QED  BY <1>1, <1>2, SyncTypes, PTL DEF SyncSpec
=============================================================================
