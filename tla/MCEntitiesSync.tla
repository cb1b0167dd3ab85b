---------------------------- MODULE MCEntitiesSync ----------------------------
(* A default parent, a custom child, a custom entity listed twice, at last
   switched off, an index and an entity without a symbol.  One bhavcopy lists
   the parent in series EQ and one does not. *)
EXTENDS EntitiesSync, TLC

CONSTANTS c1, c2, shipped, s1, AI, NIFTIT, RELIANCE, TCS, fund

MCCreators == {c1, c2}
MCSources == {shipped, s1}
MCShipped == {shipped}
MCWants == [c \in Creators |-> s1]

MCAlphabet == <<AI, NIFTIT, RELIANCE, TCS, fund>>
MCByName == {fund}
MCDefaults == [s \in Symbols |->
    IF s = TCS THEN <<[role |-> "parent", enabled |-> TRUE]>> ELSE <<>>]
MCEntities == [s \in Symbols |->
    CASE s = AI -> <<[role |-> "child", enabled |-> TRUE]>>
      [] s = RELIANCE -> <<[role |-> "none", enabled |-> TRUE],
                           [role |-> "none", enabled |-> FALSE]>>
      [] s = fund -> <<[role |-> "none", enabled |-> TRUE]>>
      [] OTHER -> <<>>]
MCGroups == {<<TCS, AI>>}
MCIndexes == {NIFTIT}
MCBhavcopies == {{RELIANCE}, {RELIANCE, TCS}}
=============================================================================
