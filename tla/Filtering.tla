------------------------------ MODULE Filtering ------------------------------
(* The loops that append what passes a test to an empty slice, as the          *)
(* collector, the crawler, the row builder, the mapper and the deduplication   *)
(* write them.                                                                 *)
EXTENDS SequencesExt

\* The elements of list that are in wanted, in their order.  A fold, where
\* SelectSeq would do, because the provers cannot unfold that operator.
Only(wanted, list) ==
    FoldLeft(LAMBDA kept, x : IF x \in wanted THEN Append(kept, x) ELSE kept, <<>>, list)

\* Of those of each key the first alone.
FirstOfEach(key, wanted, list) ==
    FoldLeft(LAMBDA kept, x :
                IF x \in wanted /\ \A i \in DOMAIN kept : key[kept[i]] # key[x]
                THEN Append(kept, x) ELSE kept,
             <<>>, list)
=============================================================================
