----------------------------- MODULE MCEngineRuns -----------------------------
(* Small sets of requests; one run id for each, which is all a Service can
   hand out. *)
EXTENDS EngineRuns, FiniteSets, TLC

CONSTANTS r1, r2, r3

MCTwo == {r1, r2}
MCThree == {r1, r2, r3}
MCRunIds == 1..Cardinality(Requests)
MCSymmetry == Permutations(Requests)
=============================================================================
