----------------------------- MODULE MCDailyRuns -----------------------------
(* A tick is four hours.  A zone like IST, one west of Greenwich that puts its
   clocks forward and one that puts them back: wall time 1 is skipped once in
   the second and shown twice in the third. *)
EXTENDS DailyRuns

MCZones == {[before |-> 1, after |-> 1, at |-> 0],
            [before |-> -2, after |-> -1, at |-> 9],
            [before |-> 1, after |-> 0, at |-> 7]}
=============================================================================
