------------------------------- MODULE RunLedger -------------------------------
(***************************************************************************)
(* What POST /v1/runs promises a client, without ids, maps or files: a run *)
(* is stored once and for all before its request is answered with success, *)
(* a failed request has stored nothing complete, and a crash loses answers *)
(* but never a stored run.  All of it holds for a run whose id no other    *)
(* request was given; of the shared ones nothing is promised.              *)
(***************************************************************************)
CONSTANT Requests

VARIABLES
    stored,     \* requests whose run is completely stored
    shared,     \* requests whose run id is another request's too
    answer      \* what each client was told

ledgerVars == <<stored, shared, answer>>

Init ==
    /\ stored = {}
    /\ shared = {}
    /\ answer = [r \in Requests |-> "none"]

\* A run id is given out again; its runs lose every promise for good.
Share(rs) ==
    /\ shared' = shared \cup rs
    /\ UNCHANGED <<stored, answer>>

\* A request with a shared id writes: its run may become whole and may
\* destroy others, but only among the shared ones.
Mix(rs) ==
    /\ rs \subseteq shared
    /\ stored' = (stored \ shared) \cup rs
    /\ UNCHANGED <<shared, answer>>

\* The last file of a run is written.
Store(r) ==
    /\ answer[r] = "none"
    /\ stored' = stored \cup {r}
    /\ UNCHANGED <<shared, answer>>

Tell(r, what) ==
    /\ answer[r] = "none"
    /\ answer' = [answer EXCEPT ![r] = what]
    /\ UNCHANGED <<stored, shared>>

Accept(r) == r \in stored \cup shared /\ Tell(r, "ok")

Refuse(r) == r \notin stored \ shared /\ Tell(r, "error")

\* The process dies under some of the requests.
Crash(lost) ==
    /\ \A r \in lost : answer[r] = "none"
    /\ answer' = [r \in Requests |-> IF r \in lost THEN "lost" ELSE answer[r]]
    /\ UNCHANGED <<stored, shared>>

Next ==
    \/ \E r \in Requests : Store(r) \/ Accept(r) \/ Refuse(r)
    \/ \E rs \in SUBSET Requests : Share(rs) \/ Mix(rs) \/ Crash(rs)

Spec == Init /\ [][Next]_ledgerVars
=============================================================================
