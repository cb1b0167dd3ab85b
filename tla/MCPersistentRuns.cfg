SPECIFICATION Spec
CONSTANTS
    Requests = {q1, q2}
    MaxService = 2
SYMMETRY Symmetry
CHECK_DEADLOCK FALSE
INVARIANTS
    TypeOK
    CompletedRunsReadBack
    ClickHouseFollowsPostgres
    NothingWithoutItsRun
