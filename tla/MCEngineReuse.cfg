SPECIFICATION Spec
CONSTANTS
    r1 = r1
    r2 = r2
    r3 = r3
    Absent = Absent
    Torn = Torn
    Requests <- MCTwo
    RunIds <- MCRunIds
    MaxGeneration = 2
    DiskMayFail = FALSE
INVARIANT
    CompletedRunsSurvive
CHECK_DEADLOCK FALSE
