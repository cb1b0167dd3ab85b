SPECIFICATION Spec
CONSTANTS
    r1 = r1
    r2 = r2
    r3 = r3
    Absent = Absent
    Torn = Torn
    Requests <- MCTwo
    RunIds <- MCRunIds
    MaxGeneration = 1
    DiskMayFail = FALSE
INVARIANT
    ListedRunsHaveExports
CHECK_DEADLOCK FALSE
