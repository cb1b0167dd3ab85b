SPECIFICATION FairSpec
CONSTANTS
    r1 = r1
    r2 = r2
    r3 = r3
    Absent = Absent
    Torn = Torn
    Requests <- MCTwo
    RunIds <- MCRunIds
    MaxGeneration = 2
    DiskMayFail = TRUE
INVARIANTS
    TypeOK
    RunIDsUniquePerService
    FilesFormAPrefix
    AnswerMatchesDisk
    IndexCoversDisk
PROPERTIES
    ImplementsLedger
    RequestsAnswered
CHECK_DEADLOCK FALSE
