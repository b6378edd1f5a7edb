CONSTANTS
    NormalizeEmail <- MCNormalizeEmail
    Requests = {r1, r2}
    MaxConfigs = 2
    Databases <- MCDatabases
    Unset = Unset
    Failed = Failed
    NoDirectory = NoDirectory
SPECIFICATION FairSpec
INVARIANTS TypeOK WholeDirectory OneLoad SameAnswer
PROPERTIES CallersReturn TakesOverLoaded ImplementsSingleAssignment
CHECK_DEADLOCK FALSE
