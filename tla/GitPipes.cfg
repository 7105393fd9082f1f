SPECIFICATION FairSpec
CONSTANTS
    Call <- MCCall
    Capacity = 1
    Limit = 2
    ErrorLimit = 1
INVARIANTS
    TypeOK
    ResultTellsOutcome
    NoGitLeft
PROPERTIES
    CallReturns
