SPECIFICATION Spec
CONSTANTS
    repo = repo  view = view  op = op  none = none  None = none
    Bodies <- SessionBodies
    Grants <- SessionGrants
    InitialId = 1
    MaxId = 4
    Bootstrap = 1
INVARIANTS
    TypeOK
    AnswerIsOwn
    DefiniteFailureNotCommitted
    FreshIds
    OneAtATime
