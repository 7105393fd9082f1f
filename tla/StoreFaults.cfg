SPECIFICATION FairSpec
CONSTANTS
    alice = alice  bob = bob
    o1 = o1  o2 = o2  o3 = o3
    main = main  dev = dev
    here = here  none = none  None = none
    a1 = a1  a1b = a1b  a2 = a2  a2b = a2b  a3 = a3
    wrapped = wrapped  forged = forged
    Publisher <- MCOnePublisher
    Object <- MCObject
    RefName = {main}
    Repository = here
    MaxSequence = 2
    Links <- MCLinks
    Selection <- MCSelection
    Transition <- FaultTransition
    Payload <- FaultPayload
    Calls <- FaultCalls
    Caller = {c1, c2}
    Faults = {"read", "io", "crash", "kill"}
INVARIANTS
    LineageRetained
    SuccessIsAccepted
PROPERTIES
    AppliedOnce
    CallsReturn
