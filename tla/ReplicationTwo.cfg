SPECIFICATION Spec
CONSTANTS
    alice = alice  bob = bob  carol = carol
    c0 = c0  cb = cb  cx = cx
    main = main  here = here  none = none  None = none
    Publisher <- TwoPublishers
    Object = {c0, cb, cx}
    RefName <- MCRefName
    Repository = here
    MaxSequence = 2
    Transition <- MCTransition
    Payload <- MCPayload
    Selection <- MCSelection
    Links <- MCLinks
    Author <- MCAuthor
    Edition <- MCEdition
    Delegate = {alice, bob}
    Threshold = 2
    DefaultBranch = main
    Faults = {"lost"}
INVARIANTS
    TypeOK
    ReplicaFollowsPublisher
    CanonicalHasQuorum
    CanonicalStored
PROPERTIES
    CanonicalNeverRewinds
