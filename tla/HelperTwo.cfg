SPECIFICATION Spec
CONSTANTS
    root = root
    left = left
    right = right
    tip = tip
    main = main
    topic = topic
    copy1 = copy1
    copy2 = copy2
    None = None
    Helpers = {copy1, copy2}
    Names = {main, topic}
    Commit <- LineCommit
    Ancestors <- LineAncestors
    Batches <- PushBatches
    Base = root
    Main = main
    MaxHaves = 2
    MaxRuns = 2
INVARIANTS
    TypeOK
    OkMeansCommitted
    PushedOnce
    UnforcedKeepsHistory
    PacksSuffice
    FetchedClosed
SYMMETRY CopySymmetry
