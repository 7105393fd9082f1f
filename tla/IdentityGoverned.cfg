SPECIFICATION Spec
CONSTANTS
    alice = alice  bob = bob  carol = carol
    None = None  Root = Root
    Identity = {alice, bob, carol}
    LastEpoch <- MCLastEpoch
    KeyOf <- MCKeyOf
    Document <- MCDocument
    Founding <- MCFounding
    Verifier = {v1, v2}
    Draft = {c1, c2}
    MaxSequence = 2
SYMMETRY DraftSymmetry
INVARIANTS
    TypeOK
    GovernedByPrior
    RivalsShareSigners
    OneLine
