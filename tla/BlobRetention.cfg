SPECIFICATION Spec
CONSTANTS
    Procs = {p1, p2}
    ClaimRefs = {r1, r2}
    Checkpoints = {k1, k2}
    Sources = {s1}
    Scopes = {scopeA}
    Contents = {1}
    MaxObjectBytes = 1
    MaxSequence = 2
SYMMETRY Symmetry
INVARIANTS
    ActiveClaimKeepsObject
    NoLiveDerivativeOfDeletedSource
    EveryWriteReported
PROPERTIES
    NothingUndone
    ClaimChangesAuthorized
