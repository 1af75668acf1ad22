SPECIFICATION FairSpec
CONSTANTS
    Calls = {k1, k2, k3}
    m1 = m1
    m2 = m2
    Contents <- MCContents
    EmptyContent <- MCEmpty
    Rejected = Rejected
    Batches = {"append1", "bad"}
    ApplyBatch <- MCApply
    MaxVersion = 2
    Tokens = {0, 1, 2}
INVARIANTS EarlyErrorsDefinite
PROPERTIES Implements CallsReturn
CHECK_DEADLOCK FALSE
