SPECIFICATION Spec
CONSTANTS
    Calls = {k1, k2, k3}
    m1 = m1
    m2 = m2
    Contents <- MCContents
    EmptyContent <- MCEmpty
    Rejected = Rejected
    Batches = {"append1", "append2", "noop", "bad"}
    ApplyBatch <- MCApply
    MaxVersion = 2
    Tokens = {0, 1, 2}
SYMMETRY Symmetry
INVARIANTS OneWinnerPerToken LoadsAgree
CHECK_DEADLOCK FALSE
