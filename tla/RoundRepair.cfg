SPECIFICATION Spec
CONSTANTS
    NoID = NoID
    A = A
    B = B
    U = U
    V = V
    W = W
    MaxHistory = 4
    Histories <- MCHistories
    Declarations <- MCDeclarations
    Decisions <- MCDecisions
INVARIANTS RepairExact DecisionsHonoured
CHECK_DEADLOCK FALSE
