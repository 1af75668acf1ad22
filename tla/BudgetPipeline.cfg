SPECIFICATION Spec
CONSTANTS
    NoID = NoID
    S = S
    U = U
    L = L
    A = A
    T = T
    B = B
    X = X
    Y = Y
    F = F
    MaxBlocks = 3
    Limits = {0, 2, 3, 5}
    Inputs <- MCInputs
    Configs <- MCConfigs
    Summaries <- MCSummaries
    HostCost <- MCHostCost
    HostOutputs <- MCHostOutputs
INVARIANTS FitsLimit RequiredKept RoundsWhole NoNeedlessLoss Returns
CHECK_DEADLOCK FALSE
