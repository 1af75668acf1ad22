CONSTANTS
    None = None
    NoID <- NoneID
    Tokens <- Weight
    Engines <- MCEngines
    Prepared <- MCPrepared
    Plans <- MCPlans
    HookResults <- MCHooks
    ProjectedRole <- MCRole
    FormatResults <- MCFormats
    TargetFormats <- MCTargetFormats
    Summaries <- MCSummaries
    PolicyResults <- MCPolicy
SPECIFICATION Spec
INVARIANTS
    PayloadWithinBudget
    PendingClosesHistory
    OpaqueStatesValid
    RoundsKeptWhole
    TargetScope
    PersistsOriginals
