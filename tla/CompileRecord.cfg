CONSTANTS
    None = None
    Requests <- MCRequests
    Resolved <- MCResolved
    MergeResults <- MCMergeResults
    Rewrites <- MCRewrites
    SummaryOf <- MCSummaryOf
    Text <- MCText
SPECIFICATION Spec
INVARIANTS CoverageExact DeniedNeverSaved RecordSuffices ReplayFaithful
CHECK_DEADLOCK FALSE
