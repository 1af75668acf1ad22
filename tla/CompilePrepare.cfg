CONSTANTS
    None = None
    NoID <- NoneID
    HostID <- Host
    Engines <- MCEngines
    Requests <- MCRequests
    Stored <- MCStored
    Representations = {"v1"}
    Resolutions <- MCResolutions
    MaxArtifacts = 2
SPECIFICATION PrepareSpec
INVARIANTS
    ArtifactMessagesMatchActive
    ConfigurationBeforeCallbacks
    WritebacksLocate
