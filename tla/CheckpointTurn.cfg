\* The host may stop after any commit or read.
CONSTANTS
    None = None
    NoID <- NoneID
    Artifacts <- MCArtifacts
    Arguments <- MCArguments
    Batches <- MCBatches
    MaxInline = 1
    MaxBlob = 2
    MaxPreview = 1
    MaxRead = 2
    Previews <- MCPreviews
    AllowedMedia <- MCMedia
    Corrupt <- Flip
    Profile = "gpt"
    MaxRev = 3
    MaxObjects = 1
SPECIFICATION Spec
CHECK_DEADLOCK FALSE
INVARIANTS
    RoundsSurvive
    ReplacedByOriginGone
    OffloadsReported
    BlobsStandForOriginals
