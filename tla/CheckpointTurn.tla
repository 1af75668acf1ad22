--------------------------- MODULE CheckpointTurn ---------------------------
(***************************************************************************)
(* A host between two compilations: it moves large artifact payloads and   *)
(* call arguments of old rounds to a blob store, commits deltas to the     *)
(* conversation, and reads stored payloads back.                           *)
(*                                                                         *)
(* Offloading is not atomic: the policy and the blob store are host code,  *)
(* may fail after they took effect, and the caller's context may end at    *)
(* any of them.  Concurrent commits are CheckpointStore's matter; here a   *)
(* commit applies to the current state.  A payload is a sequence of        *)
(* chunks, its digest the payload itself and its size the number of        *)
(* chunks.  A descriptor is [object, content, media, sources], content     *)
(* standing for digest and length.                                         *)
(***************************************************************************)
EXTENDS ConversationDelta

CONSTANTS
    Artifacts,              \* artifacts the host may offload
    Arguments,              \* call arguments it may offload: [ref, call, chunks]
    Batches(_),             \* batches of deltas, given what was offloaded
    MaxInline, MaxBlob,     \* BlobThresholdLimits
    MaxPreview,             \* MaxPreviewBytes
    MaxRead,                \* BlobLimits of a reader
    Previews,               \* what the host may render: [chunks, media]
    AllowedMedia,
    Corrupt(_),             \* what a faulty store may have instead of a payload
    Profile,
    MaxRev, MaxObjects      \* bounds on commits and stored objects

\* NewBlobThresholdPolicy.
ASSUME ThresholdsValid == MaxInline >= 0 /\ MaxBlob >= MaxInline

ASSUME MaxObjectsAssumption == MaxObjects \in Nat

ArtifactFields ==
    {"id", "chunks", "owner", "sources", "life", "turn", "policy", "limit", "keep", "blob"}
DeltaFields ==
    {"op", "segment", "messages", "messageIDs", "artifactIDs", "artifact", "round"}

ASSUME ArtifactsAssumption == \A a \in Artifacts : DOMAIN a = ArtifactFields

VARIABLES
    state,          \* the committed conversation
    call,           \* the offload in progress, or NoOffload
    objects,        \* what the blob store wrote and gave a receipt of: object -> payload
    taken,          \* object -> the payload that was to be stored
    reported,       \* objects the host was told of
    hand,           \* offloaded artifacts the host has
    last,           \* the commit just made: the deltas and the states on the way
    read            \* the payload just read back: [object, content]

vars == <<state, call, objects, taken, reported, hand, last, read>>
conversation == <<state, last>>
storage == <<objects, taken>>

NoCommit == [deltas |-> << >>, path |-> << >>]
NoOffload == [pc |-> "idle"]

Init ==
    /\ state = EmptyState
    /\ call = NoOffload
    /\ objects = << >>
    /\ taken = << >>
    /\ reported = {}
    /\ hand = {}
    /\ last = NoCommit
    /\ read = None

-----------------------------------------------------------------------------
(* Offloading *)

Digest(chunks) == chunks
Bytes(chunks) == Len(chunks)

\* The call returns; told is the object its outcome names, in the published
\* descriptor or in a cleanup intent.
Return(told, artifacts) ==
    /\ call' = NoOffload
    /\ reported' = reported \cup told
    /\ hand' = hand \cup artifacts
    /\ UNCHANGED <<conversation, storage, read>>

Offload(kind, target, source, content) ==
    /\ call' = [kind |-> kind, target |-> target, source |-> source, content |-> content,
                preview |-> None, stored |-> None, pc |-> "select"]
    /\ last' = NoCommit
    /\ read' = None
    /\ UNCHANGED <<state, storage, reported, hand>>

\* ProjectArtifact up to Project.
ProjectArtifact ==
    /\ call = NoOffload
    /\ Cardinality(DOMAIN objects) < MaxObjects
    /\ \E a \in Artifacts :
         /\ a.blob = None
         /\ Offload("artifact", a, ArtifactRef(a), a.chunks)

\* ProjectHistoricalArguments up to Project: a call of a completed round.
ProjectHistoricalArguments ==
    /\ call = NoOffload
    /\ Cardinality(DOMAIN objects) < MaxObjects
    /\ LET ms == state.segs["history"]
       IN  /\ LayoutValid(ms) /\ UniqueIDs(ms)
           /\ \E arg \in Arguments : \E s \in ArgumentTargets(ms, arg) :
                Offload("argument", arg, Ref(ms[s]), arg.chunks)

\* blobThresholdPolicy.SelectBlob: both limits belong to the smaller side.
Disposition(size) ==
    IF size <= MaxInline THEN "inline" ELSE IF size > MaxBlob THEN "reject" ELSE "offload"

\* Project and applyDecision before anything is written: the policy may also
\* fail, and a preview may be too large or of a medium that was not allowed.
SelectBlob ==
    /\ call.pc = "select"
    /\ CASE Disposition(Bytes(call.content)) = "inline" ->
              Return({}, IF call.kind = "artifact" THEN {call.target} ELSE {})
         [] Disposition(Bytes(call.content)) = "reject" -> Return({}, {})
         [] OTHER ->
              \/ Return({}, {})
              \/ \E p \in Previews :
                   IF Bytes(p.chunks) > MaxPreview \/ p.media \notin AllowedMedia THEN Return({}, {})
                   ELSE /\ call' = [call EXCEPT !.preview = p, !.pc = "put"]
                        /\ UNCHANGED <<conversation, storage, reported, hand, read>>

Descriptor(object, content, sources) ==
    [object |-> object, content |-> Digest(content), media |-> "json", sources |-> sources]

\* equalBlobReceipt.
ReceiptValid(receipt) ==
    receipt = Descriptor(receipt.object, call.content, {call.source})

\* PutBlob: the store fails without a receipt, and then nobody knows of what it
\* wrote, or it answers with a receipt of what it wrote.  A receipt that is not
\* good, or comes with an error or after the end of the context, makes a cleanup
\* intent.
PutBlob ==
    /\ call.pc = "put"
    /\ \/ Return({}, {})
       \/ \E content \in {call.content} \cup Corrupt(call.content) :
            LET object == Len(objects) + 1
                receipt == Descriptor(object, content, {call.source})
            IN  /\ objects' = Append(objects, content)
                /\ taken' = Append(taken, call.content)
                /\ UNCHANGED <<conversation, hand, read>>
                /\ \/ /\ ReceiptValid(receipt)
                      /\ call' = [call EXCEPT !.stored = receipt, !.pc = "build"]
                      /\ UNCHANGED reported
                   \/ /\ call' = NoOffload
                      /\ reported' = reported \cup {object}

\* projectedBlobArtifact: a preview in the place of the payload.
ProjectedArtifact(a, stored, preview) ==
    [a EXCEPT !.chunks = preview.chunks,
              !.blob = [object |-> stored, original |-> ArtifactRef(a), preview |-> Digest(preview.chunks)]]

\* Defect of failedHistoricalArguments: only the selection's own intent is kept.
ForgetStored(stored) == {}

\* The cleanup intent of ProjectArtifact and failedHistoricalArguments.
CleanupIntent(stored) == {stored.object}

\* The rest of ProjectArtifact and buildHistoricalArguments: references, lineage
\* and the context may still fail the call.
Build ==
    /\ call.pc = "build"
    /\ \/ Return({call.stored.object},
                 IF call.kind = "artifact"
                 THEN {ProjectedArtifact(call.target, call.stored, call.preview)} ELSE {})
       \/ Return(CleanupIntent(call.stored), {})

-----------------------------------------------------------------------------
(* Commits and reads *)

\* What offloading may have given the host.
Offloadable ==
    LET whole == {a \in Artifacts : a.blob = None}
    IN  whole \cup {ProjectedArtifact(a, Descriptor(n, a.chunks, {ArtifactRef(a)}), p)
                      : a \in whole, n \in 1..MaxObjects, p \in Previews}

\* The host has no blob but those of the artifacts it was given; it may do with
\* these artifacts what it likes.
ASSUME BatchesAssumption ==
    \A h \in SUBSET Offloadable : \A ds \in Batches(h) :
        /\ ds \in Seq(Range(ds))
        /\ \A k \in DOMAIN ds :
             /\ DOMAIN ds[k] = DeltaFields
             /\ ds[k].messages \in Seq(Range(ds[k].messages))
             /\ ds[k].round # None => ds[k].round \in Seq(Range(ds[k].round))
             /\ ds[k].artifact # None =>
                  /\ DOMAIN ds[k].artifact = ArtifactFields
                  /\ \/ ds[k].artifact.blob = None
                     \/ \E a \in h : a.blob = ds[k].artifact.blob

\* CommitState of a batch, some of its deltas from the wire.
CommitState ==
    /\ call = NoOffload
    /\ state.rev < MaxRev
    /\ \E ds \in Batches(hand), wire \in BOOLEAN :
         LET sent == IF wire THEN [k \in DOMAIN ds |-> OverWire(ds[k])] ELSE ds
             commit == Checkpoint(state, sent, Profile)
         IN  /\ wire => \A k \in DOMAIN ds : DeltaIDsValid(ds[k])
             /\ commit.next # None
             /\ state' = commit.next
             /\ last' = [deltas |-> sent, path |-> commit.path]
             /\ read' = None
             /\ UNCHANGED <<call, storage, reported, hand>>

\* ResolveBlob: what the store returned is the content the descriptor was made
\* for, and within the reader's limits.
ResolveBlob(descriptor, got) ==
    /\ Bytes(descriptor.content) <= MaxRead
    /\ Bytes(got) = Bytes(descriptor.content)
    /\ Digest(got) = descriptor.content

\* BlobResolver.Resolve of an artifact of the committed conversation; decoding
\* and the budget may still refuse it, which leaves no trace.
Resolve ==
    /\ call = NoOffload
    /\ \E id \in DOMAIN state.arts :
         LET blob == state.arts[id].blob
         IN  /\ blob # None
             /\ \E got \in {objects[blob.object.object]} \cup Corrupt(objects[blob.object.object]) :
                  /\ ResolveBlob(blob.object, got)
                  /\ read' = [object |-> blob.object.object, content |-> got]
    /\ last' = NoCommit
    /\ UNCHANGED <<state, call, storage, reported, hand>>

Next ==
    \/ ProjectArtifact
    \/ ProjectHistoricalArguments
    \/ SelectBlob
    \/ PutBlob
    \/ Build
    \/ CommitState
    \/ Resolve

Spec == Init /\ [][Next]_vars

-----------------------------------------------------------------------------
(* Properties *)

\* A batch that only adds to the history and takes from it.  A tool message that
\* is appended by itself may turn the round before it into no round at all.
AddsAndRemoves(ds) ==
    \A k \in DOMAIN ds :
        /\ ds[k].op \notin {"replace_segment", "clear_segment", "clear_state"}
        /\ ds[k].op = "append_messages" => \A i \in DOMAIN ds[k].messages : ds[k].messages[i].role # "tool"

\* Every tool message belongs to a complete round.  A stray one may come to stand
\* behind another round when the messages between them are removed.
NoStrayResults(ms) ==
    \A k \in DOMAIN ms : ms[k].role = "tool" =>
        \E i \in 1..k-1 : IsCompleteRound(ms, i) /\ k <= ContiguousToolBlockEnd(ms, i)

\* A batch of additions and removals on a history without stray results keeps
\* every complete tool round, its messages side by side, or has taken all of it
\* by some state on the way, before any of its messages can be added again, and
\* leaves no stray result, however its deltas spread the removal:
\* validateToolRoundRemoval.
RoundsSurvive ==
    last # NoCommit /\ AddsAndRemoves(last.deltas) /\ NoStrayResults(last.path[1].segs["history"]) =>
        LET old == last.path[1].segs["history"]
            new == state.segs["history"]
        IN  /\ NoStrayResults(new)
            /\ \A i \in DOMAIN old : IsCompleteRound(old, i) =>
                 LET round == SubSeq(old, i, ContiguousToolBlockEnd(old, i))
                 IN  \/ \E j \in 1..Len(new) - Len(round) + 1 : SubSeq(new, j, j + Len(round) - 1) = round
                     \/ \E k \in DOMAIN last.path :
                          Elements(round) \cap Elements(last.path[k].segs["history"]) = {}

\* After a batch that put an artifact in the place of the others of its origin,
\* another artifact of that origin is there only if a later delta of the batch
\* put it there: dropArtifactsReplacedByOrigin, also where the artifact was
\* already there and is merged.
ReplacedByOriginGone ==
    \A k \in DOMAIN last.deltas :
        LET d == last.deltas[k]
        IN  d.op = "upsert_artifact" /\ d.artifact.policy = "replace" /\ HasOrigin(d.artifact) =>
              \A id \in DOMAIN state.arts \ {d.artifact.id} :
                 OriginKey(state.arts[id]) = OriginKey(d.artifact) =>
                   \E j \in k+1..Len(last.deltas) :
                      last.deltas[j].op = "upsert_artifact" /\ last.deltas[j].artifact.id = id

\* Once an offload has returned, every object the store gave a receipt of is
\* known to the host, as a published descriptor or as a cleanup intent, wherever
\* the call failed: nothing in the store is left without someone to claim or to
\* delete it.
OffloadsReported == call = NoOffload => DOMAIN objects \subseteq reported

\* An artifact committed with a blob shows the preview made for it, and the blob
\* is the payload of the artifact of that identity, although the store may have
\* written something else and deltas may merge, rename or edit the artifact;
\* and what is read back from the blob store is the payload that was moved there
\* (ArtifactBlob.Validate, ResolveBlob).
BlobsStandForOriginals ==
    /\ \A id \in DOMAIN state.arts :
         LET a == state.arts[id]
         IN  a.blob # None =>
               /\ a.blob.original.id = id
               /\ a.chunks = a.blob.preview
               /\ taken[a.blob.object.object] = a.blob.original.chunks
               /\ a.blob.object.content = a.blob.original.chunks
    /\ read # None => read.content = taken[read.object]
=============================================================================
