------------------------- MODULE ConversationDelta -------------------------
(***************************************************************************)
(* Conversation states, the deltas that change them, and the projection to *)
(* what a checkpoint keeps.                                                *)
(*                                                                         *)
(* A state is [rev, segs, arts], arts being a function from identities to  *)
(* artifacts.  An artifact may have a blob: [object, original, preview],   *)
(* object being the descriptor of the stored payload, original the         *)
(* reference of the artifact it was taken from and preview the digest of   *)
(* what is left in its place.  A delta is [op, segment, messages,          *)
(* messageIDs, artifactIDs, artifact, round], the last four None where     *)
(* absent; removed identities are sets.                                    *)
(***************************************************************************)
EXTENDS Persistence

EmptyState == [rev |-> 0, segs |-> EmptySnapshot, arts |-> << >>]

\* None also stands for the result of a refused delta or checkpoint.

-----------------------------------------------------------------------------
(* Artifacts of a state *)

Without(arts, ids) == [id \in DOMAIN arts \ ids |-> arts[id]]

\* dropArtifactsReplacedByOrigin.
ReplacedByOrigin(arts, new) ==
    IF new.policy # "replace" \/ ~HasOrigin(new) THEN {}
    ELSE {id \in DOMAIN arts : id # new.id /\ OriginKey(arts[id]) = OriginKey(new)}

\* Defect of mergeArtifactMaps: an artifact that is there is merged before the
\* others of its origin are dropped, and the loop goes on.
MergeFirst(arts, new) ==
    IF new.id \in DOMAIN arts
    THEN [arts EXCEPT ![new.id] = MergeArtifact(@, new)]
    ELSE LET kept == Without(arts, ReplacedByOrigin(arts, new))
         IN  [id \in DOMAIN kept \cup {new.id} |-> IF id = new.id THEN new ELSE kept[id]]

\* WithArtifact, mergeArtifactMaps.
WithArtifact(arts, new) ==
    LET kept == Without(arts, ReplacedByOrigin(arts, new))
    IN  [id \in DOMAIN kept \cup {new.id} |->
            IF id # new.id THEN kept[id]
            ELSE IF id \in DOMAIN kept THEN MergeArtifact(kept[id], new) ELSE new]

-----------------------------------------------------------------------------
(* ApplyDelta *)

\* validateArtifactRemovalIDs.
DeltaIDsValid(d) ==
    IF d.op = "remove_artifact" THEN d.messageIDs = None ELSE d.artifactIDs = None

\* EncodeDelta and DecodeDelta: an empty list of identities is not written, and
\* a list that does not belong to the operation is refused by its presence.
OverWire(d) ==
    LET written(ids) == IF ids = {} THEN None ELSE ids
    IN  [d EXCEPT !.messageIDs = written(@), !.artifactIDs = written(@)]

Given(ids) == IF ids = None THEN {} ELSE ids

\* Defect of validateToolRoundRemoval: only the assistant's removal is looked at.
AssistantsOnly(ms, ids) ==
    \A i \in DOMAIN ms : IsCompleteRound(ms, i) /\ ms[i].id \in ids =>
        \A k \in i..ContiguousToolBlockEnd(ms, i) : ms[k].id \in ids

\* validateToolRoundRemoval: a complete round goes as a whole or stays.
RemovalKeepsRounds(ms, ids) ==
    \A i \in DOMAIN ms : IsCompleteRound(ms, i) =>
        LET round == i..ContiguousToolBlockEnd(ms, i)
        IN  (\E k \in round : ms[k].id \in ids) => \A k \in round : ms[k].id \in ids

WithSegment(s, g, ms) == [s EXCEPT !.segs[g] = ms]

\* The messages that stay, in their order: the loop of applyRemoveMessages.
MessagesWithout(ms, ids) == Kept(ms, {m \in Elements(ms) : m.id \notin ids})

RemoveMessages(s, d) ==
    LET ms == s.segs[d.segment]
        ids == Given(d.messageIDs)
    IN  IF d.segment = "history" /\ ~RemovalKeepsRounds(ms, ids) THEN None
        ELSE WithSegment(s, d.segment, MessagesWithout(ms, ids))

\* applyAppendToolRound: the messages of one complete round and nothing else.
RoundComplete(ms) == ms # << >> /\ IsCompleteRound(ms, 1) /\ ContiguousToolBlockEnd(ms, 1) = Len(ms)

ApplyDelta(s, d) ==
    IF ~DeltaIDsValid(d) THEN None
    ELSE CASE d.op = "append_messages" -> WithSegment(s, d.segment, s.segs[d.segment] \o d.messages)
           [] d.op = "replace_segment" -> WithSegment(s, d.segment, d.messages)
           [] d.op = "remove_messages" -> RemoveMessages(s, d)
           [] d.op = "clear_segment" -> WithSegment(s, d.segment, << >>)
           [] d.op = "clear_state" -> [EmptyState EXCEPT !.rev = s.rev]
           [] d.op = "upsert_artifact" ->
                IF d.artifact = None THEN None
                ELSE [s EXCEPT !.arts = WithArtifact(@, d.artifact)]
           [] d.op = "remove_artifact" -> [s EXCEPT !.arts = Without(@, Given(d.artifactIDs))]
           [] d.op = "append_tool_round" ->
                IF d.round = None \/ ~RoundComplete(d.round) THEN None
                ELSE WithSegment(s, "history", s.segs["history"] \o d.round)
           [] d.op = "" -> s
           [] OTHER -> None

\* ApplyDeltas: the states on the way, up to the first delta that is refused.
ApplyDeltas(s, ds) ==
    FoldLeft(LAMBDA path, d : IF Last(path) = None THEN path ELSE Append(path, ApplyDelta(Last(path), d)),
             <<s>>, ds)

-----------------------------------------------------------------------------
(* ProjectCheckpoint *)

ArtifactRef(a) == [id |-> a.id, chunks |-> a.chunks]

\* Defect of validateArtifactBlob: the payload is not compared with the preview.
PreviewUnchecked(a) ==
    a.blob # None =>
        /\ a.blob.original.id = a.id
        /\ a.blob.object.media = "json"
        /\ a.blob.original \in a.blob.object.sources

\* validateArtifactBlob.
ArtifactBlobValid(a) ==
    a.blob # None =>
        /\ a.blob.original.id = a.id
        /\ a.blob.object.media = "json"
        /\ a.blob.original \in a.blob.object.sources
        /\ a.blob.preview = a.chunks

BlobsValid(s) == \A id \in DOMAIN s.arts : ArtifactBlobValid(s.arts[id])

\* ProjectCheckpoint: working artifacts are left behind.
ProjectCheckpoint(s, profile) ==
    IF ~OpaqueStateValid(FlattenMessages(s.segs), profile) \/ NoID \in DOMAIN s.arts \/ ~BlobsValid(s)
    THEN None
    ELSE [s EXCEPT !.arts = [id \in {id \in DOMAIN @ : ArtifactShouldPersist(@[id])} |-> @[id]]]

\* ConversationCodec: Decode of what Encode wrote checks the state again.
EncodeDecode(s, profile) ==
    IF s = None \/ ~OpaqueStateValid(FlattenMessages(s.segs), profile) \/ ~BlobsValid(s)
    THEN None ELSE s

\* What a commit of these deltas makes of a state, with the states on the way.
Checkpoint(s, ds, profile) ==
    LET path == ApplyDeltas(s, ds)
        next == IF Last(path) = None THEN None
                ELSE EncodeDecode(ProjectCheckpoint(Last(path), profile), profile)
    IN  [path |-> path, next |-> IF next = None THEN None ELSE [next EXCEPT !.rev = s.rev + 1]]
=============================================================================
