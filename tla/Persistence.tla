---------------------------- MODULE Persistence ----------------------------
(***************************************************************************)
(* What a compilation leaves to be stored: the records of what its stages  *)
(* did to every message, and the state derived from them in which changes  *)
(* made only for the prompt are undone.                                    *)
(*                                                                         *)
(* A recorder is [records, introduced].  A chain of records stands for its *)
(* Final, which is a fold over the chain; reasons are told apart as far as *)
(* Final does: "replaced" for the three replacing ones, "in place" for the *)
(* others.  introduced has the first form of every message that was not in *)
(* the request.  The request is [segs, pending, current].                  *)
(***************************************************************************)
EXTENDS OpaqueState

Step(action, reason) == [action |-> action, reason |-> reason]
Passed == Step("passed", "")
InPlace == Step("formatted", "in place")
ReplacedBy == Step("formatted", "replaced")
EvictedStep == Step("evicted", "")

\* Defect of Final: the last record counts.
LastRecord(before, step) == step

\* TransformChain.Final, one record at a time: what was removed or replaced
\* stays so, whatever is observed of it later.
Final(before, step) ==
    IF \/ step.action \in {"evicted", "truncated"}
       \/ before.action \notin {"evicted", "truncated"} /\ before # ReplacedBy
    THEN step ELSE before

\* transformRecorder.set.
Record(rec, ids, step) ==
    [rec EXCEPT !.records =
        [id \in DOMAIN rec.records \cup ids |->
            IF id \notin ids THEN rec.records[id]
            ELSE IF id \in DOMAIN rec.records THEN Final(rec.records[id], step) ELSE step]]

ByID(ms, id) == ms[Min({i \in DOMAIN ms : ms[i].id = id})]

\* introduceIfAbsent.
Introduce(rec, ms) ==
    [rec EXCEPT !.introduced =
        [id \in DOMAIN rec.introduced \cup (IDs(ms) \ {NoID}) |->
            IF id \in DOMAIN rec.introduced THEN rec.introduced[id] ELSE ByID(ms, id)]]

NewRecorder(ms) ==
    [records |-> [id \in IDs(ms) \ {NoID} |-> Passed], introduced |-> << >>]

\* Messages of a segment that are gone, and that are there in another form.
Lost(before, after) == IDs(before) \ (IDs(after) \cup {NoID})
Changed(before, after) ==
    {id \in (IDs(before) \cap IDs(after)) \ {NoID} : ByID(before, id) # ByID(after, id)}
New(before, after) == SelectSeq(after, LAMBDA m : m.id \notin IDs(before) \cup {NoID})

\* registerDeferredMessageIDs: the records of a known identity stay.
RegisterDeferred(rec, before, after) ==
    LET new == New(before, after)
    IN  Record(Introduce(rec, new), IDs(new) \ DOMAIN rec.records, Passed)

\* recordContentTransformCtx, introduced being the record of what is new.
RecordContent(rec, before, after, introduced) ==
    LET new == New(before, after)
        kept == Record(Record(rec, Lost(before, after), ReplacedBy), Changed(before, after), InPlace)
    IN  Record(Introduce(kept, new), IDs(new), introduced)

Order == <<"system", "history", "memory", "tools">>

RecordHook(rec, before, after) ==
    FoldLeft(LAMBDA r, g : RecordContent(r, before[g], after[g], InPlace), rec, Order)
RecordFormatter(rec, before, after) ==
    FoldLeft(LAMBDA r, g : RecordContent(r, before[g], after[g], Passed), rec, Order)

\* recordTextReplacementCtx and recordOutputPolicyMessage, of a whole snapshot.
RecordReplacements(rec, before, after) ==
    LET changed == Changed(SnapshotMessages(before), SnapshotMessages(after))
    IN  Record(Introduce(rec, SelectSeq(SnapshotMessages(before), LAMBDA m : m.id \in changed)),
               changed, InPlace)
RecordPolicy(rec, before, after) ==
    Record(rec, Changed(SnapshotMessages(before), SnapshotMessages(after)), InPlace)

\* recordEvictionsCtx and recordSummarizeReplaceCtx: gone are the messages that
\* were dropped or summarised, summary the messages made of them.
RecordBudget(rec, gone, summary) ==
    Record(Introduce(Record(rec, gone \ {NoID}, EvictedStep), summary), IDs(summary), Passed)

\* recordCurrentTurnProjectionCtx.
RecordCurrentTurn(rec, t) ==
    IF t # None /\ PromptMessage(t) # t.raw THEN Record(rec, {t.raw.id}, InPlace) ELSE rec

\* markProtectedPending.
MarkProtected(rec, ids) ==
    Record(rec, {id \in ids \ {NoID} : id \notin DOMAIN rec.records \/ rec.records[id] = Passed}, Passed)

-----------------------------------------------------------------------------
(* DerivePersistenceState *)

\* shouldPersistSourceMessage, shouldPersistPayloadAdd, isInPlaceFormatReason.
ShouldPersist(r) == r \in {Passed, InPlace}

\* pendingIDSet.
PendingIDs(req) == (IDs(req.pending) \cup IF req.current = None THEN {} ELSE {req.current.raw.id}) \ {NoID}

PersistedSource(req, rec, g) ==
    SelectSeq(req.segs[g], LAMBDA m :
        /\ m.id # NoID
        /\ g = "history" => m.id \notin PendingIDs(req)
        /\ m.id \in DOMAIN rec.records => ShouldPersist(rec.records[m.id]))

\* What payloadAddsForSegment looks at: messages the request did not have.
PayloadAdds(req, rec, shown, arts, g) ==
    SelectSeq(shown, LAMBDA m :
        /\ m.id \notin ArtifactIDs(arts) \cup PendingIDs(req) \cup IDs(req.segs[g]) \cup {NoID}
        /\ m.id \in DOMAIN rec.records /\ ShouldPersist(rec.records[m.id])
        /\ m.id \in DOMAIN rec.introduced \/ rec.records[m.id] # InPlace)

AsIntroduced(rec, m) == IF m.id \in DOMAIN rec.introduced THEN rec.introduced[m.id] ELSE m

\* orderPersistenceMessages: the order of the payload, then the rest.
InPayloadOrder(selected, shown) ==
    LET there == SelectSeq(shown, LAMBDA m : m.id \in IDs(selected))
    IN  [k \in DOMAIN there |-> ByID(selected, there[k].id)]
        \o SelectSeq(selected, LAMBDA m : m.id \notin IDs(shown))

\* derivePersistenceSegment and currentTurnPersistenceMessages.
PersistenceSegment(req, rec, shown, arts, g) ==
    LET adds == PayloadAdds(req, rec, shown, arts, g)
        selected == PersistedSource(req, rec, g) \o [k \in DOMAIN adds |-> AsIntroduced(rec, adds[k])]
    IN  InPayloadOrder(selected, shown)
        \o IF g = "history" /\ req.current # None THEN PersistedMessages(req.current) ELSE << >>

\* ValidateOpaqueState: one invalid state refuses the whole state.
OpaqueStateValid(ms, profile) ==
    Origins(ms) # {} =>
        /\ UniqueIDs(ms) /\ InventoryValid(ms)
        /\ \A o \in Origins(ms) : StateHolds(ms, o.owner, o.state, profile)

\* DerivePersistenceState, then ProjectCheckpoint: None if the opaque states of
\* the derived messages do not hold among each other.
DerivePersistenceState(req, rec, payload, arts, profile) ==
    LET segs == [g \in Segments |-> PersistenceSegment(req, rec, payload[g], arts, g)]
    IN  IF OpaqueStateValid(FlattenMessages(segs), profile)
        THEN [segs |-> segs, arts |-> PersistentArtifacts(arts)] ELSE None
=============================================================================
