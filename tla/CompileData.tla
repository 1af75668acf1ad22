---------------------------- MODULE CompileData ----------------------------
(***************************************************************************)
(* The values a compilation works on: messages in four segments, content   *)
(* references, message merge policies, text replacements and artifacts.    *)
(*                                                                         *)
(* A message is what ToolRounds looks at plus rev, the rest of its         *)
(* content; origin, a template and a layer (None where it has none);       *)
(* blobs, the calls whose arguments were moved to a blob; and opaque, its  *)
(* opaque provider states in order.  An artifact carries the identity of   *)
(* the message made of it (artifact.ID behind the prefix "artifact:"), and *)
(* its payload is a sequence of chunks, which is what appending two text   *)
(* payloads makes of them.                                                 *)
(***************************************************************************)
EXTENDS ToolRounds, SequencesExt

CONSTANT None           \* an absent template, layer, owner, limit or turn

Segments == {"system", "history", "memory", "tools"}
EmptySnapshot == [g \in Segments |-> << >>]

\* snapshotSegmentOrder, and the order in which a payload is flattened.
SnapshotMessages(s) == s["system"] \o s["history"] \o s["memory"] \o s["tools"]
FlattenMessages(s) == s["system"] \o s["history"] \o s["tools"] \o s["memory"]

IDs(ms) == {ms[i].id : i \in DOMAIN ms}

\* validateUniqueMessageIDs.
UniqueIDs(ms) == \A i, j \in DOMAIN ms : ms[i].id = ms[j].id => i = j \/ ms[i].id = NoID

\* MessageContentRef: the identity and a digest of everything else.
Ref(m) == [id |-> m.id, rev |-> m.rev, role |-> m.role, calls |-> m.calls,
           results |-> m.results, blobs |-> m.blobs,
           opaque |-> [k \in DOMAIN m.opaque |-> m.opaque[k].id]]
Refs(ms) == [k \in DOMAIN ms |-> Ref(ms[k])]

\* roundSemanticRef: a message without everything but its tool parts.
RoundRef(m) == [id |-> m.id, role |-> m.role, calls |-> m.calls, results |-> m.results,
                blobs |-> m.blobs]

\* opaqueStateInventory: opaque states with the messages that carry them; a
\* state may appear once only.
Inventory(ms) ==
    UNION {{[state |-> ms[i].opaque[k], owner |-> ms[i].id] : k \in DOMAIN ms[i].opaque}
             : i \in DOMAIN ms}
InventoryValid(ms) ==
    \A i, j \in DOMAIN ms : \A k \in DOMAIN ms[i].opaque, l \in DOMAIN ms[j].opaque :
        ms[i].opaque[k].id = ms[j].opaque[l].id => i = j /\ k = l

\* historicalArgumentTarget: the complete round whose assistant the argument
\* belongs to, the call not being offloaded yet.
ArgumentTargets(ms, arg) ==
    {s \in Opens(ms) : /\ ms[s].id = arg.ref.id
                       /\ LocalState(ms, s) = "complete"
                       /\ arg.call \in Elements(ms[s].calls) \ ms[s].blobs}

-----------------------------------------------------------------------------
(* Merging the messages of a deferred block into a segment *)

Templates(ms) == {ms[i].origin.template : i \in DOMAIN ms} \ {None}
Layers(ms) == {ms[i].origin : i \in {i \in DOMAIN ms : ms[i].origin.layer # None}}

ApplyMergePolicy(existing, incoming, policy) ==
    Kept(existing, {m \in Elements(existing) :
        CASE policy = "append" -> TRUE
          [] policy = "replace" -> m.origin.template \notin Templates(incoming)
          [] policy = "dedup" -> m.origin \notin Layers(incoming)})
    \o incoming

-----------------------------------------------------------------------------
(* Text replacements: [segment, id, rev].  Those of the history wait until   *)
(* the budget has been applied.                                              *)

DueReplacements(reps, postBudget) ==
    SelectSeq(reps, LAMBDA r : (r.segment = "history") = postBudget)

ReplacementTargetsFound(s, reps) ==
    \A k \in DOMAIN reps : reps[k].id \in IDs(s[reps[k].segment])

\* patchTextOnMessage puts the new text in front of the parts that are not text.
ReplaceText(s, rep) ==
    LET ms == s[rep.segment]
        i == CHOOSE i \in DOMAIN ms : /\ ms[i].id = rep.id
                                      /\ \A j \in 1..i-1 : ms[j].id # rep.id
    IN  [s EXCEPT ![rep.segment] = [ms EXCEPT ![i].rev = rep.rev]]

ApplyTextReplacements(s, reps) == FoldLeft(ReplaceText, s, reps)

\* outputOptions: an output looks only for the targets it has.
OutputReplacements(s, reps) == SelectSeq(reps, LAMBDA r : r.id \in IDs(s[r.segment]))

-----------------------------------------------------------------------------
(* The current turn: [raw, safe, keep], safe being None or another rendering *)
(* of the same message.                                                      *)

PromptMessage(t) == IF t.safe = None THEN t.raw ELSE t.safe

PersistedMessages(t) ==
    CASE t.keep = "skip" -> << >>
      [] t.keep = "safe" -> <<PromptMessage(t)>>
      [] t.keep = "raw" -> <<t.raw>>

-----------------------------------------------------------------------------
(* Artifacts: [id, chunks, owner, sources, life, turn, policy, limit, keep]. *)

\* artifactOriginKey, artifacts being of one kind and type.
OriginKey(a) == <<a.owner, a.sources>>
HasOrigin(a) == a.owner # None \/ a.sources # {}

ArtifactVisibleInTurn(turn, a) ==
    a.life = "turn" => turn # None /\ a.turn = turn

AppendArtifactPayload(old, new) ==
    [new EXCEPT !.chunks = old.chunks \o @, !.sources = old.sources \cup @]

ShareSourceLayer(a, b) == a.sources \cap b.sources # {}

MergeArtifact(old, new) ==
    CASE new.policy = "append" -> AppendArtifactPayload(old, new)
      [] new.policy = "dedup" -> IF ShareSourceLayer(old, new) THEN old ELSE new
      [] OTHER -> new

\* Defect of upsertArtifact: replacing by origin also removes the artifact the
\* new one is about to be merged with, so the new one moves to the end.
UpsertArtifactAtEnd(as, new) ==
    Append(SelectSeq(as, LAMBDA a : a.id # new.id), new)

UpsertArtifact(as, new) ==
    LET kept == IF new.policy = "replace" /\ HasOrigin(new)
                THEN Kept(as, {a \in Elements(as) : a.id = new.id \/ OriginKey(a) # OriginKey(new)})
                ELSE as
        same == {i \in DOMAIN kept : kept[i].id = new.id}
        i == Min(same)
    IN  IF new.id = NoID \/ same = {} THEN Append(kept, new)
        ELSE [kept EXCEPT ![i] = IF new.life = "ephemeral" THEN new
                                 ELSE MergeArtifact(kept[i], new)]

MergeArtifacts(as) == FoldLeft(UpsertArtifact, << >>, as)

ArtifactIDs(as) == {as[i].id : i \in DOMAIN as}

\* artifactShouldPersist and persistentArtifacts.
ArtifactShouldPersist(a) ==
    a.keep = "store" \/ (a.keep = "default" /\ a.life = "persistent")
PersistentArtifacts(as) == SelectSeq(as, ArtifactShouldPersist)

\* materializationMessage: the message a representation of the artifact becomes.
MaterializedMessage(a, rep) ==
    [id |-> a.id, role |-> "user", calls |-> << >>, results |-> << >>,
     rev |-> rep, origin |-> [template |-> None, layer |-> None], blobs |-> {}, opaque |-> << >>]

=============================================================================
