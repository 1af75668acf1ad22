--------------------------- MODULE CompilePrepare ---------------------------
(***************************************************************************)
(* The shared preparation of a compilation: Compile and CompileSnapshot up *)
(* to prepareCompile's return.  The request is checked, merged with the    *)
(* stored conversation, given message identities; its artifacts become     *)
(* messages; deferred blocks are resolved one after the other, and the     *)
(* resources they bring replace, extend or leave alone the artifacts that  *)
(* are active.                                                             *)
(*                                                                         *)
(* Host callbacks (store, identity policy, materialisation, Resolve) take  *)
(* a step each and may fail or be cut short by the caller's context.       *)
(* Payloads of artifacts are text.  Traces, captures and records are left  *)
(* out.                                                                    *)
(*                                                                         *)
(* An engine is [store, named, config, mat, opaque, blocks]: whether it    *)
(* has a store and a conversation ID, whether the configuration is valid   *)
(* apart from materialisation, whether it has a (valid) materialisation    *)
(* policy and an opaque state policy, and its blocks [segment, merge,      *)
(* selections].  A request is [loads, turn, segs, pending, current, arts,  *)
(* identity, durable, targetsOk, args]; segs maps a segment to None or     *)
(* messages, args are offloaded call arguments [ref, call].  A block       *)
(* resolves to [messages, resources], a resource being [sel, artifact,     *)
(* rep].                                                                   *)
(***************************************************************************)
EXTENDS CompileData

CONSTANTS
    Engines, Requests,
    Stored,                 \* conversations the store may hold: [segs, arts]
    Representations,        \* what Materialize may make of an artifact
    Resolutions(_),         \* what Resolve of a block may return
    HostID(_, _)            \* a host's own identity policy, by segment and index

AreMessages(ms) == ms \in Seq(Elements(ms)) /\ \A i \in DOMAIN ms : "id" \in DOMAIN ms[i]
AreArtifacts(as) == as \in Seq(Elements(as)) /\ \A i \in DOMAIN as : "id" \in DOMAIN as[i]
AreSegments(segs) == \A g \in Segments : segs[g] # None => AreMessages(segs[g])

\* What the deferred blocks of the engines may resolve to.
Resolved == UNION {UNION {Resolutions(e.blocks[i]) : i \in DOMAIN e.blocks} : e \in Engines}

\* The values handed to the engine have the form of their types.
ASSUME InputsAssumption ==
    /\ \A e \in Engines :
         /\ e.mat \in {"none", "valid", "broken"}
         /\ \A i \in DOMAIN e.blocks : /\ e.blocks[i].segment \in Segments
                                      /\ e.blocks[i].merge \in {"append", "replace", "dedup"}
    /\ \A r \in Requests :
         /\ {"segs", "arts", "pending", "current", "identity", "args"} \subseteq DOMAIN r
         /\ r.identity \in {"none", "event", "host"} /\ r.args \in Seq(Elements(r.args))
         /\ AreSegments(r.segs) /\ AreMessages(r.pending) /\ AreArtifacts(r.arts)
         /\ r.current # None =>
              "id" \in DOMAIN r.current.raw /\ "id" \in DOMAIN PromptMessage(r.current)
    /\ \A c \in Stored : AreSegments(c.segs) /\ AreArtifacts(c.arts)
    /\ \A res \in Resolved :
         /\ AreMessages(res.messages) /\ res.resources \in Seq(Elements(res.resources))
         /\ \A k \in DOMAIN res.resources : "id" \in DOMAIN res.resources[k].artifact

\* The identities of all artifacts, as those of their messages.
ArtifactIdentities ==
    (UNION {ArtifactIDs(x.arts) : x \in Requests \cup Stored})
    \cup (UNION {{res.resources[k].artifact.id : k \in DOMAIN res.resources} : res \in Resolved})

\* validateResourceMessageIdentities.
HostMessagesDistinct(res) ==
    \A k \in DOMAIN res.resources : res.resources[k].artifact.id \notin IDs(res.messages)

HostIdentities(segs) == UNION {IDs(segs[g]) : g \in {g \in Segments : segs[g] # None}}

\* Hosts leave the prefix of artifact messages to the library, which tells these
\* messages by their identity alone (removeReplacedResourceContent): no message
\* that a host hands in has such an identity, nor does the library make one up.
ASSUME IdentitiesAssumption ==
    /\ \A id \in ArtifactIdentities : id # NoID /\ id[1] \notin {"random", "event"}
    /\ \A r \in Requests :
         /\ (HostIdentities(r.segs) \cup IDs(r.pending)) \cap ArtifactIdentities = {}
         /\ r.current # None =>
              {r.current.raw.id, PromptMessage(r.current).id} \cap ArtifactIdentities = {}
    /\ \A c \in Stored : HostIdentities(c.segs) \cap ArtifactIdentities = {}
    /\ \A res \in Resolved :
         HostMessagesDistinct(res) => IDs(res.messages) \cap ArtifactIdentities = {}

VARIABLES
    eng, req,
    pc,             \* the next stage, or "prepared" or "failed"
    cursor,         \* the artifact, block or resource that is next
    snap, pend,     \* the snapshot; the pending messages
    writebacks,     \* identities assigned, as [segment, index, id, current]
    cache,          \* materialisationState.messages, by artifact revision
    rs,             \* resourceCompileState [active, ids, removed]
    block,          \* [res, next, messages]: the block being resolved
    inventory,      \* opaque states with their owners
    calls,          \* the host callbacks made, in order
    answer          \* the error returned, or "none"

prepareVars == <<eng, req, pc, cursor, snap, pend, writebacks, cache, rs, block, inventory,
                 calls, answer>>

source == <<eng, req>>
content == <<snap, pend, writebacks, inventory>>

NoBlock == [res |-> [messages |-> << >>, resources |-> << >>], next |-> 1, messages |-> << >>]

PrepareInit ==
    /\ eng \in Engines
    /\ req \in Requests
    /\ pc = "configure"
    /\ cursor = 1
    /\ snap = EmptySnapshot
    /\ pend = << >>
    /\ writebacks = << >>
    /\ cache = << >>
    /\ rs = [active |-> << >>, ids |-> {}, removed |-> {}]
    /\ block = NoBlock
    /\ inventory = {}
    /\ calls = << >>
    /\ answer = "none"

Called(what) == calls' = Append(calls, [what |-> what])
Fail(err) ==
    /\ answer' = err
    /\ pc' = "failed"
    /\ UNCHANGED <<source, cursor, content, cache, rs, block>>

\* The caller's context ends; every stage looks at it before it goes on.
Interrupted ==
    /\ pc \notin {"prepared", "failed"}
    /\ Fail("canceled")
    /\ UNCHANGED calls

-----------------------------------------------------------------------------
(* Configuration and source *)

\* validateOutputPolicies: artifacts need a materialisation policy.
ConfigurationValid(e, arts) ==
    /\ e.config
    /\ e.mat = "none" => arts = << >>
    /\ e.mat # "broken"

\* Defect of Compile: only compileRequest checks the configuration.
CheckConfigurationLate ==
    /\ pc = "configure"
    /\ pc' = IF eng.store /\ req.loads THEN "load" ELSE "recheck"
    /\ UNCHANGED <<source, cursor, content, cache, rs, block, answer, calls>>

\* Compile; CompileSnapshot goes straight to compileRequest, which checks too.
CheckConfiguration ==
    /\ pc = "configure"
    /\ IF (eng.store /\ req.loads /\ ~eng.named) \/ ~ConfigurationValid(eng, req.arts)
       THEN Fail("configuration")
       ELSE /\ pc' = IF eng.store /\ req.loads THEN "load" ELSE "recheck"
            /\ UNCHANGED <<source, cursor, content, cache, rs, block, answer>>
    /\ UNCHANGED calls

\* mergeCompileRequest: a segment the request gives hides the stored one, the
\* tools only come from the request, stored artifacts precede the request's.
MergeCompileRequest(stored, r) ==
    [r EXCEPT !.segs = [g \in Segments |-> IF r.segs[g] # None \/ g = "tools" THEN r.segs[g]
                                           ELSE stored.segs[g]],
              !.arts = stored.arts \o @]

LoadSnapshot ==
    /\ pc = "load"
    /\ Called("load")
    /\ \/ /\ \E stored \in Stored : req' = MergeCompileRequest(stored, req)
          /\ pc' = "recheck"
          /\ UNCHANGED <<eng, cursor, content, cache, rs, block, answer>>
       \/ Fail("store")

Recheck ==
    /\ pc = "recheck"
    /\ IF ConfigurationValid(eng, req.arts)
       THEN /\ pc' = "normalize"
            /\ UNCHANGED <<source, cursor, content, cache, rs, block, answer>>
       ELSE Fail("configuration")
    /\ UNCHANGED calls

-----------------------------------------------------------------------------
(* Identities *)

\* EnsureMessageID: random, hence an identity of its own for every place.
FreshID(at) == <<"random", at.segment, at.block, at.index>>

\* StableMessageIdentityPolicy: the turn, the kind of event and its ordinal.
EventID(turn, at) ==
    <<"event", turn, IF at.current THEN "current_turn" ELSE "pending_event", at.ordinal>>

\* normalizeMessageForCompile: at is where the message stands, [segment, index,
\* ordinal, pending, current, block].
Nameable(m, at) ==
    \/ m.id # NoID
    \/ CASE req.identity = "none" -> ~req.durable
         [] req.identity = "event" -> req.turn # None /\ (at.pending \/ at.current)
         [] req.identity = "host" -> HostID(at.segment, at.index) # NoID

Named(m, at) ==
    [m EXCEPT !.id =
        IF m.id # NoID THEN m.id
        ELSE CASE req.identity = "none" -> FreshID(at)
               [] req.identity = "event" -> EventID(req.turn, at)
               [] req.identity = "host" -> HostID(at.segment, at.index)]

At(segment, index, ordinal) ==
    [segment |-> segment, index |-> index, ordinal |-> ordinal, pending |-> FALSE,
     current |-> FALSE, block |-> 0]

Requested(g) == IF req.segs[g] = None THEN << >> ELSE req.segs[g]

\* Every message of the request with its place; h messages of the history
\* precede the pending ones, and the current turn comes last.
PlacesAfter(h) ==
    LET placed(g) == [k \in DOMAIN Requested(g) |-> <<Requested(g)[k], At(g, k, k)>>]
        pending == [k \in DOMAIN req.pending |->
                      <<req.pending[k], [At("history", h + k, k) EXCEPT !.pending = TRUE]>>]
        n == h + Len(req.pending) + 1
    IN  placed("system") \o placed("history") \o placed("memory") \o placed("tools") \o pending
        \o IF req.current = None THEN << >>
           ELSE << <<req.current.raw, [At("history", n, 1) EXCEPT !.current = TRUE]>> >>

\* Defect of normalizeCompileRequest: the pending messages are counted from the
\* start of the history.
PlacesFromZero == PlacesAfter(0)
Places == PlacesAfter(Len(Requested("history")))

NamedSegment(g) == [k \in DOMAIN Requested(g) |-> Named(Requested(g)[k], At(g, k, k))]
NamedPlaces == [k \in DOMAIN Places |-> Named(Places[k][1], Places[k][2])]
NamedTail ==
    LET named == [k \in DOMAIN Places |-> <<NamedPlaces[k], Places[k][2]>>]
    IN  Kept(named, {p \in Elements(named) : p[2].pending \/ p[2].current})

\* normalizeCurrentTurnForCompile: a prompt-safe message is the same message.
CurrentTurnValid ==
    req.current # None /\ req.current.safe # None =>
        LET safe == req.current.safe.id
            raw == NamedPlaces[Len(Places)].id
        IN  safe = NoID \/ safe = raw

AssignedIDs ==
    LET named == [k \in DOMAIN Places |-> <<NamedPlaces[k], Places[k]>>]
        new == Kept(named, {p \in Elements(named) : p[2][1].id = NoID})
    IN  [k \in DOMAIN new |-> [segment |-> new[k][2][2].segment, index |-> new[k][2][2].index,
                               id |-> new[k][1].id, current |-> new[k][2][2].current]]

\* compilePendingMessages: the current turn's prompt closes the pending messages.
CompilePending ==
    LET tail == [k \in DOMAIN NamedTail |-> NamedTail[k][1]]
        n == Len(tail)
    IN  IF req.current = None \/ req.current.safe = None THEN tail
        ELSE [tail EXCEPT ![n] = [req.current.safe EXCEPT !.id = tail[n].id]]

\* compileRequest up to runCompilePipeline: normalizeCompileRequest and Validate.
Normalize ==
    /\ pc = "normalize"
    /\ IF \E k \in DOMAIN Places : ~Nameable(Places[k][1], Places[k][2])
       THEN Fail("identity")
       ELSE IF ~CurrentTurnValid \/ ~UniqueIDs(NamedPlaces) \/ ~req.targetsOk THEN Fail("request")
       ELSE /\ snap' = [g \in Segments |-> NamedSegment(g)]
            /\ pend' = CompilePending
            /\ writebacks' = AssignedIDs
            /\ req' = [req EXCEPT !.arts = MergeArtifacts(@)]
            /\ inventory' = Inventory(NamedPlaces)
            /\ pc' = "opaque"
            /\ UNCHANGED <<eng, cursor, cache, rs, block, answer>>
    /\ UNCHANGED calls

-----------------------------------------------------------------------------
(* Start of prepareCompile *)

\* validateCompileHistoricalArguments.
HistoricalArgumentsValid(ms, args) ==
    /\ args # << >> => LayoutValid(ms) /\ UniqueIDs(ms)
    /\ \A k \in DOMAIN args :
         /\ \E s \in ArgumentTargets(ms, args[k]) : Ref(ms[s]) = args[k].ref
         /\ \A l \in 1..k-1 : <<args[l].ref.id, args[l].call>> # <<args[k].ref.id, args[k].call>>

\* applyHistoricalArguments: the call keeps a preview and a reference.
OffloadArgument(ms, arg) ==
    LET s == CHOOSE s \in ArgumentTargets(ms, arg) : TRUE
    IN  [ms EXCEPT ![s].blobs = @ \cup {arg.call}]

\* initializeOpaqueStateContext, then prepareCompileHistoricalOptions.
StartPreparation ==
    /\ pc = "opaque"
    /\ IF ~InventoryValid(NamedPlaces) \/ (inventory # {} /\ ~eng.opaque) THEN Fail("opaque")
       ELSE IF ~HistoricalArgumentsValid(snap["history"], req.args) THEN Fail("arguments")
       ELSE /\ rs' = [rs EXCEPT !.ids = ArtifactIDs(req.arts)]
            /\ pc' = "select"
            /\ UNCHANGED <<source, cursor, content, cache, block, answer>>
    /\ UNCHANGED calls

Remember(seen, a, m) == [b \in DOMAIN seen \cup {a} |-> IF b = a THEN m ELSE seen[b]]

\* The messages the host's policy may make of an artifact.
MessagesOf(a) ==
    {MaterializedMessage(a, Append(a.chunks, rep)) : rep \in Representations}

AskHost(a) == calls' = Append(calls, [what |-> "materialize", artifact |-> a])

\* artifactMessage: what the host made of this very revision, asked once.
Materialize(seen, a, m) ==
    IF a \in DOMAIN seen THEN m = seen[a] /\ cache' = seen /\ UNCHANGED calls
    ELSE AskHost(a) /\ cache' = Remember(seen, a, m)

MaterializeFails(seen, a) ==
    /\ a \notin DOMAIN seen
    /\ AskHost(a)
    /\ Fail("materialization")

\* selectArtifacts over the request's artifacts; limits wait for the outputs.
SelectArtifact ==
    /\ pc = "select"
    /\ cursor \in DOMAIN req.arts
    /\ LET a == req.arts[cursor]
       IN  IF ~ArtifactVisibleInTurn(req.turn, a)
           THEN /\ cursor' = cursor + 1
                /\ UNCHANGED <<source, pc, content, cache, rs, block, calls, answer>>
           ELSE \/ /\ \E m \in MessagesOf(a) : Materialize(cache, a, m)
                   /\ rs' = [rs EXCEPT !.active = UpsertArtifact(@, a)]
                   /\ cursor' = cursor + 1
                   /\ UNCHANGED <<source, pc, content, block, answer>>
                \/ MaterializeFails(cache, a)

\* snapshotWithActiveArtifacts: artifact messages end the memory segment.
WithActiveArtifacts(s) ==
    [s EXCEPT !["memory"] = @ \o [k \in DOMAIN rs.active |-> cache[rs.active[k]]]]

AddArtifactMessages ==
    /\ pc = "select"
    /\ cursor > Len(req.arts)
    /\ snap' = [WithActiveArtifacts(snap) EXCEPT
                   !["history"] = FoldLeft(OffloadArgument, @, req.args)]
    /\ cursor' = 1
    /\ pc' = "deferred"
    /\ UNCHANGED <<source, pend, writebacks, inventory, cache, rs, block, calls, answer>>

-----------------------------------------------------------------------------
(* Deferred blocks *)

ResolveBlock ==
    /\ pc = "deferred"
    /\ cursor \in DOMAIN eng.blocks
    /\ Called("resolve")
    /\ \/ \E res \in Resolutions(eng.blocks[cursor]) :
            IF Len(res.resources) # Len(eng.blocks[cursor].selections) THEN Fail("dependency")
            ELSE IF ~HostMessagesDistinct(res) THEN Fail("resource")
            ELSE /\ block' = [res |-> res, next |-> 1, messages |-> res.messages]
                 /\ pc' = "resource"
                 /\ UNCHANGED <<source, cursor, content, cache, rs, answer>>
       \/ Fail("resolver")

\* validateDeferredResource: what was resolved is what the block declared.
Declared(r) == r.sel = eng.blocks[cursor].selections[block.next]

\* registerMaterializedArtifact: the resource's message must be the one the
\* compilation knows for this revision.
Registrable(r, message) ==
    /\ eng.mat = "valid"
    /\ r.artifact \in DOMAIN cache => cache[r.artifact] = message

\* resourceRetainsExisting.
RetainsExisting(as, a) ==
    /\ a.policy = "dedup"
    /\ a.life # "ephemeral"
    /\ \E k \in DOMAIN as : as[k].id = a.id /\ ShareSourceLayer(as[k], a)

\* admitDeferredResource: the resource stays without effect.
LeftOut(a) == ~ArtifactVisibleInTurn(req.turn, a) \/ RetainsExisting(rs.active, a)

\* artifactRevisionPresent: the messages of the artifacts that were replaced go.
Replaced(before, after, a) ==
    {before[k].id : k \in {k \in DOMAIN before : before[k].id = a.id \/ before[k] \notin Elements(after)}}

\* The artifacts a appends to.
AppendTargets(as, a) ==
    {k \in DOMAIN as : as[k].id = a.id /\ a.policy = "append" /\ a.life # "ephemeral"}

\* projectResourceAppend: the artifact at k extended by a.
ProjectedAppend(k, a) == AppendArtifactPayload(rs.active[k], a)

\* The resource is dealt with; messages are what it adds to the block.
Admitted(a, active, removed, messages) ==
    /\ rs' = [active |-> active, ids |-> rs.ids \cup {a.id}, removed |-> rs.removed \cup removed]
    /\ block' = [block EXCEPT !.next = @ + 1, !.messages = @ \o messages]

\* Defect of admitResourceAppend: the old message of the artifact stays.
AppendResourceKeepsOld(a, k, merged, m) ==
    Admitted(a, [rs.active EXCEPT ![k] = merged], {}, <<m>>)

\* admitResourceAppend.
AppendResource(a, k, merged, m) ==
    Admitted(a, [rs.active EXCEPT ![k] = merged], {a.id}, <<m>>)

CommitResource(a, m) ==
    LET after == UpsertArtifact(rs.active, a)
    IN  Admitted(a, after, Replaced(rs.active, after, a), <<m>>)

\* resolvedDeferredMessages and admitDeferredResource for one resource:
\* registered, then left out, appended to an artifact, or committed.
AdmitResource ==
    /\ pc = "resource"
    /\ block.next \in DOMAIN block.res.resources
    /\ UNCHANGED <<source, cursor, content>>
    /\ LET r == block.res.resources[block.next]
           a == r.artifact
           message == MaterializedMessage(a, Append(a.chunks, r.rep))
           seen == Remember(cache, a, message)
           targets == AppendTargets(rs.active, a)
           k == Min(targets)
           merged == ProjectedAppend(k, a)
       IN  IF ~Declared(r) THEN Fail("mismatch") /\ UNCHANGED calls
           ELSE IF ~Registrable(r, message) THEN Fail("materialization") /\ UNCHANGED calls
           ELSE IF LeftOut(a)
           THEN Admitted(a, rs.active, {}, << >>) /\ cache' = seen /\ UNCHANGED <<pc, calls, answer>>
           ELSE IF targets = {}
           THEN CommitResource(a, message) /\ cache' = seen /\ UNCHANGED <<pc, calls, answer>>
           ELSE \/ \E m \in MessagesOf(merged) :
                     /\ Materialize(seen, merged, m)
                     /\ AppendResource(a, k, merged, m)
                     /\ UNCHANGED <<pc, answer>>
                \/ MaterializeFails(seen, merged)

\* Defect of removeReplacedResourceContent: a block keeps the message of an
\* artifact that a later resource of the same block replaced.
KeepBlockMessages(ms) == ms

\* removeReplacedResourceContent: of a replaced artifact the block keeps the
\* last message, and only while the artifact is active.
RemoveReplacedContent(ms) ==
    LET kept == {k \in DOMAIN ms : ms[k].id \in rs.removed =>
                    /\ ms[k].id \in ArtifactIDs(rs.active)
                    /\ \A l \in k+1..Len(ms) : ms[l].id # ms[k].id}
        at == Kept([k \in DOMAIN ms |-> k], kept)
    IN  [k \in DOMAIN at |-> ms[at[k]]]

\* removeReplacedResourceMessages.
WithoutReplaced(s) ==
    [g \in Segments |-> Kept(s[g], {m \in Elements(s[g]) : m.id \notin rs.removed})]

\* ensureMessageIDsFromContext for the messages of a block behind n others.
BlockPlace(n, k) == [At(eng.blocks[cursor].segment, n + k, n + k) EXCEPT !.block = cursor]

\* The rest of applyDeferredBlock: what was replaced leaves the snapshot, the
\* block's messages are named and merged into their segment.
FinishBlock ==
    /\ pc = "resource"
    /\ block.next > Len(block.res.resources)
    /\ LET b == eng.blocks[cursor]
           left == WithoutReplaced(snap)
           ms == RemoveReplacedContent(block.messages)
           place(k) == BlockPlace(Len(left[b.segment]), k)
       IN  IF \E k \in DOMAIN ms : ~Nameable(ms[k], place(k)) THEN Fail("identity")
           ELSE /\ snap' = [left EXCEPT ![b.segment] =
                              ApplyMergePolicy(@, [k \in DOMAIN ms |-> Named(ms[k], place(k))], b.merge)]
                /\ rs' = [rs EXCEPT !.removed = {}]
                /\ block' = NoBlock
                /\ cursor' = cursor + 1
                /\ pc' = "deferred"
                /\ UNCHANGED <<source, pend, writebacks, inventory, cache, answer>>
    /\ UNCHANGED calls

\* The end of prepareCompile: unique identities, then registerPreparedOpaqueStates,
\* which lets a state only stay with the message that carried it.
FinishPreparation ==
    /\ pc = "deferred"
    /\ cursor > Len(eng.blocks)
    /\ LET all == SnapshotMessages(snap) \o pend
           found == Inventory(all)
       IN  IF ~UniqueIDs(SnapshotMessages(snap)) THEN Fail("duplicate")
           ELSE IF \/ ~InventoryValid(all)
                   \/ found # {} /\ ~eng.opaque
                   \/ \E f \in found, i \in inventory : f.state.id = i.state.id /\ f # i
           THEN Fail("opaque")
           ELSE /\ inventory' = inventory \cup found
                /\ pc' = "prepared"
                /\ UNCHANGED <<source, cursor, snap, pend, writebacks, cache, rs, block, answer>>
    /\ UNCHANGED calls

Finished == pc \in {"prepared", "failed"} /\ UNCHANGED prepareVars

PrepareNext ==
    \/ CheckConfiguration \/ LoadSnapshot \/ Recheck \/ Normalize \/ StartPreparation
    \/ SelectArtifact \/ AddArtifactMessages
    \/ ResolveBlock \/ AdmitResource \/ FinishBlock \/ FinishPreparation
    \/ Interrupted \/ Finished

PrepareSpec == PrepareInit /\ [][PrepareNext]_prepareVars

-----------------------------------------------------------------------------
(* Properties *)

\* Between blocks and when preparation ends, the artifact messages in the
\* snapshot are exactly the messages of the artifacts that are active, each made
\* of the revision that is active and present once, however resources have
\* replaced, extended or refused one another (resource_compile.go).
ArtifactMessagesMatchActive ==
    pc \in {"deferred", "prepared"} =>
        LET all == SnapshotMessages(snap)
            shown == Kept(all, {m \in Elements(all) : m.id \in rs.ids})
        IN  /\ Elements(shown) = {cache[rs.active[k]] : k \in DOMAIN rs.active}
            /\ Len(shown) = Len(rs.active)

\* A wrong configuration is reported before any host code runs; only the store
\* is read, and only when it is what the store holds that needs the missing
\* policy (Compile and compileRequest); without a policy nothing is materialised.
ConfigurationBeforeCallbacks ==
    /\ answer = "configuration" /\ calls # << >> =>
         calls = <<[what |-> "load"]>> /\ req.arts # << >> /\ eng.mat = "none"
    /\ (\E k \in DOMAIN calls : calls[k].what = "materialize") => eng.mat = "valid"

\* An identity that is to be written back names the place where the message
\* stands in the conversation, the pending messages and the current turn
\* following the history (normalizeCompileRequest).
WritebacksLocate ==
    pc = "opaque" =>
        \A k \in DOMAIN writebacks :
            LET w == writebacks[k]
                ms == IF w.segment = "history" THEN snap["history"] \o pend ELSE snap[w.segment]
            IN  w.index \in DOMAIN ms /\ ms[w.index].id = w.id
=============================================================================
