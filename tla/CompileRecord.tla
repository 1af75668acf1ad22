--------------------------- MODULE CompileRecord ---------------------------
(***************************************************************************)
(* The record of a compilation and its replay.  While the engine prepares  *)
(* the input and makes the main output and the targets, it appends every   *)
(* stage to the trace and offers every content to the host's policy.  At   *)
(* the end it builds the manifest, with the coverage ledger, and the       *)
(* proposed record.  The host accepts or supersedes the record, stores it, *)
(* and replays an accepted one later.                                      *)
(*                                                                         *)
(* Only what a stage takes and returns matters here, so hooks, formatters, *)
(* resolvers and summarizers return what their constants list, and the     *)
(* budget keeps any part of the history that fits.  Storage may lose or    *)
(* alter parts of the record, and blobs may go.                            *)
(*                                                                         *)
(* An entry of a snapshot is [m, from]: a content and, as history of the   *)
(* model, the inputs it was really made of, as [segment, ref, summarized]. *)
(* A request is [id, segs, pending, turn, artifacts, lineage, origins,     *)
(* strict, maps, uses, budget, targets, deny]: turn is None or [raw,       *)
(* prompt, persisted], maps says whether the host attributes new messages, *)
(* uses the host code that is installed (and "store" if the record is kept *)
(* in a store that may harm it), and deny has the [purpose, id] of the     *)
(* contents that the policy keeps out.                                     *)
(***************************************************************************)
EXTENDS Lineage

CONSTANTS
    Requests,
    Resolved,           \* sequences of contents a resolver may return
    MergeResults(_, _), \* sequences of entries merging may make of two
    Rewrites(_),        \* what host code may make of contents: sequences of [m, of]
    SummaryOf(_),       \* summaries of contents
    Text(_)             \* the text a view or target makes of contents

\* The artifacts and the targets of a request are lists of them.
ASSUME RequestsAssumption ==
    \A r \in Requests :
        /\ r.artifacts \in Seq(Range(r.artifacts))
        /\ r.targets \in Seq(Range(r.targets))
        /\ \A ch \in Range(r.targets) : ch.kind = "target"

VARIABLES
    req,
    pc,         \* the next stage, or "saved" or "failed"
    todo,       \* outputs to be made
    prepared,   \* the work when preparation ended
    work,       \* [snap, pending, artifacts, trace, gone] of the current output
    cap,        \* contentCapture: [kept, denied, asked]
    made,       \* finished outputs: [out, compiled, entries, gone, tokens]
    record,     \* the saved record of the host
    expected,   \* the expectation it keeps
    blobs,      \* available blobs
    harmed,     \* storage has harmed the record
    replayed    \* what the last replay returned, or None

vars == <<req, pc, todo, prepared, work, cap, made, record, expected, blobs, harmed, replayed>>
host == <<record, expected, blobs, harmed, replayed>>

Order == <<"history", "memory">>
Contents(es) == [k \in DOMAIN es |-> es[k].m]
Entries(snap) == FlattenSeq([k \in DOMAIN Order |-> snap[Order[k]]])
\* The elements of s that are in S, in their order.
Kept(s, S) ==
    LET kept[k \in 0..Len(s)] ==
          IF k = 0 THEN << >>
          ELSE IF s[k] \in S THEN Append(kept[k - 1], s[k]) ELSE kept[k - 1]
    IN  kept[Len(s)]
From(es) == UNION {e.from : e \in Members(es)}
Input(segment, m) == [m |-> m, from |-> {[segment |-> segment, ref |-> ContentRef(m), summarized |-> FALSE]}]
Inputs(segment, ms) == [k \in DOMAIN ms |-> Input(segment, ms[k])]

-----------------------------------------------------------------------------
(* Capture of contents *)

Content(m, kind) == [ref |-> ContentRef(m), kind |-> kind, wire |-> m]

Denied(contents, purpose) == {k.ref : k \in {k \in contents : [purpose |-> purpose, id |-> k.ref.id] \in req.deny}}
Without(kept, contents) == {k \in kept : k.ref \notin {o.ref : o \in contents}}
Asked(contents, purpose) == {[purpose |-> purpose, ref |-> k.ref] : k \in contents}

\* Defect of keep: what was denied before is kept when it is approved now.
LastAnswerCounts(c, ms, kind, purpose) ==
    LET contents == {Content(m, kind) : m \in Members(ms)}
        approved == {k \in contents : k.ref \notin Denied(contents, purpose)}
    IN  [kept |-> Without(c.kept, contents) \cup approved,
         denied |-> (c.denied \ {k.ref : k \in approved}) \cup Denied(contents, purpose),
         asked |-> c.asked \cup Asked(contents, purpose)]

\* keep, for each of the contents: one that was denied, now or before, is not
\* kept.  The policy's answer depends on the purpose and the content, so the
\* order in which they come plays no role.
KeepAll(c, ms, kind, purpose) ==
    LET contents == {Content(m, kind) : m \in Members(ms)}
        denied == c.denied \cup Denied(contents, purpose)
    IN  [kept |-> Without(c.kept, contents) \cup {k \in contents : k.ref \notin denied},
         denied |-> denied,
         asked |-> c.asked \cup Asked(contents, purpose)]

\* CompileRequest.AllMessages.
AllMessages(r) ==
    r.segs["history"] \o r.segs["memory"] \o r.pending \o (IF r.turn = None THEN << >> ELSE <<r.turn.raw>>)

\* inputs.
CaptureInputs(r) ==
    LET turn == IF r.turn = None THEN << >>
                ELSE <<r.turn.prompt>> \o (IF r.turn.persisted = None THEN << >> ELSE <<r.turn.persisted>>)
        messages == KeepAll([kept |-> {}, denied |-> {}, asked |-> {}], AllMessages(r) \o turn, "message", "input")
    IN  KeepAll(messages, r.artifacts, "artifact", "input")

-----------------------------------------------------------------------------
(* Compilation *)

Init ==
    /\ req \in Requests
    /\ pc = "start"
    /\ todo = << >>
    /\ prepared = None /\ work = None
    /\ cap = [kept |-> {}, denied |-> {}, asked |-> {}]
    /\ made = << >>
    /\ record = None /\ expected = None
    /\ blobs = {} /\ harmed = FALSE /\ replayed = None

Fail ==
    /\ pc' = "failed"
    /\ todo' = << >> /\ made' = << >>
    /\ prepared' = None /\ work' = None
    /\ cap' = [kept |-> {}, denied |-> {}, asked |-> {}]
    /\ UNCHANGED <<req, host>>

\* Host code fails, or the caller's context ends.
Interrupted == pc \notin {"saved", "failed"} /\ Fail

\* traceStage: the trace, what the stage removed, and the contents it offers.
Staged(w, stage, before, after, mapping, summarize) ==
    LET removed == SelectSeq(before, LAMBDA e : e.m.id \notin IDs(Contents(after)))
    IN  [w EXCEPT !.trace = Capture(@, stage, Contents(before), Contents(after), mapping, summarize),
                  !.gone = IF removed = << >> THEN @ ELSE Append(@, [stage |-> stage, from |-> From(removed)])]

Offered(es) == cap' = KeepAll(cap, Contents(es), "message", "transform")

NoMapping == << >>

\* startContentCapture and startCompileTrace.
StartTrace ==
    /\ pc = "start"
    /\ LET all == Inputs("history", req.segs["history"]) \o Inputs("memory", req.segs["memory"])
                  \o Inputs("pending", req.pending)
                  \o (IF req.turn = None THEN << >> ELSE <<Input("current/raw", req.turn.raw)>>)
           w == [snap |-> [g \in Members(Order) |-> Inputs(g, req.segs[g])],
                 pending |-> Inputs("pending", req.pending), artifacts |-> << >>,
                 trace |-> NewTrace(req.id, req.lineage, req.origins, req.strict), gone |-> << >>]
           traced == Staged(w, "source", all, all, NoMapping, FALSE)
       IN  IF ~LineageValid(req.lineage) \/ traced.trace = None THEN Fail
           ELSE /\ work' = traced
                /\ cap' = KeepAll(CaptureInputs(req), Contents(all), "message", "transform")
                /\ pc' = "prompt"
                /\ UNCHANGED <<req, todo, prepared, made, host>>

\* tracedCompilePending: the prompt is made of the raw message of the turn.
CompilePending ==
    /\ pc = "prompt"
    /\ pc' = "artifacts"
    /\ req.turn = None
    /\ UNCHANGED <<req, todo, prepared, work, cap, made, host>>

ProjectPrompt ==
    /\ pc = "prompt"
    /\ req.turn # None
    /\ LET raw == Input("current/raw", req.turn.raw)
           prompt == [m |-> req.turn.prompt, from |-> raw.from \cup Input("current/prompt", req.turn.prompt).from]
           template == Materialize(work.trace, "prompt-template", raw.m, prompt.m)
           w == Staged([work EXCEPT !.trace = template], "prompt", <<raw, prompt>>, <<prompt>>, NoMapping, FALSE)
       IN  IF template = None THEN Fail
           ELSE IF w.trace = None THEN Fail
           ELSE /\ work' = [w EXCEPT !.pending = Append(@, prompt)]
                /\ Offered(<<prompt, prompt>>)
                /\ pc' = "artifacts"
                /\ UNCHANGED <<req, todo, prepared, made, host>>

\* artifactMessage.
ArtifactMessage(a) == [id |-> "artifact:" \o a.id, rev |-> a.rev, blob |-> None]

\* traceArtifactSources; the messages go to the memory segment.
AddArtifactMessages ==
    /\ pc = "artifacts"
    /\ LET trace == FoldLeft(LAMBDA t, a : IF t = None THEN None ELSE Materialize(t, "artifact", a, ArtifactMessage(a)),
                             work.trace, req.artifacts)
           es == [k \in DOMAIN req.artifacts |->
                    [m |-> ArtifactMessage(req.artifacts[k]), from |-> Input("artifacts", req.artifacts[k]).from]]
       IN  IF trace = None THEN Fail
           ELSE /\ work' = [work EXCEPT !.trace = trace, !.artifacts = req.artifacts, !.snap["memory"] = @ \o es]
                /\ Offered(es)
                /\ pc' = "deferred"
                /\ UNCHANGED <<req, todo, prepared, made, host>>

\* The main output and then the targets start from what was prepared.
FinishPreparation(w) ==
    /\ prepared' = w
    /\ work' = [w EXCEPT !.trace = Branch(@, <<"main">>)]
    /\ todo' = <<[name |-> "main", kind |-> "main", segs |-> Members(Order), turn |-> TRUE, budget |-> req.budget,
                  format |-> FALSE, view |-> FALSE]>> \o req.targets
    /\ pc' = "hook"

NoDeferredBlock ==
    /\ pc = "deferred" /\ "resolver" \notin req.uses
    /\ FinishPreparation(work)
    /\ UNCHANGED <<req, cap, made, host>>

\* A resolved message with the ID of an existing one is a revision of it.
Revised(existing, es) ==
    [k \in DOMAIN es |-> [es[k] EXCEPT !.from = @ \cup From(SelectSeq(existing, LAMBDA e : e.m.id = es[k].m.id))]]

\* applyDeferredBlock.  A resolved message is an input of its own: the occurrence
\* that the stage gave it.
ApplyDeferredBlock ==
    /\ pc = "deferred" /\ "resolver" \in req.uses
    /\ \E ms \in Resolved :
         LET plain == [k \in DOMAIN ms |-> [m |-> ms[k], from |-> {}]]
             w == Staged(work, "deferred", plain, plain, NoMapping, FALSE)
             named == [k \in DOMAIN ms |->
                         [m |-> ms[k], from |-> {[segment |-> "resolved", ref |-> InputRef(w.trace, ms[k]), summarized |-> FALSE]}]]
             existing == work.snap["memory"]
         IN  IF w.trace = None THEN Fail
             ELSE \E combined \in MergeResults(existing, named) :
                    LET after == Revised(existing, combined)
                        merged == Staged(w, "merge", existing \o named, after, NoMapping, FALSE)
                    IN  IF merged.trace = None THEN Fail
                        ELSE /\ FinishPreparation([merged EXCEPT !.snap["memory"] = after])
                             /\ Offered(plain \o after)
                             /\ UNCHANGED <<req, made, host>>

\* What host code made of entries, [m, of] by [m, of], and what it says about it:
\* messages that are not made of the one of their ID alone.
Rewritten(es, rs) ==
    [k \in DOMAIN rs |-> [m |-> rs[k].m, from |-> UNION {e.from : e \in {e \in Members(es) : e.m \in rs[k].of}}]]
Mapping(rs) ==
    LET foreign == {r \in Members(rs) : req.maps /\ {o.id : o \in r.of} # {r.m.id}}
    IN  [id \in {r.m.id : r \in foreign} |->
           {ContentRef(o) : o \in (CHOOSE r \in foreign : r.m.id = id).of}]

\* A host that says nothing makes a message that keeps its ID of that one alone.
HostRewrites(ms) ==
    {rs \in Rewrites(ms) : \A r \in Members(rs) :
        req.maps \/ r.m.id \notin IDs(ms) \/ {o.id : o \in r.of} = {r.m.id}}

UniqueIDs(es) == Cardinality(IDs(Contents(es))) = Len(es)

\* TransformPipeline with traceSnapshot: a hook rewrites the snapshot as a whole.
ApplyHooks ==
    /\ pc = "hook"
    /\ pc' = "format"
    /\ "hook" \notin req.uses
    /\ UNCHANGED <<req, todo, prepared, work, cap, made, host>>

RunHook ==
    /\ pc = "hook" /\ "hook" \in req.uses
    /\ LET before == Entries(work.snap)
           memory == IDs(Contents(work.snap["memory"]))
       IN  \E rs \in HostRewrites(Contents(before)) :
             LET after == Rewritten(before, rs)
                 snap == [work.snap EXCEPT !["history"] = SelectSeq(after, LAMBDA e : e.m.id \notin memory),
                                           !["memory"] = SelectSeq(after, LAMBDA e : e.m.id \in memory)]
                 w == Staged(work, "hook", before, Entries(snap), Mapping(rs), FALSE)
             IN  IF w.trace = None THEN Fail
                 ELSE /\ work' = [w EXCEPT !.snap = snap]
                      /\ Offered(Entries(snap))
                      /\ pc' = "format"
                      /\ UNCHANGED <<req, todo, prepared, made, host>>

\* applySegmentFormatters: here the formatter of the history.
ApplySegmentFormatters ==
    /\ pc = "format"
    /\ LET before == work.snap["history"]
       IN  IF "formatter" \notin req.uses \/ before = << >>
           THEN /\ pc' = "budget"
                /\ UNCHANGED <<req, todo, prepared, work, cap, made, host>>
           ELSE \E rs \in HostRewrites(Contents(before)) :
                  LET after == Rewritten(before, rs)
                      w == Staged(work, "format", before, after, Mapping(rs), FALSE)
                      snap == [work.snap EXCEPT !["history"] = after]
                  IN  IF w.trace = None \/ ~UniqueIDs(Entries(snap)) THEN Fail
                      ELSE /\ work' = [w EXCEPT !.snap = snap]
                           /\ Offered(after)
                           /\ pc' = "budget"
                           /\ UNCHANGED <<req, todo, prepared, made, host>>

Channel == Head(todo)
Pending == IF Channel.turn THEN work.pending ELSE << >>
Cost(history) == Len(history) + Len(work.snap["memory"]) + Len(Pending)

\* applyBudgetHistory.
WithoutBudget ==
    /\ pc = "budget" /\ Channel.budget = None
    /\ work' = [work EXCEPT !.snap["history"] = @ \o Pending]
    /\ pc' = "finish"
    /\ UNCHANGED <<req, todo, prepared, cap, made, host>>

\* The budget evicts the k oldest messages, or puts a summary s in their place
\* (BudgetPipeline.summarize): the summary is made of all of them.
Plans(history) ==
    [k : 0 .. Len(history), s : {<< >>}]
    \cup (IF "summarizer" \in req.uses THEN [k : 1 .. Len(history), s : {<<m>> : m \in SummaryOf(Contents(history))}]
          ELSE {})

Fits(history, p) == Cost(SubSeq(history, p.k + 1, Len(history))) + Len(p.s) <= Channel.budget

ApplyBudget ==
    /\ pc = "budget" /\ Channel.budget # None
    /\ LET history == work.snap["history"]
           plans == {p \in Plans(history) : Fits(history, p)}
       IN  IF plans = {} THEN Fail
           ELSE \E p \in plans :
                  LET old == SubSeq(history, 1, p.k)
                      summary == [k \in DOMAIN p.s |->
                                    [m |-> p.s[k], from |-> {[f EXCEPT !.summarized = TRUE] : f \in From(old)}]]
                      w == IF summary = << >> THEN work
                           ELSE Staged(work, "summarize", old, summary, NoMapping, TRUE)
                      kept == summary \o SubSeq(history, p.k + 1, Len(history))
                      v == Staged(w, "budget", history, kept, NoMapping, FALSE)
                  IN  IF w.trace = None THEN Fail
                      ELSE IF v.trace = None THEN Fail
                      ELSE /\ work' = [v EXCEPT !.snap["history"] = kept \o Pending]
                           /\ Offered(summary \o kept)
                           /\ pc' = "finish"
                           /\ UNCHANGED <<req, todo, prepared, made, host>>

-----------------------------------------------------------------------------
(* Outputs *)

\* finalParticipatingArtifacts: those whose message, or something made of them,
\* is in the output.
FinalParticipatingArtifacts(graph, artifacts, ms) ==
    LET o == [segs |-> [g \in {"messages"} |-> Refs(ms)], rendered |-> None, lineage |-> graph]
        reached == {p.ref : p \in Reach(o, {})}
    IN  Kept(artifacts, {a \in Members(artifacts) :
            \/ ArtifactMessage(a).id \in IDs(ms)
            \/ Anchors(graph, {}, "artifacts", ContentRef(a)) \cap reached # {}})

\* artifactExclusionsForOutput and initializeTargetArtifactExclusions.
ArtifactExclusions(kind, artifacts) ==
    {[input |-> ContentRef(a), reason |-> IF kind = "main" THEN "artifact_merge" ELSE "not_selected"]
       : a \in Members(req.artifacts) \ Members(artifacts)}

\* renderedTextRef.
TextContent(name, ms) == [id |-> "text:" \o name, rev |-> Text(ms), blob |-> None]

\* manifestOutputs: one output and what was compiled.
Output(ch, trace, segs, rendered, text, artifacts, excluded) ==
    [kind |-> ch.kind, name |-> ch.name, segs |-> [g \in DOMAIN segs |-> Refs(Contents(segs[g]))],
     text |-> IF text = None THEN None ELSE ContentRef(text),
     rendered |-> IF rendered = None THEN None ELSE InputRef(trace, rendered.m),
     artifacts |-> IF ch.kind = "main" THEN << >> ELSE Refs(artifacts),
     excluded |-> excluded, lineage |-> trace.graph]

Compiled(segs, rendered, text, artifacts) ==
    [segs |-> [g \in DOMAIN segs |-> Contents(segs[g])],
     rendered |-> IF rendered = None THEN None ELSE rendered.m, text |-> text, artifacts |-> artifacts]

\* scopeTargetSnapshot.
ScopeTargetSnapshot(w, ch) ==
    LET all == {ArtifactMessage(a).id : a \in Members(w.artifacts)}
    IN  [g \in DOMAIN w.snap |-> SelectSeq(w.snap[g], LAMBDA e :
            IF e.m.id \in all THEN ch.artifacts ELSE g \in ch.segs)]

\* preparedTargetContext: the next target starts from the prepared work.
StartNext ==
    LET ch == todo[2]
        w == [prepared EXCEPT !.trace = Branch(@, <<"target", ch.name>>)]
    IN  /\ todo' = Tail(todo)
        /\ IF Len(todo) = 1 THEN work' = work /\ pc' = "manifest"
           ELSE IF ch.view THEN work' = w /\ pc' = "view"
           ELSE /\ work' = [w EXCEPT !.snap = ScopeTargetSnapshot(w, ch),
                                     !.artifacts = IF ch.artifacts THEN @ ELSE << >>]
                /\ pc' = "hook"

\* The end of an output.
Finished(w, segs, rendered, text, artifacts, excluded) ==
    /\ made' = Append(made,
         [out |-> Output(Channel, w.trace, segs, rendered, text, artifacts, excluded),
          compiled |-> Compiled(segs, rendered, text, artifacts),
          entries |-> (UNION {Members(segs[g]) : g \in DOMAIN segs}) \cup (IF rendered = None THEN {} ELSE {rendered}),
          gone |-> w.gone,
          budget |-> IF Channel.budget = None THEN {}
                     ELSE {[name |-> Channel.name, limit |-> Channel.budget,
                            tokens |-> FoldSet(LAMBDA g, n : n + Len(segs[g]), 0, DOMAIN segs)]}])
    /\ StartNext

FinishMain ==
    /\ pc = "finish" /\ Channel.kind = "main"
    /\ LET artifacts == FinalParticipatingArtifacts(work.trace.graph, work.artifacts, Contents(Entries(work.snap)))
       IN  Finished(work, work.snap, None, None, artifacts, ArtifactExclusions("main", artifacts))
    /\ UNCHANGED <<req, prepared, cap, host>>

\* finishTargetMessages and finishTargetSnapshot.
FinishTarget ==
    /\ pc = "finish" /\ Channel.kind = "target"
    /\ LET before == Entries(work.snap)
           asIs == [k \in DOMAIN before |-> [m |-> before[k].m, of |-> {before[k].m}]]
       IN  \E rs \in (IF Channel.format THEN HostRewrites(Contents(before)) ELSE {asIs}) :
             LET working == Rewritten(before, rs)
                 formatted == IF Channel.format THEN Staged(work, "format", before, working, Mapping(rs), FALSE) ELSE work
                 w == Staged(formatted, "project", working, working, NoMapping, FALSE)
                 artifacts == FinalParticipatingArtifacts(w.trace.graph, work.artifacts, Contents(working))
             IN  IF formatted.trace = None THEN Fail
                 ELSE IF w.trace = None \/ ~UniqueIDs(working) THEN Fail
                 ELSE /\ Finished(w, [g \in {"messages"} |-> working], None, TextContent(Channel.name, Contents(working)),
                                  artifacts, ArtifactExclusions("target", artifacts))
                      /\ Offered((IF Channel.format THEN working ELSE << >>) \o working)
                      /\ UNCHANGED <<req, prepared, host>>

\* compileTextViewTarget and captureRendering: one text of everything prepared.
RenderView ==
    /\ pc = "view"
    /\ LET before == Entries(work.snap)
           rendered == [m |-> [id |-> "rendered:" \o Channel.name, rev |-> Text(Contents(before)), blob |-> None],
                        from |-> From(before)]
           w == Staged(work, "render", before, <<rendered>>, NoMapping, TRUE)
       IN  IF w.trace = None THEN Fail
           ELSE /\ Finished(w, [g \in {"messages"} |-> << >>], rendered, TextContent(Channel.name, Contents(before)),
                            work.artifacts, {})
                /\ Offered(<<rendered>>)
                /\ UNCHANGED <<req, prepared, host>>

-----------------------------------------------------------------------------
(* The manifest: [body, digest], the digest being the body itself.           *)

\* manifestInputs.
ManifestInputs ==
    LET turn == IF req.turn = None THEN << >>
                ELSE [g \in {"current/raw"} |-> <<req.turn.raw>>]
                     @@ [g \in {"current/prompt"} |-> <<req.turn.prompt>>]
                     @@ [g \in {"current/persistence"} |-> IF req.turn.persisted = None THEN << >> ELSE <<req.turn.persisted>>]
        contents == req.segs @@ [g \in {"pending"} |-> req.pending] @@ [g \in {"artifacts"} |-> req.artifacts] @@ turn
    IN  [g \in DOMAIN contents |-> Refs(contents[g])]

\* preparedManifestInputs.
PreparedInputs ==
    [g \in DOMAIN prepared.snap |-> Refs(Contents(prepared.snap[g]))]
    @@ [g \in {"current/prompt"} |-> Refs(Contents(prepared.pending))]

\* resolvedManifestRefs.
ResolvedRefs(graph, inherited) ==
    UNION {r.outputs : r \in {r \in Members(graph) : r.stage = "deferred" /\ r.id \notin inherited}}

\* manifestResultRefs: what the stages of this compilation made.
ResultRefs(outputs, inherited) ==
    UNION {UNION {r.outputs : r \in {r \in Members(o.lineage) : r.stage # "source" /\ r.id \notin inherited}}
             : o \in Members(outputs)}

Seal(body) == [body |-> body, digest |-> body]

\* buildCompileManifest.
Manifest ==
    LET inherited == RecordIDs(req.lineage)
        outs == [k \in DOMAIN made |-> made[k].out]
        draft == [id |-> req.id, inputs |-> ManifestInputs, prepared |-> PreparedInputs, outputs |-> outs,
                  budgets |-> UNION {x.budget : x \in Members(made)},
                  resolved |-> ResolvedRefs(outs[1].lineage, inherited),
                  artifacts |-> Refs(made[1].compiled.artifacts), inherited |-> inherited,
                  results |-> ResultRefs(outs, inherited), coverage |-> {}, config |-> "profile"]
    IN  Seal([draft EXCEPT !.coverage = ManifestCoverage(draft)])

\* validateManifestSegments: a message once in its segment, an artifact once in
\* each revision.
SegmentsValid(segs) ==
    \A g \in DOMAIN segs : \A j, k \in DOMAIN segs[g] :
        j # k => segs[g][j] # segs[g][k] /\ (g = "artifacts" \/ segs[g][j].id # segs[g][k].id)

\* validateManifestOutputLineage: the lineage made everything in the output.
OutputTraced(o) ==
    \A ref \in Finals(o) : \E r \in Members(o.lineage) : \E p \in r.outputs : Base(p) = Base(ref)

\* validateManifestOutputs.
OutputsValid(b) ==
    /\ \A j, k \in DOMAIN b.outputs : j # k => b.outputs[j].name # b.outputs[k].name
    /\ {o.name : o \in Members(b.outputs)} = {"main"} \cup {t.name : t \in Members(req.targets)}
    /\ \A o \in Members(b.outputs) : SegmentsValid(o.segs) /\ LineageValid(o.lineage) /\ OutputTraced(o)

\* validateManifestBudgets.
BudgetsValid(b) ==
    /\ \A x \in b.budgets : x.tokens <= x.limit /\ x.name \in {o.name : o \in Members(b.outputs)}
    /\ \A x, y \in b.budgets : x.name = y.name => x = y

\* validateManifestGeneratedResults.
ResultsValid(b) ==
    /\ b.inherited \subseteq UNION {RecordIDs(o.lineage) : o \in Members(b.outputs)}
    /\ b.results = ResultRefs(b.outputs, b.inherited)

\* validateArtifactExclusions.
ExclusionsValid(b) ==
    \A o \in Members(b.outputs) :
        LET selected == Members(IF o.kind = "main" THEN b.artifacts ELSE o.artifacts)
        IN  /\ selected \subseteq Members(b.inputs["artifacts"])
            /\ \A x \in o.excluded : x.input \in Members(b.inputs["artifacts"]) \ selected

\* validateManifestCoverage: the ledger is what the lineage says.
CoverageValid(b) == ExclusionsValid(b) /\ b.coverage = ManifestCoverage(b)

\* contentDigest.
DigestHolds(m) == m.digest = m.body

\* CompileManifest.Validate.
ManifestValid(m) ==
    /\ SegmentsValid(m.body.inputs) /\ SegmentsValid(m.body.prepared)
    /\ OutputsValid(m.body) /\ BudgetsValid(m.body) /\ ResultsValid(m.body) /\ CoverageValid(m.body)
    /\ DigestHolds(m)

-----------------------------------------------------------------------------
(* The saved record *)

Requirement(ref, kind) == [ref |-> Base(ref), kind |-> kind]

\* Defect of requiredSavedContent: artifacts are not required.
RequiredMessagesOnly(b) ==
    {Requirement(r, "message") : r \in b.resolved \cup b.results \cup UNION {Finals(o) : o \in Members(b.outputs)}}
    \cup {Requirement(o.text, "text") : o \in {o \in Members(b.outputs) : o.text # None}}

\* requiredSavedContent.
RequiredSavedContent(b) ==
    {Requirement(r, "message") : r \in b.resolved \cup b.results \cup UNION {Finals(o) : o \in Members(b.outputs)}}
    \cup {Requirement(r, "artifact") : r \in Members(b.artifacts) \cup UNION {Members(o.artifacts) : o \in Members(b.outputs)}}
    \cup {Requirement(o.text, "text") : o \in {o \in Members(b.outputs) : o.text # None}}

\* validateSavedContent.
SavedContentValid(c) == c.ref.digest = c.wire /\ (c.kind # "text" => c.ref.id = c.wire.id)

\* contentIndex: no content twice, and none that was omitted.
IndexValid(r) ==
    /\ \A c \in r.content : SavedContentValid(c) /\ c.ref \notin r.omitted
    /\ \A c, d \in r.content : c.ref = d.ref => c = d

\* validateRequiredSavedContent.
RequiredSaved(r) ==
    \A q \in RequiredSavedContent(r.manifest.body) : \E c \in r.content : c.ref = q.ref /\ c.kind = q.kind

\* SavedCompileRecord.Validate.
RecordValid(r) ==
    /\ ManifestValid(r.manifest)
    /\ r.decided = (r.state # "proposed")
    /\ IndexValid(r)
    /\ r.state = "accepted" => RequiredSaved(r)

\* ReplayExpectationFor.
ReplayExpectationFor(m) ==
    [digest |-> m.digest, config |-> m.body.config, inputs |-> m.body.inputs, budgets |-> m.body.budgets]

\* projection.
CaptureProjection(c, x) ==
    LET arts == KeepAll(c, x.artifacts, "artifact", "output")
        messages == KeepAll(arts, x.segs["messages"], "message", "output")
        rendered == KeepAll(messages, IF x.rendered = None THEN << >> ELSE <<x.rendered>>, "message", "output")
    IN  KeepAll(rendered, <<x.text>>, "text", "output")

\* captureOutputs.
CaptureOutputs(c) ==
    LET main == made[1].compiled
        messages == KeepAll(c, main.segs["history"] \o main.segs["memory"], "message", "output")
        targets == FoldLeft(LAMBDA d, x : CaptureProjection(d, x.compiled), messages, Tail(made))
    IN  KeepAll(targets, main.artifacts, "artifact", "output")

BlobsOf(ms) == {m.blob : m \in ms} \ {None}

\* Every content that an output has, other than texts.
Returned(xs) ==
    UNION {(UNION {Members(x.segs[g]) : g \in DOMAIN x.segs}) \cup Members(x.artifacts)
             \cup (IF x.rendered = None THEN {} ELSE {x.rendered}) : x \in Members(xs)}

Results == [k \in DOMAIN made |-> made[k].compiled]

\* finish.
Proposed(c) ==
    [manifest |-> Manifest, state |-> "proposed", decided |-> FALSE, content |-> c.kept, omitted |-> c.denied]

\* finalizeCompileRecording.
FinalizeCompileRecording ==
    /\ pc = "manifest"
    /\ LET c == CaptureOutputs(cap)
           r == Proposed(c)
       IN  IF ~RecordValid(r) THEN Fail
           ELSE /\ cap' = c
                /\ record' = r
                /\ expected' = ReplayExpectationFor(r.manifest)
                /\ blobs' = BlobsOf(Returned(Results))
                /\ pc' = "saved"
                /\ work' = None /\ prepared' = None
                /\ UNCHANGED <<req, todo, made, harmed, replayed>>

-----------------------------------------------------------------------------
(* The host's part *)

Compilation == <<req, pc, todo, prepared, work, cap, made>>

Accepted(r) == [r EXCEPT !.state = "accepted", !.decided = TRUE]

\* Accept: only a proposed, complete record.
Accept ==
    /\ pc = "saved" /\ record.state = "proposed"
    /\ record' \in {r \in {Accepted(record)} : RecordValid(record) /\ RecordValid(r)}
    /\ UNCHANGED <<Compilation, expected, blobs, harmed, replayed>>

\* Supersede.
Supersede ==
    /\ pc = "saved" /\ record.state = "accepted"
    /\ record' \in {r \in {[record EXCEPT !.state = "superseded"]} : RecordValid(record) /\ RecordValid(r)}
    /\ replayed' = None
    /\ UNCHANGED <<Compilation, expected, blobs, harmed>>

\* The main output without its last message, and the rest made to agree.
Shortened(b) ==
    LET cut == [b EXCEPT !.outputs[1].segs["history"] = IF @ = << >> THEN << >> ELSE Front(@)]
    IN  [cut EXCEPT !.coverage = ManifestCoverage(cut)]

\* What storage may make of a record: a content lost or changed, with or without
\* its reference, or a manifest changed, with or without its digest.
Damages(r) ==
    LET body == r.manifest.body
        altered(c) == [c.wire EXCEPT !.rev = 0]
    IN  {[r EXCEPT !.content = @ \ {c}] : c \in r.content}
        \cup {[r EXCEPT !.content = (@ \ {c}) \cup {[c EXCEPT !.wire = altered(c)]}] : c \in r.content}
        \cup {[r EXCEPT !.content = (@ \ {c}) \cup {Content(altered(c), c.kind)}] : c \in r.content}
        \cup {[r EXCEPT !.manifest.body = Shortened(body)], [r EXCEPT !.manifest = Seal(Shortened(body))],
              [r EXCEPT !.manifest = Seal([body EXCEPT !.config = "other"])],
              [r EXCEPT !.manifest = Seal([body EXCEPT !.results = {}])],
              [r EXCEPT !.state = "accepted"]}

\* Storage harms the record, once.
Damage ==
    /\ pc = "saved" /\ ~harmed /\ "store" \in req.uses
    /\ record' \in Damages(record)
    /\ harmed' = TRUE
    /\ replayed' = None
    /\ UNCHANGED <<Compilation, expected, blobs>>

DeleteBlob ==
    /\ pc = "saved"
    /\ \E b \in blobs : blobs' = blobs \ {b}
    /\ replayed' = None
    /\ UNCHANGED <<Compilation, record, expected, harmed>>

\* Defect of validateReplayExpectation: the digest is not compared.
ExpectationWithoutDigest(m, e) == [ReplayExpectationFor(m) EXCEPT !.digest = None] = [e EXCEPT !.digest = None]

\* validateReplayExpectation.
ExpectationHolds(m, e) == ReplayExpectationFor(m) = e

\* replayMessage and replayArtifacts: the saved content of a reference.
Saved(r, ref) == (CHOOSE c \in r.content : c.ref = Base(ref)).wire
SavedAll(r, refs) == [k \in DOMAIN refs |-> Saved(r, refs[k])]

\* replayOutput; the artifacts of the main output are those of the manifest.
ReplayOutput(r, o) ==
    [segs |-> [g \in DOMAIN o.segs |-> SavedAll(r, o.segs[g])],
     rendered |-> IF o.rendered = None THEN None ELSE Saved(r, o.rendered),
     text |-> IF o.text = None THEN None ELSE Saved(r, o.text),
     artifacts |-> SavedAll(r, IF o.kind = "main" THEN r.manifest.body.artifacts ELSE o.artifacts)]

\* The saved contents a replay decodes.
Decoded(b) ==
    Members(b.artifacts)
    \cup UNION {Finals(o) \cup Members(o.artifacts) \cup (IF o.text = None THEN {} ELSE {o.text}) : o \in Members(b.outputs)}

\* Replay up to the blobs.
Replayable(r, e) ==
    /\ r.state = "accepted" /\ RecordValid(r)
    /\ ExpectationHolds(r.manifest, e)
    /\ \A ref \in Decoded(r.manifest.body) : \E c \in r.content : c.ref = Base(ref)

ReplayResult(r) == [k \in DOMAIN r.manifest.body.outputs |-> ReplayOutput(r, r.manifest.body.outputs[k])]

\* replayBlobs and messageBlobs.
ReplayBlobs(xs) == BlobsOf(Returned(xs))

\* Replay, with or without a port that tells which blobs are available.
Replay ==
    /\ pc = "saved"
    /\ \E port \in BOOLEAN :
         replayed' = IF Replayable(record, expected)
                         /\ ReplayBlobs(ReplayResult(record)) \subseteq (IF port THEN blobs ELSE {})
                     THEN ReplayResult(record) ELSE None
    /\ UNCHANGED <<Compilation, record, expected, blobs, harmed>>

Compile ==
    \/ Interrupted
    \/ StartTrace \/ CompilePending \/ ProjectPrompt \/ AddArtifactMessages
    \/ NoDeferredBlock \/ ApplyDeferredBlock
    \/ ApplyHooks \/ RunHook \/ ApplySegmentFormatters
    \/ WithoutBudget \/ ApplyBudget
    \/ FinishMain \/ FinishTarget \/ RenderView
    \/ FinalizeCompileRecording

Next == Compile \/ Accept \/ Supersede \/ Damage \/ DeleteBlob \/ Replay

Spec == Init /\ [][Next]_vars

-----------------------------------------------------------------------------
(* Properties *)

\* What the history of the model says became of an input in a finished output.
FinalRef(x, e) == IF e.m.id \in {f.id : f \in IF x.out.rendered = None THEN {} ELSE {x.out.rendered}}
                  THEN x.out.rendered ELSE ContentRef(e.m)
Paths(x, segment, ref) ==
    UNION {{[output |-> FinalRef(x, e), summarized |-> f.summarized]
              : f \in {f \in e.from : f.segment = segment /\ f.ref = ref}} : e \in x.entries}

LastRemoval(x, segment, ref) ==
    LET at == {k \in DOMAIN x.gone : \E f \in x.gone[k].from : f.segment = segment /\ f.ref = ref}
    IN  IF at = {} THEN "not_selected" ELSE x.gone[Max(at)].stage

\* The coverage ledger of the manifest says of every input of the compilation
\* what really became of it, in every output: the messages that have something
\* of it are those the host's code made of it, it is called summarized exactly
\* if one of them has it through a summary of this compilation, and excluded
\* only if nothing of it is left, by the stage that removed the last of it
\* (manifestCoverage, over the lineage that capture wrote stage by stage).
CoverageExact ==
    pc = "saved" /\ ~harmed =>
        \A x \in Members(made) : \A c \in record.manifest.body.coverage :
            c.name = x.out.name /\ c.segment # "current/persistence" =>
                LET paths == Paths(x, c.segment, c.input)
                IN  /\ c.outputs = {p.output : p \in paths}
                    /\ c.status = "summarized" <=> \E p \in paths : p.summarized
                    /\ c.status = "excluded" <=> paths = {}
                    /\ paths = {} /\ c.segment # "artifacts" => c.reason = LastRemoval(x, c.segment, c.input)

\* A content that the host's policy denied once, as input, during a stage or as
\* output, is in no record, whatever the policy said of it at other times, and
\* the record says that it was left out (contentCapture.keep).
DeniedNeverSaved ==
    pc = "saved" /\ ~harmed =>
        \A a \in cap.asked : [purpose |-> a.purpose, id |-> a.ref.id] \in req.deny =>
            (\A c \in record.content : c.ref # a.ref) /\ a.ref \in record.omitted

\* A compilation whose outputs are made gets a valid record, and a complete one
\* unless the policy denied something, so that the host can accept it; and every
\* accepted record that still is valid can be replayed, nothing that a replay
\* decodes is missing (finish, requiredSavedContent, the capture of every stage
\* and Replay agree).
RecordSuffices ==
    /\ pc = "manifest" =>
         LET c == CaptureOutputs(cap)
         IN  /\ RecordValid(Proposed(c))
             /\ c.denied = {} => RecordValid(Accepted(Proposed(c)))
    /\ pc = "saved" /\ record.state = "accepted" =>
         (RecordValid(record) /\ ExpectationHolds(record.manifest, expected) => Replayable(record, expected))

\* A replay returns what was compiled, byte for byte and in order, or nothing,
\* whatever storage did to the record, and only while every blob in it can be
\* had (Replay).
ReplayFaithful ==
    replayed # None => replayed = Results /\ BlobsOf(Returned(Results)) \subseteq blobs
=============================================================================
