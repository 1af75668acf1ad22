------------------------------ MODULE Lineage ------------------------------
(***************************************************************************)
(* How a compilation records what it made of what: content references, the *)
(* lineage graph, the trace that stages append to, and the coverage ledger *)
(* that a manifest derives from the graph.                                 *)
(*                                                                         *)
(* A content (message, artifact or text) is [id, rev, blob]; its digest is *)
(* the content itself.  A reference is [id, digest, occ], occ being the    *)
(* invocation that produced this occurrence, or None.  A lineage is a      *)
(* sequence of records [id, stage, inputs, outputs], whose references are  *)
(* sets.  Labels, descriptors and provenance are left out.                 *)
(***************************************************************************)
EXTENDS Integers, FiniteSets, SequencesExt

CONSTANT None

ContentRef(c) == [id |-> c.id, digest |-> c, occ |-> None]
Base(ref) == [ref EXCEPT !.occ = None]
Refs(cs) == [k \in DOMAIN cs |-> ContentRef(cs[k])]
IDs(ms) == {ms[k].id : k \in DOMAIN ms}
Members(s) == {s[k] : k \in DOMAIN s}

-----------------------------------------------------------------------------
(* Lineage *)

RecordIDs(graph) == {graph[k].id : k \in DOMAIN graph}

\* addLineageOutput: a reference that is passed on as it is has no producer.
Produces(record, ref) == ref \in record.outputs /\ record.inputs # {ref}

\* validateLineageCycles: taking away what is made of nothing that is left, in
\* the end nothing is left.
Acyclic(graph) ==
    LET sources(ref) == UNION {r.inputs \ {ref} : r \in {r \in Members(graph) : ref \in r.outputs}}
        outputs == UNION {r.outputs : r \in Members(graph)}
    IN  {} = FoldLeft(LAMBDA left, k : {ref \in left : sources(ref) \cap left # {}},
                      outputs, [k \in DOMAIN graph |-> k])

\* Lineage.Validate: every record is about something and has an ID of its own,
\* and what a record changed or made has no second producer.
LineageValid(graph) ==
    /\ \A j \in DOMAIN graph : graph[j].inputs \cup graph[j].outputs # {}
    /\ Cardinality(RecordIDs(graph)) = Len(graph)
    /\ \A j, k \in DOMAIN graph : j < k =>
         \A ref \in graph[j].outputs \cap graph[k].outputs : ~(Produces(graph[j], ref) /\ Produces(graph[k], ref))
    /\ Acyclic(graph)

-----------------------------------------------------------------------------
(* The trace of a compilation: [graph, unresolved, latest, summaries,        *)
(* ordinal, prefix, requireOrigins], latest and summaries being functions    *)
(* from references without an occurrence to ones with.                       *)

\* f with the references refs, which differ in more than their occurrence.
Put(f, refs) ==
    [b \in DOMAIN f \cup {Base(r) : r \in refs} |->
       IF b \in {Base(r) : r \in refs} THEN CHOOSE r \in refs : Base(r) = b ELSE f[b]]

\* newCompileTrace.
NewTrace(id, inherited, origins, requireOrigins) ==
    LET known == FoldLeft(LAMBDA f, r : Put(f, r.outputs), << >>, inherited)
    IN  [graph |-> inherited, unresolved |-> {}, latest |-> FoldLeft(LAMBDA f, r : Put(f, {r}), known, origins),
         summaries |-> << >>, ordinal |-> 0, prefix |-> <<id>>, requireOrigins |-> requireOrigins]

\* branch and mainBranch.
Branch(t, name) == [t EXCEPT !.prefix = Append(@, name)]

\* inputRef: the latest occurrence of this content, unless it is unknown.
InputRef(t, m) == IF ContentRef(m) \in DOMAIN t.latest THEN t.latest[ContentRef(m)] ELSE ContentRef(m)
Unknown(t, ms) == {ContentRef(m) : m \in {m \in Members(ms) : ContentRef(m) \notin DOMAIN t.latest}}

\* appendRecord with the next invocation: an output gets it as its occurrence.
AppendRecord(t, stage, inputs, outputs) ==
    LET id == [prefix |-> t.prefix, stage |-> stage, ordinal |-> t.ordinal + 1]
        produced == {[ContentRef(m) EXCEPT !.occ = id] : m \in outputs}
    IN  [graph |-> Append(t.graph, [id |-> id, stage |-> stage, inputs |-> inputs, outputs |-> produced]),
         unresolved |-> t.unresolved,
         latest |-> Put(t.latest, produced),
         summaries |-> IF stage = "summarize" THEN Put(t.summaries, produced) ELSE t.summaries,
         ordinal |-> t.ordinal + 1, prefix |-> t.prefix, requireOrigins |-> t.requireOrigins]

\* What a trace may become: a profile may ask for the origin of everything.
Traceable(t) == LineageValid(t.graph) /\ (t.requireOrigins => t.unresolved = {})

\* tracePromptTemplate and materializeWithDescriptor: a message made of a turn's
\* raw message, or of an artifact.
Materialize(t, stage, source, m) ==
    LET made == AppendRecord([t EXCEPT !.unresolved = @ \cup Unknown(t, <<source>>)],
                             stage, {InputRef(t, source)}, {m})
    IN  IF Traceable(made) THEN made ELSE None

\* stageBefore and stageMapping: the summaries the budget put in are inputs of
\* the stage, and each output that is one comes from it alone.
StageSources(t, stage, before, after, mapping) ==
    LET summaries == {m \in Members(after) : stage = "budget" /\ ContentRef(m) \in DOMAIN t.summaries}
    IN  [before |-> before \o SelectSeq(after, LAMBDA m : m \in summaries),
         mapping |-> [id \in DOMAIN mapping \cup {m.id : m \in summaries} |->
                        IF id \in {m.id : m \in summaries}
                        THEN {ContentRef(m) : m \in {m \in summaries : m.id = id}} ELSE mapping[id]]]

\* selectTraceInputs: what an output is made of, by the host's mapping, else by
\* its identity; everything for a summary or a rendering.
TraceInputs(m, before, mapping, summarize) ==
    IF m.id \in DOMAIN mapping
    THEN {b \in Members(before) : ContentRef(b) \in {Base(r) : r \in mapping[m.id]}}
    ELSE {b \in Members(before) : summarize \/ b.id = m.id}

\* traceMappingRefAvailable.
MappingAvailable(t, m, before, mapping) ==
    m.id \in DOMAIN mapping =>
        \A r \in mapping[m.id] : \E b \in Members(before) :
            ContentRef(b) = Base(r) /\ (r.occ = None \/ r = InputRef(t, b))

\* captureOutput: the record of one output.  What a stage introduces without any
\* input is a source of its own; an empty rendering is not.
CaptureOutput(t, u, stage, inputs, m) ==
    LET root == IF inputs = {} /\ stage # "render" THEN {m} ELSE {}
    IN  AppendRecord([u EXCEPT !.unresolved = @ \cup Unknown(u, SetToSeq(root))], stage,
                     {InputRef(t, b) : b \in inputs} \cup {InputRef(u, b) : b \in root}, {m})

\* capture: a record for every output, and one without outputs for everything
\* that is gone.  None if an output cannot be attributed or the graph is not
\* valid.
Capture(t, stage, before, after, mapping, summarize) ==
    LET sources == StageSources(t, stage, before, after, mapping)
        inputs(m) == TraceInputs(m, sources.before, sources.mapping, summarize)
        start == [t EXCEPT !.unresolved = @ \cup Unknown(t, sources.before)]
        traced == FoldLeft(LAMBDA u, m : CaptureOutput(t, u, stage, inputs(m), m), start, after)
        removed == {b \in Members(sources.before) : b.id \notin IDs(after)}
        done == IF removed = {} THEN traced
                ELSE AppendRecord(traced, stage, {InputRef(t, b) : b \in removed}, {})
        attributed(m) == /\ MappingAvailable(t, m, sources.before, sources.mapping)
                         /\ inputs(m) # {} \/ sources.before = << >>
    IN  IF before = << >> /\ after = << >> THEN t
        ELSE IF (\A m \in Members(after) : attributed(m)) /\ Traceable(done) THEN done
        ELSE None

-----------------------------------------------------------------------------
(* Coverage: for every output and every input, what became of it.  An output *)
(* is [kind, name, segs, text, rendered, artifacts, excluded, lineage], segs *)
(* being sequences of references without an occurrence and excluded a set of *)
(* [input, reason].                                                          *)

Finals(o) ==
    (UNION {Members(o.segs[g]) : g \in DOMAIN o.segs}) \cup (IF o.rendered = None THEN {} ELSE {o.rendered})

\* Defect of latestCoverageRef: the first occurrence of the content.
FirstCoverageRef(graph, final) ==
    LET found == {k \in DOMAIN graph : \E r \in graph[k].outputs : Base(r) = Base(final)}
    IN  IF found = {} THEN final ELSE CHOOSE r \in graph[Min(found)].outputs : Base(r) = Base(final)

\* latestCoverageRef.
LatestCoverageRef(graph, final) ==
    LET found == {k \in DOMAIN graph : \E r \in graph[k].outputs : Base(r) = final}
    IN  IF final.occ # None \/ found = {} THEN final
        ELSE CHOOSE r \in graph[Max(found)].outputs : Base(r) = final

\* walkCoverage: the references the final one was made of, and whether a summary
\* of this compilation was on the way.  A record follows those whose outputs it
\* uses, so one pass backwards finds them.
Walk(graph, inherited, root) ==
    LET visit(seen, p) ==
            seen \cup UNION {{[ref |-> r, summarized |-> v.summarized
                                    \/ (p.stage = "summarize" /\ p.id \notin inherited)] : r \in p.inputs}
                             : v \in {v \in seen : v.ref \in p.outputs}}
    IN  FoldLeft(visit, {[ref |-> root, summarized |-> FALSE]}, Reverse(graph))

\* coverageAncestry.
Reach(o, inherited) ==
    UNION {{[ref |-> v.ref, summarized |-> v.summarized, output |-> final]
              : v \in Walk(o.lineage, inherited, LatestCoverageRef(o.lineage, final))} : final \in Finals(o)}

\* coverageAnchors: the occurrences of an input with which its way begins.
Anchors(graph, inherited, segment, input) ==
    LET stage == CASE segment = "current/prompt" -> "prompt-template"
                   [] segment = "artifacts" -> "artifact"
                   [] OTHER -> "source"
        refs(r) == IF stage = "artifact" THEN r.inputs ELSE r.outputs
    IN  IF segment = "resolved" THEN {input}
        ELSE {ref \in UNION {refs(r) : r \in {r \in Members(graph) : r.stage = stage /\ r.id \notin inherited}}
                : Base(ref) = Base(input)}

\* coverageRemovalStageReason: other stages are reported under names of their own.
StageReason(stage) == IF stage = "project" THEN "not_selected" ELSE stage

\* coverageRemovalReason: the last stage that removed something made of the input.
RemovalReason(graph, anchors) ==
    LET made == FoldLeft(LAMBDA seen, r : IF r.inputs \cap seen # {} THEN seen \cup r.outputs ELSE seen,
                         anchors, graph)
        removals == {k \in DOMAIN graph : graph[k].outputs = {} /\ graph[k].inputs \cap made # {}}
    IN  IF removals = {} THEN "not_selected" ELSE StageReason(graph[Max(removals)].stage)

\* coverageExclusionReason.  The chain of transformations that the code looks at
\* last has an eviction only where the lineage has a removal.
ExclusionReason(o, segment, input, anchors) ==
    LET decided == {x \in o.excluded : segment = "artifacts" /\ x.input = input}
    IN  IF decided # {} THEN (CHOOSE x \in decided : TRUE).reason ELSE RemovalReason(o.lineage, anchors)

\* coverageEntry.
CoverageEntry(o, inherited, reach, segment, input) ==
    LET anchors == Anchors(o.lineage, inherited, segment, input)
        paths == {p \in reach : p.ref \in anchors}
        entry(status, reason) ==
            [kind |-> o.kind, name |-> o.name, segment |-> segment, input |-> input,
             status |-> status, reason |-> reason, outputs |-> {p.output : p \in paths}]
    IN  CASE segment = "current/persistence" -> [entry("excluded", "persistence_only") EXCEPT !.outputs = {}]
          [] segment # "current/persistence" /\ paths = {} ->
               entry("excluded", ExclusionReason(o, segment, input, anchors))
          [] OTHER ->
               IF \E p \in paths : p.summarized THEN entry("summarized", "summarize")
               ELSE IF \E p \in paths : Base(p.output) = Base(input) THEN entry("included", "retained")
               ELSE entry("transformed", "transform")

\* manifestCoverage, without the entries of empty segments.
ManifestCoverage(m) ==
    LET inputs == (UNION {{[segment |-> g, ref |-> r] : r \in Members(m.inputs[g])} : g \in DOMAIN m.inputs})
                  \cup {[segment |-> "resolved", ref |-> r] : r \in m.resolved}
        ledger(o, reach) == {CoverageEntry(o, m.inherited, reach, i.segment, i.ref) : i \in inputs}
    IN  UNION {ledger(o, Reach(o, m.inherited)) : o \in Members(m.outputs)}
=============================================================================
