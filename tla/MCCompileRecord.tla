-------------------------- MODULE MCCompileRecord --------------------------
(* Instances of CompileRecord for TLC: short conversations, one or two pieces  *)
(* of host code at a time, and policies that deny single contents.             *)
EXTENDS CompileRecord

C(id, rev, blob) == [id |-> id, rev |-> rev, blob |-> blob]
U1 == C("u1", 1, None)
U2 == C("u2", 1, None)
Call == C("call", 1, "b1")
K == C("k", 1, None)
A == C("a", 1, "b2")
S == C("s", 1, None)
Raw == C("p", 1, None)
Safe == C("q", 1, None)
Turn(prompt, persisted) == [raw |-> Raw, prompt |-> prompt, persisted |-> persisted]

Segs(history, memory) == [g \in {"history", "memory"} |-> IF g = "history" THEN history ELSE memory]

Plain ==
    [id |-> "c1", segs |-> Segs(<<U1, U2>>, <<K>>), pending |-> << >>, turn |-> None, artifacts |-> <<A>>,
     lineage |-> << >>, origins |-> << >>, strict |-> FALSE, maps |-> FALSE, uses |-> {}, budget |-> None,
     targets |-> << >>, deny |-> {}]

Target(name) ==
    [name |-> name, kind |-> "target", segs |-> {"history"}, turn |-> FALSE, artifacts |-> TRUE, budget |-> None,
     format |-> FALSE, view |-> FALSE]
View(name) == [Target(name) EXCEPT !.view = TRUE]

\* A host that rewrites messages, with and without saying what it made them of.
Rewriting ==
    {[Plain EXCEPT !.uses = {"hook", "formatter"}, !.maps = maps, !.artifacts = arts] : maps \in BOOLEAN, arts \in {<<A>>, << >>}}

\* A small budget, with a summarizer, for the main output and for a target.
Budgeted ==
    {[Plain EXCEPT !.segs = Segs(<<U1, U2>>, << >>), !.artifacts = << >>, !.pending = <<K>>, !.uses = u, !.maps = TRUE,
                   !.budget = limit, !.targets = <<[Target("t") EXCEPT !.budget = 1]>>]
       : u \in {{"summarizer"}, {"hook", "summarizer"}}, limit \in {None, 2}}

\* The history has a summary that an earlier compilation made of another message.
Old == [prefix |-> <<"c0">>, stage |-> "summarize", ordinal |-> 1]
Earlier == <<[id |-> Old, stage |-> "summarize", inputs |-> {ContentRef(C("u0", 1, None))},
              outputs |-> {[ContentRef(S) EXCEPT !.occ = Old]}]>>
Resumed ==
    {[Plain EXCEPT !.id = id, !.segs = Segs(<<S, U1>>, <<K>>), !.lineage = Earlier, !.uses = {"summarizer"},
                   !.artifacts = << >>, !.budget = 2]
       : id \in {"c0", "c1"}}

\* Messages of a resolver, seen by the main output, a formatted target and a view.
Deferring ==
    {[Plain EXCEPT !.segs = Segs(<<U1>>, <<K>>), !.uses = {"resolver"}, !.maps = TRUE,
                   !.targets = <<[Target("t") EXCEPT !.segs = {"history", "memory"}, !.artifacts = FALSE, !.format = TRUE],
                                 View("v")>>]}

\* A current turn, with a prompt of its own or not, that a hook may rewrite and a
\* target leaves out.
Turns ==
    {[Plain EXCEPT !.turn = Turn(prompt, persisted), !.segs = Segs(<<U1>>, << >>), !.targets = <<Target("t")>>,
                   !.uses = u, !.maps = TRUE]
       : prompt \in {Raw, [Raw EXCEPT !.rev = 2], Safe}, persisted \in {None, Raw}, u \in {{}, {"hook"}}}

\* Profiles that ask for the origin of everything.
Strict ==
    {[Plain EXCEPT !.strict = TRUE, !.artifacts = << >>, !.origins = o] : o \in {Refs(<<U1, U2, K>>), Refs(<<U1>>)}}

\* Policies that deny a content, or two at different times.
Denials ==
    [purpose: {"input", "transform", "output"}, id: {"u1", "a", "artifact:a", "s", "text:t", "rendered:v"}]
Denying ==
    {[Plain EXCEPT !.segs = Segs(<<U1, U2>>, << >>), !.targets = <<Target("t"), View("v")>>, !.uses = u,
                   !.budget = limit, !.deny = {d, e}]
       : d, e \in Denials, u \in {{"formatter"}, {"summarizer"}}, limit \in {2}}

\* A store that harms a record with blobs, of outputs that were rewritten or not.
Stored ==
    {[Plain EXCEPT !.segs = Segs(<<Call, U1>>, << >>), !.uses = {"store"} \cup u, !.targets = ts]
       : ts \in {<< >>, <<Target("t")>>, <<View("v")>>}, u \in {{}, {"hook"}}}

MCRequests == Rewriting \cup Budgeted \cup Resumed \cup Deferring \cup Turns \cup Strict \cup Denying \cup Stored

MCResolved == {<<C("d", 1, None)>>, <<C("k", 2, None)>>}

\* Appended, or in the place of what has the same ID.
MCMergeResults(existing, ms) ==
    LET others == SelectSeq(existing, LAMBDA e : e.m.id \notin IDs(Contents(ms)))
    IN  {others \o ms} \cup (IF others = existing THEN {ms} ELSE {})

Same(ms) == [k \in DOMAIN ms |-> [m |-> ms[k], of |-> {ms[k]}]]
Edit(m) == [m |-> [m EXCEPT !.rev = IF @ = 1 THEN 2 ELSE 1], of |-> {m}]

\* As it is, without the first, the first edited, two made one, and the first
\* rewritten with the help of the last.
MCRewrites(ms) ==
    {Same(ms)}
    \cup (IF ms = << >> THEN {} ELSE {Tail(Same(ms)), <<Edit(ms[1])>> \o Tail(Same(ms))})
    \cup (IF Len(ms) < 2 THEN {}
          ELSE {<<[m |-> C("x", 1, None), of |-> {ms[1], ms[2]}]>> \o SubSeq(Same(ms), 3, Len(ms)),
                <<[Edit(ms[1]) EXCEPT !.of = {ms[1], ms[Len(ms)]}]>> \o Tail(Same(ms))})

MCSummaryOf(ms) == {S}

MCText(ms) == FoldLeft(LAMBDA n, m : 10 * n + m.rev, 1, ms)
=============================================================================
