--------------------------- MODULE CompileOutput ---------------------------
(***************************************************************************)
(* The outputs of a compilation: from the prepared snapshot the engine     *)
(* makes the main payload and then every target of the request, each       *)
(* through selection, replacements, hooks, role projection, formatters,    *)
(* the budget, the host's output policy and the check of opaque states.    *)
(* One failure fails the compilation.                                      *)
(*                                                                         *)
(* Host code may return anything its constant operator lists, or fail,     *)
(* and the caller's context may end.  The budget step is what a run of     *)
(* BudgetPipeline guarantees of one call with an additive estimator.       *)
(* Lineage and traces are left out: an artifact takes part in an output    *)
(* when its message does.  The main output also keeps the records from     *)
(* which the state to be stored is derived; gone has the messages that a   *)
(* stage took out of their segment.                                        *)
(*                                                                         *)
(* An engine is [sel, budget, policy, opaque], opaque being None or        *)
(* [profile, drop].  A prepared compilation is [req, snap, pending, arts,  *)
(* reps, original, targets]; original holds the opaque states it came      *)
(* with.  A channel is [kind, segs, include, refs, turn, sel, budget,      *)
(* view, format].                                                          *)
(***************************************************************************)
EXTENDS Selection, Persistence

CONSTANTS
    Engines, Prepared,
    Plans(_),           \* plans a selection policy may return for candidates
    HookResults(_),     \* snapshots the transform hooks may return
    ProjectedRole(_),   \* the role projection policy
    FormatResults(_),   \* snapshots the segment formatters may return
    TargetFormats(_),   \* messages a target's formatter may return
    Summaries,          \* messages a summarizer may return
    PolicyResults(_)    \* payloads the output policy may return

VARIABLES
    eng, prep,
    ch,             \* the channel being made
    pc,             \* the next stage, or "done" or "failed"
    snap, pend,     \* the channel's snapshot and pending messages
    arts,           \* the artifacts that take part in it
    reps,           \* its text replacements
    decision,       \* the selection decision, None for a view
    needed,         \* BudgetDecision.Required
    rec,            \* the transform recorder of the main output
    gone,           \* [segment, id] of messages removed from it so far
    outputs,        \* finished channels
    answer

vars == <<eng, prep, ch, pc, snap, pend, arts, reps, decision, needed, rec, gone,
          outputs, answer>>
source == <<eng, prep>>
channel == <<ch, pend>>
log == <<rec, gone>>

\* outputConfigurations: what the main output is made of.
MainChannel(e) ==
    [kind |-> "main", segs |-> Segments, include |-> TRUE, refs |-> << >>, turn |-> TRUE,
     sel |-> e.sel, budget |-> e.budget, view |-> FALSE, format |-> FALSE]

\* What left its segment between two snapshots.
Taken(before, after) ==
    UNION {{[segment |-> g, id |-> id] : id \in Lost(before[g], after[g])} : g \in Segments}

\* The recorder at the end of prepareCompile: deferred blocks may have replaced
\* messages of the request, offloaded arguments changed them.
PreparedRecorder(p) ==
    LET all == SnapshotMessages(p.req.segs) \o p.req.pending
               \o (IF p.req.current = None THEN << >> ELSE <<p.req.current.raw>>)
        merged == Record(NewRecorder(all), {t.id : t \in Taken(p.req.segs, p.snap)}, ReplacedBy)
        offloaded == Record(merged, Changed(p.req.segs["history"], p.snap["history"]), InPlace)
        blocks == SelectSeq(SnapshotMessages(p.snap), LAMBDA m : m.id \notin ArtifactIDs(p.arts))
    IN  RegisterDeferred(offloaded, SnapshotMessages(p.req.segs), blocks)

Init ==
    /\ eng \in Engines
    /\ prep \in Prepared
    /\ ch = MainChannel(eng)
    /\ pc = "select"
    /\ snap = prep.snap
    /\ pend = prep.pending
    /\ arts = prep.arts
    /\ reps = prep.reps
    /\ decision = None
    /\ needed = << >>
    /\ rec = PreparedRecorder(prep)
    /\ gone = Taken(prep.req.segs, prep.snap)
    /\ outputs = << >>
    /\ answer = "none"

Fail(err) ==
    /\ answer' = err
    /\ pc' = "failed"
    /\ outputs' = << >>
    /\ UNCHANGED <<source, channel, snap, arts, reps, decision, needed, log>>

\* What a target records is not stored.
Recorded(r, t) ==
    /\ rec' = IF ch.kind = "main" THEN r ELSE rec
    /\ gone' = IF ch.kind = "main" THEN gone \cup t ELSE gone

\* A callback fails, or the context is found canceled.
Interrupted ==
    /\ pc \notin {"done", "failed"}
    /\ Fail("canceled")

-----------------------------------------------------------------------------
(* Selection and replacements *)

CandidatePlans(cands) == IF ch.sel = None THEN {PlanEverything(cands)} ELSE Plans(cands)

SelectOutput ==
    /\ pc = "select"
    /\ LET cands == SelectionCandidates(snap, pend, arts, ch.budget)
           units == MarkRequired(cands, ch.sel)
       IN  IF ~SegmentsInspectable(snap, pend, ch.budget) \/ ~RequiredKnown(cands, ch.sel)
           THEN Fail("selection")
           ELSE \E plan \in CandidatePlans(units) :
                  LET admission == AdmitSelection(units, plan, ch.sel, ch.budget)
                      chosen == SelectedSnapshot(units, admission.refs, pend)
                  IN  IF ~PlanValid(units, plan) THEN Fail("plan")
                      ELSE IF admission.refused THEN Fail("budget")
                      ELSE /\ decision' = [k \in DOMAIN units |-> CandidateDecision(units[k], plan, admission.refs)]
                           /\ snap' = chosen
                           /\ arts' = ParticipatingArtifacts(arts, SnapshotMessages(chosen))
                           /\ pc' = "patch"
                           /\ UNCHANGED <<source, channel, reps, needed, log, outputs, answer>>

\* The main output wants every replacement's target, a target its own only.
ChannelReplacements ==
    IF ch.kind = "main" THEN prep.reps
    ELSE OutputReplacements([snap EXCEPT !["history"] = @ \o pend], prep.reps)

PatchBeforeBudget ==
    /\ pc = "patch"
    /\ LET mine == ChannelReplacements
           due == DueReplacements(mine, FALSE)
       IN  IF ~ReplacementTargetsFound(snap, due) THEN Fail("replacement")
           ELSE IF ch.kind = "main" /\ ~UniqueIDs(SnapshotMessages(ApplyTextReplacements(snap, due)))
           THEN Fail("identity")
           ELSE /\ snap' = ApplyTextReplacements(snap, due)
                /\ reps' = mine
                /\ Recorded(RecordReplacements(rec, snap, ApplyTextReplacements(snap, due)), {})
                /\ pc' = "transform"
                /\ UNCHANGED <<source, channel, arts, decision, needed, outputs, answer>>

-----------------------------------------------------------------------------
(* applyTransformsAndBudget *)

\* ensureMessageIDsFromContext: a name of its own for every unnamed message.
NameMessages(s) ==
    [g \in Segments |-> [k \in DOMAIN s[g] |->
        [s[g][k] EXCEPT !.id = IF @ = NoID THEN <<"named", g, k>> ELSE @]]]

ProjectRoles(ms) == [k \in DOMAIN ms |-> [ms[k] EXCEPT !.role = ProjectedRole(ms[k])]]

\* Hooks, role projection and segment formatters; the pending messages only
\* have their roles projected.
Transform ==
    /\ pc = "transform"
    /\ \E hooked \in HookResults(snap) :
         LET named == NameMessages(hooked)
             projected == [g \in Segments |-> ProjectRoles(named[g])]
         IN  \E formatted \in FormatResults(projected) :
               LET out == NameMessages(formatted)
                   log1 == RecordFormatter(RecordFormatter(RecordHook(rec, snap, named), named, projected),
                                           projected, out)
               IN
               IF ~UniqueIDs(SnapshotMessages(out)) THEN Fail("identity")
               ELSE /\ snap' = out
                    /\ Recorded(RecordCurrentTurn(log1, prep.req.current),
                                Taken(snap, named) \cup Taken(projected, out))
                    /\ pend' = ProjectRoles(pend)
                    /\ pc' = "budget"
                    /\ UNCHANGED <<source, ch, arts, reps, decision, needed, outputs, answer>>

Masked(ms, fixed) ==
    [i \in DOMAIN ms |-> IF ms[i].id \in fixed
                         THEN [ms[i] EXCEPT !.role = "system", !.calls = << >>, !.results = << >>]
                         ELSE ms[i]]

\* selectRequired and protectCompileBudgetSuffix in the flattened payload.
BudgetRequired(ms, fixed, pipe) ==
    LET free == SelectSeq(Positions(ms), LAMBDA i : ms[i].id \notin fixed)
        history == [k \in DOMAIN free |-> ms[free[k]]]
        chosen == {i \in DOMAIN ms : ms[i].id \in fixed \/ Retained(ms[i], pipe)}
        masked == Masked(ms, fixed)
    IN  ExpandRounds(chosen, Rounds(masked))
        \cup IF pipe.rolling = 0 THEN ProtectedSuffix(Len(ms), Rounds(masked), 0)
             ELSE {free[k] : k \in ProtectedSuffix(Len(history), Rounds(history), pipe.rolling)}

KeepAt(ms, S) == LET at == SelectSeq(Positions(ms), LAMBDA i : i \in S)
                 IN  [k \in DOMAIN at |-> ms[at[k]]]

\* What BudgetPipeline.Apply may return for a block that is too large: whole
\* rounds are evicted, or a summary takes the place of what is not required.
Shortened(ms, required, rounds, pipe) ==
    LET optional == DOMAIN ms \ required
        kept == {required \cup S : S \in SUBSET optional}
        evicted == {KeepAt(ms, S) : S \in {S \in kept : \A r \in rounds :
                       r.start..r.end \subseteq S \/ (r.start..r.end) \cap S = {}}}
        first == Min(optional)
        summarised == {KeepAt(ms, {i \in required : i < first}) \o <<m>>
                         \o KeepAt(ms, {i \in required : i > first}) : m \in Summaries}
    IN  {out \in (IF pipe.summarizes THEN summarised ELSE evicted) :
            Cost(out) <= pipe.limit /\ UniqueIDs(out)}

\* fixedIDs of applyBudgetHistory.
FixedIDs(s, pending) == IDs(s["system"]) \cup IDs(s["tools"]) \cup IDs(s["memory"]) \cup IDs(pending)

\* Defect of applyBudgetHistory: the pending messages are put in front.
HistoryFirst(s, history) == [s EXCEPT !["history"] = pend \o history]

\* applyBudgetHistory without a budget, and what it makes of Apply's result.
WithHistory(s, history) == [s EXCEPT !["history"] = history \o pend]

ApplyBudgetHistory ==
    /\ pc = "budget"
    /\ IF ch.budget = None
       THEN /\ snap' = WithHistory(snap, snap["history"])
            /\ pc' = "patch history"
            /\ UNCHANGED <<source, channel, arts, reps, decision, needed, log, outputs, answer>>
       ELSE LET pipe == ch.budget
                all == FlattenMessages(WithHistory(snap, snap["history"]))
                fixed == FixedIDs(snap, pend)
                masked == Masked(all, fixed)
                required == BudgetRequired(all, fixed, pipe)
                explicit == {i \in required : all[i].id \notin fixed \/ Retained(all[i], pipe)}
                results == IF Cost(all) <= pipe.limit THEN {all}
                           ELSE IF required = DOMAIN all THEN {}
                           ELSE Shortened(all, required, Rounds(masked), pipe)
            IN  IF ~LayoutValid(masked) \/ ~SelectorsResolve(all, pipe) \/ ~UniqueIDs(all)
                THEN Fail("invalid")
                ELSE \/ \E out \in results :
                          /\ snap' = WithHistory(snap, SelectSeq(out, LAMBDA m : m.id \notin fixed))
                          /\ needed' = Refs(KeepAt(all, explicit))
                          /\ LET dropped == IF Cost(all) <= pipe.limit THEN {}
                                            ELSE IF pipe.summarizes
                                            THEN {all[i].id : i \in DOMAIN all \ required}
                                            ELSE Lost(all, out)
                             IN  Recorded(RecordBudget(rec, dropped, New(all, out)),
                                          [segment : {"history"}, id : dropped])
                          /\ pc' = "patch history"
                          /\ UNCHANGED <<source, channel, arts, reps, decision, outputs, answer>>
                     \/ /\ Cost(all) > pipe.limit
                        /\ Fail(IF pend # << >> /\ Cost(pend) > pipe.limit THEN "pending" ELSE "budget")

PatchAfterBudget ==
    /\ pc = "patch history"
    /\ LET due == DueReplacements(reps, TRUE)
       IN  IF ~ReplacementTargetsFound(snap, due) THEN Fail("replacement")
           ELSE IF ~UniqueIDs(SnapshotMessages(ApplyTextReplacements(snap, due))) THEN Fail("identity")
           ELSE /\ snap' = ApplyTextReplacements(snap, due)
                /\ Recorded(MarkProtected(RecordReplacements(rec, snap, ApplyTextReplacements(snap, due)),
                                          IDs(pend)), {})
                /\ pc' = IF ch.format THEN "format" ELSE "check"
                /\ UNCHANGED <<source, channel, arts, reps, decision, needed, outputs, answer>>

\* formatTargetMessages: what the formatter returns is one block.
FormatTarget ==
    /\ pc = "format"
    /\ \E ms \in TargetFormats(SnapshotMessages(snap)) :
         snap' = NameMessages([EmptySnapshot EXCEPT !["history"] = ms])
    /\ pc' = "check"
    /\ UNCHANGED <<source, channel, arts, reps, decision, needed, log, outputs, answer>>

-----------------------------------------------------------------------------
(* acceptSemanticOutput *)

\* semanticOutputMessages: targets keep the order of the segments.
SemanticMessages(s) == IF ch.kind = "main" THEN FlattenMessages(s) ELSE SnapshotMessages(s)

\* validateOutputPolicySegment: identities and tool parts stay.
PolicyKeepsShape(before, after) ==
    \A g \in Segments :
        /\ Len(after[g]) = Len(before[g])
        /\ \A i \in DOMAIN before[g] :
             LET b == before[g][i]
                 a == after[g][i]
             IN  /\ a.id = b.id /\ a.calls = b.calls /\ a.results = b.results
                 /\ HasRoundParts(<<b>>) => a.role = b.role

\* validateOutputBeforePolicy.
AcceptableBeforePolicy(s) ==
    LET ms == SemanticMessages(s)
    IN  /\ UniqueIDs(ms)
        /\ decision # None => MandatoryHolds(decision, ch.sel, ms)
        /\ FinalRoundsValid(s)
        /\ ch.budget # None => RetentionHolds(needed, ms)

ApplyOutputPolicy ==
    /\ pc = "check"
    /\ IF ~AcceptableBeforePolicy(snap) THEN Fail("output")
       ELSE \E out \in (IF eng.policy THEN PolicyResults(snap) ELSE {snap}) :
              IF ~PolicyKeepsShape(snap, out) THEN Fail("policy")
              ELSE /\ snap' = out
                   /\ Recorded(RecordPolicy(rec, snap, out), {})
                   /\ pc' = "opaque"
                   /\ UNCHANGED <<source, channel, arts, reps, decision, needed, outputs, answer>>

CheckOpaqueInventory ==
    /\ pc = "opaque"
    /\ LET ms == SemanticMessages(snap)
           none == Origins(ms) = {} /\ prep.original = {}
       IN  IF ~InventoryValid(ms) \/ (~none /\ eng.opaque = None) THEN Fail("opaque")
           ELSE IF ~none /\ ~InventoryAccepted(ms, prep.original, eng.opaque) THEN Fail("opaque")
           ELSE /\ pc' = IF none THEN "accept" ELSE "drop"
                /\ UNCHANGED <<source, channel, snap, arts, reps, decision, needed, log, outputs, answer>>

\* Defect of enforceOpaqueState: one round of drops.
DropOnce ==
    /\ pc = "drop"
    /\ LET invalid == InvalidStates(SemanticMessages(snap), eng.opaque)
       IN  IF invalid # {} /\ ~eng.opaque.drop THEN Fail("opaque")
           ELSE /\ snap' = DropStates(snap, invalid)
                /\ pc' = "accept"
                /\ UNCHANGED <<source, channel, arts, reps, decision, needed, log, outputs, answer>>

\* enforceOpaqueState: dropping a state changes the message that carried it, on
\* which others may depend, so the check is repeated.
DropInvalidStates ==
    /\ pc = "drop"
    /\ LET invalid == InvalidStates(SemanticMessages(snap), eng.opaque)
       IN  IF invalid # {} /\ ~eng.opaque.drop THEN Fail("opaque")
           ELSE /\ snap' = DropStates(snap, invalid)
                /\ pc' = IF invalid = {} THEN "accept" ELSE "drop"
                /\ UNCHANGED <<source, channel, arts, reps, decision, needed, log, outputs, answer>>

\* Defect of acceptSemanticOutput: the budget was checked, it is not measured again.
AcceptableUnmeasured(s) ==
    LET ms == SemanticMessages(s)
    IN  /\ decision # None => MandatoryHolds(AcceptedSelection(decision, ms), ch.sel, ms)
        /\ FinalRoundsValid(s)
        /\ ch.budget # None => AcceptedRetentionHolds(needed, ms)

\* The rest of acceptSemanticOutput: selection and retention again, and the
\* budget over what will really be sent.
Acceptable(s) ==
    LET ms == SemanticMessages(s)
    IN  /\ decision # None => MandatoryHolds(AcceptedSelection(decision, ms), ch.sel, ms)
        /\ FinalRoundsValid(s)
        /\ ch.budget # None => AcceptedRetentionHolds(needed, ms) /\ Cost(ms) <= ch.budget.limit

\* artifactExclusionsForOutput with initializeTargetArtifactExclusions and
\* recordSelectionArtifactExclusions.
Excluded(taking) ==
    LET out == SelectSeq(prep.arts, LAMBDA a : a \notin Elements(taking))
        by(a) == IF decision = None THEN {} ELSE {k \in DOMAIN decision : decision[k].ref = a /\ ~decision[k].selected}
    IN  {[artifact |-> out[k], reason |-> IF by(out[k]) = {} THEN "not selected"
                                          ELSE decision[CHOOSE j \in by(out[k]) : TRUE].reason] : k \in DOMAIN out}

\* What remains to be compiled once this channel is finished.
Remaining == Len(prep.targets) - Len(outputs)

\* targetArtifacts: exact revisions, each once.
TargetArtifactsValid(t) ==
    /\ t.include => t.refs = << >>
    /\ \A i, j \in DOMAIN t.refs : t.refs[i] = t.refs[j] => i = j
    /\ Elements(t.refs) \subseteq Elements(prep.arts)

TargetArtifacts(t) ==
    SelectSeq(prep.arts, LAMBDA a : t.include \/ a \in Elements(t.refs))

\* Defect of scopeTargetSnapshot: a requested segment brings all its messages.
ScopeBySegment(t) ==
    [g \in Segments |-> SelectSeq(prep.snap[g], LAMBDA m :
        m.id \in ArtifactIDs(TargetArtifacts(t)) \/ g \in t.segs)]

\* scopeTargetSnapshot: messages of artifacts come with the artifact, others
\* with their segment.
ScopeTargetSnapshot(t) ==
    [g \in Segments |-> SelectSeq(prep.snap[g], LAMBDA m :
        \/ m.id \in ArtifactIDs(TargetArtifacts(t))
        \/ m.id \notin ArtifactIDs(prep.arts) /\ g \in t.segs)]

\* compileTarget up to the selection; a view shows the prepared snapshot.
StartTarget(t) ==
    /\ ch' = t
    /\ snap' = IF t.view THEN prep.snap ELSE ScopeTargetSnapshot(t)
    /\ arts' = IF t.view THEN prep.arts ELSE TargetArtifacts(t)
    /\ pend' = IF t.turn THEN prep.pending ELSE << >>
    /\ pc' = IF t.view THEN "check" ELSE "select"
    /\ decision' = None
    /\ needed' = << >>
    /\ reps' = << >>

\* The state the host derives from the result; its artifacts are the active
\* ones, whether or not they take part in the payload.
StoredState ==
    IF ch.kind # "main" THEN None
    ELSE DerivePersistenceState(prep.req, rec, snap, prep.arts,
                                IF eng.opaque = None THEN None ELSE eng.opaque.profile)

\* The channel is finished (finalParticipatingArtifacts); the next one starts
\* from the prepared snapshot again.
AcceptOutput ==
    /\ pc = "accept"
    /\ LET taking == IF ch.view THEN arts ELSE ParticipatingArtifacts(arts, SemanticMessages(snap))
           next == prep.targets[Len(outputs) + 1]
       IN  IF ~Acceptable(snap) THEN Fail("output")
           ELSE IF Remaining > 0 /\ ~TargetArtifactsValid(next) THEN Fail("artifacts")
           ELSE /\ outputs' = Append(outputs, [ch |-> ch, snap |-> snap, pending |-> pend, arts |-> taking,
                                               excluded |-> Excluded(taking), decision |-> decision,
                                               stored |-> StoredState])
                /\ IF Remaining > 0 THEN StartTarget(next)
                   ELSE pc' = "done" /\ UNCHANGED <<channel, snap, arts, reps, decision, needed>>
                /\ UNCHANGED <<source, log, answer>>

Stop == pc \in {"done", "failed"} /\ UNCHANGED vars

Next ==
    \/ SelectOutput
    \/ PatchBeforeBudget
    \/ Transform
    \/ ApplyBudgetHistory
    \/ PatchAfterBudget
    \/ FormatTarget
    \/ ApplyOutputPolicy
    \/ CheckOpaqueInventory
    \/ DropInvalidStates
    \/ AcceptOutput
    \/ Interrupted
    \/ Stop

Spec == Init /\ [][Next]_vars

-----------------------------------------------------------------------------
(* Properties of what a compilation returns *)

Delivered == IF pc = "done" THEN Elements(outputs) ELSE {}
InOrder(o) == IF o.ch.kind = "main" THEN FlattenMessages(o.snap) ELSE SnapshotMessages(o.snap)

\* An output with a budget is within it, although replacements in the history
\* and the host's output policy change messages after the budget has made room
\* (applyBudgetHistory, acceptSemanticOutput).
PayloadWithinBudget ==
    \A o \in Delivered : o.ch.budget # None => Cost(InOrder(o)) <= o.ch.budget.limit

\* Every output that includes the current turn ends its history with all the
\* pending messages, in order, whatever selection, hooks and budget did to the
\* history before them (applyBudgetHistory, validateMandatorySelection).
PendingClosesHistory ==
    \A o \in Delivered :
        ~o.ch.view /\ ~o.ch.format =>
            LET h == o.snap["history"]
                n == Len(h) - Len(o.pending)
            IN  n >= 0 /\ \A k \in DOMAIN o.pending : h[n + k].id = o.pending[k].id

\* No output carries an opaque state whose context it does not carry: what it
\* depends on is there unchanged, not even without another state that had to be
\* dropped, and it stands with the message it came with (enforceOpaqueState).
OpaqueStatesValid ==
    \A o \in Delivered :
        LET ms == InOrder(o)
        IN  \A c \in Origins(ms) :
              /\ StateHolds(ms, c.owner, c.state, eng.opaque.profile)
              /\ \E p \in prep.original : p.state = c.state /\ p.owner = c.owner

\* A tool round of the prepared snapshot is in an output as a whole or not at
\* all, through selection, hooks, formatters and budget (selection.go).
RoundsKeptWhole ==
    \A o \in Delivered : \A g \in Segments :
        LET ms == prep.snap[g] \o (IF g = "history" THEN prep.pending ELSE << >>)
            here(i) == ms[i].id \in IDs(InOrder(o))
        IN  o.ch.format \/ \A r \in Rounds(ms) : \A i, j \in r.start..r.end : here(i) => here(j)

\* A target shows prepared messages only of the segments and the artifacts it
\* asked for, and every artifact it does not show is listed with the reason
\* (scopeTargetSnapshot, artifactExclusionsForOutput).
TargetScope ==
    \A o \in Delivered :
        LET shown == IDs(SnapshotMessages(o.snap))
            wanted == ArtifactIDs(TargetArtifacts(o.ch))
            artifacts == ArtifactIDs(prep.arts)
        IN  o.ch.view \/ (
              /\ artifacts \cap shown \subseteq wanted
              /\ \A g \in Segments \ o.ch.segs : IDs(prep.snap[g]) \cap shown \subseteq wanted
              /\ \A k \in DOMAIN prep.arts :
                   \/ prep.arts[k] \in Elements(o.arts)
                   \/ /\ prep.arts[k].id \notin shown
                      /\ \E x \in o.excluded : x.artifact = prep.arts[k] /\
                           (prep.arts[k].id \notin wanted => x.reason = "not selected"))

\* What a compilation changed for the prompt alone is not stored: a stored
\* message of the request is the request's, one of a deferred block is what the
\* block brought, and no pending or artifact message is stored except the
\* current turn, once and as it asks to be kept (derivePersistenceSegment).  A
\* message of the request is stored unless a block, hook, formatter or the
\* budget took it out of its segment, even if something put it back later; what
\* they added is stored if the payload still has it (TransformChain.Final).
PersistsOriginals ==
    \A o \in Delivered : o.stored # None =>
        \A g \in Segments :
            LET ms == o.stored.segs[g]
                given == prep.req.segs[g]
                pending == PendingIDs(prep.req)
                artifacts == ArtifactIDs(prep.arts)
                turn == IF prep.req.current = None THEN << >> ELSE PersistedMessages(prep.req.current)
            IN  /\ UniqueIDs(ms)
                /\ \A m \in Elements(ms) :
                     \/ m \in Elements(given)
                     \/ g = "history" /\ m \in Elements(turn)
                     \/ /\ m.id \notin IDs(given) \cup artifacts \cup pending
                        /\ m.id \in IDs(prep.snap[g]) => m \in Elements(prep.snap[g])
                /\ \A m \in Elements(given) :
                     m.id \notin pending => (m.id \in IDs(ms) <=> [segment |-> g, id |-> m.id] \notin gone)
                /\ \A m \in Elements(o.snap[g]) :
                     m.id \notin artifacts \cup pending \cup {t.id : t \in gone} => m.id \in IDs(ms)
=============================================================================
