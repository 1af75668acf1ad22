----------------------------- MODULE Selection -----------------------------
(***************************************************************************)
(* Selection of what an output of a compilation shows (selection.go): the  *)
(* prepared messages are cut into candidates, single messages or whole     *)
(* tool rounds; the host's policy plans some of them; those that fit are   *)
(* admitted; and the finished output is compared with the decision.        *)
(*                                                                         *)
(* A selection policy is [required], the references it insists on.  A      *)
(* budget is [limit, ids, roles, rolling, summarizes] with an additive     *)
(* estimator; rolling is 0 without a recent tail.                          *)
(***************************************************************************)
EXTENDS CompileData

CONSTANT Tokens(_)      \* the estimator's count of a message

Cost(ms) == FoldLeft(LAMBDA total, m : total + Tokens(m), 0, ms)
Index(ms, id) == CHOOSE i \in DOMAIN ms : ms[i].id = id
Positions(ms) == [i \in DOMAIN ms |-> i]

-----------------------------------------------------------------------------
(* Rounds of a segment *)

HasRoundParts(ms) == \E i \in DOMAIN ms : ms[i].calls # << >> \/ ms[i].results # << >>

\* segmentToolRounds: the history is inspected as a whole, other segments call
\* by call.
UnitStarts(ms) ==
    {i \in DOMAIN ms : /\ HasToolCalls(ms[i])
                       /\ \A s \in 1..i-1 : HasToolCalls(ms[s]) => i > ContiguousToolBlockEnd(ms, s)}

SegmentRoundsValid(g, ms) ==
    IF g = "history" THEN LayoutValid(ms)
    ELSE /\ \A i \in DOMAIN ms : ms[i].results # << >> =>
              \E s \in UnitStarts(ms) : s < i /\ i <= ContiguousToolBlockEnd(ms, s)
         /\ \A s \in UnitStarts(ms) : LayoutValid(SubSeq(ms, s, ContiguousToolBlockEnd(ms, s)))

\* validateFinalSelectionRounds.
FinalRoundsValid(s) ==
    \A g \in Segments : HasRoundParts(s[g]) => SegmentRoundsValid(g, s[g])

-----------------------------------------------------------------------------
(* What of a segment is required *)

ExpandRounds(S, rounds) ==
    S \cup UNION {r.start..r.end : r \in {r \in rounds : (r.start..r.end) \cap S # {}}}

\* protectBudgetSuffix and rollingTailStart: the recent tail, and everything
\* from the first pending round on.
ProtectedSuffix(n, rounds, rolling) ==
    LET tail == IF rolling = 0 THEN n + 1 ELSE IF rolling < n THEN n - rolling + 1 ELSE 1
    IN  Min({tail} \cup {r.start : r \in {r \in rounds : r.state = "pending" \/ tail \in r.start..r.end}})..n

Retained(m, pipe) == m.role \in pipe.roles \/ m.id \in pipe.ids
SelectorsResolve(ms, pipe) == pipe = None \/ pipe.ids \subseteq IDs(ms)

\* segmentRequired; the last p messages of the history are pending.
SegmentRequired(g, ms, p, pipe) ==
    LET rounds == Rounds(ms)
        n == Len(ms)
        chosen == IF pipe = None THEN {} ELSE {i \in 1..n : Retained(ms[i], pipe)}
        rolling == IF pipe = None THEN 0 ELSE pipe.rolling
    IN  IF g # "history" THEN ProtectedSuffix(n, rounds, 0)
        ELSE ExpandRounds(chosen \cup ProtectedSuffix(n, rounds, rolling) \cup (n - p + 1)..n, rounds)

-----------------------------------------------------------------------------
(* Candidates: [ref, segment, messages, required, artifact] *)

\* Defect of segmentCandidates: every message is a unit of its own.
SingleMessageUnits(g, ms, p, pipe) ==
    [k \in DOMAIN ms |-> [ref |-> Ref(ms[k]), segment |-> g, messages |-> <<ms[k]>>,
                          required |-> k \in SegmentRequired(g, ms, p, pipe), artifact |-> None]]

SegmentCandidates(g, ms, p, pipe) ==
    LET rounds == Rounds(ms)
        heads == SelectSeq(Positions(ms), LAMBDA i : \A r \in rounds : i \notin r.start+1..r.end)
        end(i) == Max({i} \cup {r.end : r \in {r \in rounds : r.start = i}})
    IN  [k \in DOMAIN heads |->
           [ref |-> Ref(ms[heads[k]]), segment |-> g,
            messages |-> SubSeq(ms, heads[k], end(heads[k])),
            required |-> heads[k] \in SegmentRequired(g, ms, p, pipe), artifact |-> None]]

\* attachCandidateArtifact: the unit then stands for the artifact's revision.
AttachArtifact(c, arts) ==
    LET same == SelectSeq(arts, LAMBDA a : a.id = c.messages[1].id)
    IN  IF same = << >> THEN c ELSE [c EXCEPT !.artifact = same[1], !.ref = same[1]]

SegmentsInspectable(s, pending, pipe) ==
    /\ \A g \in Segments \ {"history"} : HasRoundParts(s[g]) => SegmentRoundsValid(g, s[g])
    /\ SegmentRoundsValid("history", s["history"] \o pending)
    /\ SelectorsResolve(s["history"] \o pending, pipe)

SelectionCandidates(s, pending, arts, pipe) ==
    LET of(g) == SegmentCandidates(g, s[g], 0, pipe)
        all == of("system") \o SegmentCandidates("history", s["history"] \o pending, Len(pending), pipe)
               \o of("memory") \o of("tools")
    IN  [k \in DOMAIN all |-> AttachArtifact(all[k], arts)]

\* markSelectionRequired.
RequiredKnown(cands, policy) ==
    policy = None \/ (/\ \A i, j \in DOMAIN policy.required : policy.required[i] = policy.required[j] => i = j
                      /\ \A i \in DOMAIN policy.required : \E k \in DOMAIN cands : cands[k].ref = policy.required[i])

MarkRequired(cands, policy) ==
    IF policy = None THEN cands
    ELSE [k \in DOMAIN cands |->
            [cands[k] EXCEPT !.required = @ \/ cands[k].ref \in Elements(policy.required)]]

-----------------------------------------------------------------------------
(* Plans: sequences of [ref, priority] *)

\* selectionPlan without a policy.
PlanEverything(cands) == [k \in DOMAIN cands |-> [ref |-> cands[k].ref, priority |-> 0]]

Planned(plan) == {plan[k].ref : k \in DOMAIN plan}

\* validateSelectionPlan.
PlanValid(cands, plan) ==
    LET members == UNION {{Ref(cands[k].messages[i]) : i \in 2..Len(cands[k].messages)} : k \in DOMAIN cands}
    IN  /\ Planned(plan) \cap members = {}
        /\ Planned(plan) \subseteq {cands[k].ref : k \in DOMAIN cands}
        /\ \A i, j \in DOMAIN plan : plan[i].ref = plan[j].ref => i = j
        /\ \A k \in DOMAIN cands : cands[k].required => cands[k].ref \in Planned(plan)

Priority(plan, ref) ==
    LET at == {i \in DOMAIN plan : plan[i].ref = ref}
    IN  IF at = {} THEN 0 ELSE plan[CHOOSE i \in at : TRUE].priority

\* selectionMessages.
AdmittedMessages(cands, admitted) ==
    FlattenSeq([k \in DOMAIN cands |-> IF cands[k].ref \in admitted THEN cands[k].messages ELSE << >>])

\* candidateLocalAdmission: the artifact's own limit.
WithinArtifactLimit(c) ==
    \/ c.artifact = None
    \/ /\ ArtifactVisibleInTurn(c.artifact.turn, c.artifact)
       /\ c.artifact.limit = None \/ Tokens(c.messages[1]) <= c.artifact.limit

\* admitSelection: required units first, then by priority, each admitted when
\* what is admitted so far still fits; fitting counts only under a policy.
AdmissionOrder(cands, plan) ==
    LET before(i, j) ==
            LET a == cands[i]  b == cands[j]
                p == Priority(plan, a.ref)  q == Priority(plan, b.ref)
            IN  IF a.required # b.required THEN a.required
                ELSE IF p # q THEN p > q ELSE i < j
    IN  SortSeq(Positions(cands), before)

AdmitSelection(cands, plan, policy, pipe) ==
    LET fits(admitted) == policy # None /\ pipe # None =>
                            Cost(AdmittedMessages(cands, admitted)) <= pipe.limit
        admit(acc, k) ==
            LET c == cands[k]
            IN  IF acc.refused \/ c.ref \notin Planned(plan) THEN acc
                ELSE IF WithinArtifactLimit(c) /\ fits(acc.refs \cup {c.ref})
                THEN [acc EXCEPT !.refs = @ \cup {c.ref}]
                ELSE [acc EXCEPT !.refused = c.required]
    IN  FoldLeft(admit, [refs |-> {}, refused |-> FALSE], AdmissionOrder(cands, plan))

\* candidateRoundRefs and the CandidateDecision of a unit.
CandidateDecision(c, plan, admitted) ==
    [ref |-> c.ref, segment |-> c.segment, members |-> Refs(c.messages),
     round |-> IF HasRoundParts(c.messages)
               THEN [k \in DOMAIN c.messages |-> RoundRef(c.messages[k])] ELSE << >>,
     required |-> c.required, selected |-> c.ref \in admitted,
     reason |-> IF c.ref \in admitted THEN "selected"
                ELSE IF c.ref \in Planned(plan) THEN "budget" ELSE "not selected"]

\* selectOutput: what the segments keep; pending messages join the history later.
SelectedSnapshot(cands, admitted, pending) ==
    [g \in Segments |->
        SelectSeq(AdmittedMessages(SelectSeq(cands, LAMBDA c : c.segment = g), admitted),
                  LAMBDA m : m.id \notin IDs(pending))]

\* filterParticipatingArtifacts and participatingArtifactIDs.
ParticipatingArtifacts(arts, ms) == SelectSeq(arts, LAMBDA a : a.id \in IDs(ms))

-----------------------------------------------------------------------------
(* The finished output against the decision *)

\* validateAdmittedRound: an admitted round is there as it was, or is gone.
AdmittedRoundHolds(c, after) ==
    LET at(k) == Index(after, c.round[k].id)
        here == {k \in DOMAIN c.round : c.round[k].id \in IDs(after)}
    IN  \/ here = {}
        \/ /\ here = DOMAIN c.round
           /\ \A k \in here : /\ RoundRef(after[at(k)]) = c.round[k]
                              /\ k > 1 => at(k) = at(k - 1) + 1

\* validateMandatoryUnit; exact: the policy named this very content.
MandatoryUnitHolds(c, after, exact) ==
    /\ \A k \in DOMAIN c.members :
         /\ c.members[k].id \in IDs(after)
         /\ k > 1 => Index(after, c.members[k].id) = Index(after, c.members[k - 1].id) + 1
    /\ exact => \A k \in DOMAIN c.members : Ref(after[Index(after, c.members[k].id)]) = c.members[k]

\* validateMandatorySelection.
MandatoryHolds(decision, policy, after) ==
    LET exact(c) == policy # None /\ c.ref \in Elements(policy.required)
        must == SelectSeq(decision, LAMBDA c : c.required)
        first(c) == Index(after, c.members[1].id)
        last(c) == Index(after, c.members[Len(c.members)].id)
    IN  /\ \A k \in DOMAIN decision :
             decision[k].round # << >> /\ decision[k].selected => AdmittedRoundHolds(decision[k], after)
        /\ \A k \in DOMAIN must : MandatoryUnitHolds(must[k], after, exact(must[k]))
        /\ \A k, l \in DOMAIN must :
             k < l /\ must[k].segment = must[l].segment => last(must[k]) < first(must[l])

\* acceptedSelection: the decision in terms of what the host's policy made of
\* the messages.
AcceptedSelection(decision, after) ==
    LET now(id) == after[Index(after, id)]
        rebase(c) ==
            [c EXCEPT
               !.members = [k \in DOMAIN @ |-> IF @[k].id \in IDs(after) THEN Ref(now(@[k].id)) ELSE @[k]],
               !.round = [k \in DOMAIN @ |-> IF @[k].id \in IDs(after) THEN RoundRef(now(@[k].id)) ELSE @[k]]]
    IN  [k \in DOMAIN decision |-> rebase(decision[k])]

\* validateRequiredOutput: what the budget had to keep is there, as it was and
\* in order.
RetentionHolds(needed, after) ==
    /\ \A k \in DOMAIN needed : \E i \in DOMAIN after : Ref(after[i]) = needed[k]
    /\ \A k, l \in DOMAIN needed : k < l => Index(after, needed[k].id) < Index(after, needed[l].id)

\* validateAcceptedRetention: the same, whatever the content is by now.
AcceptedRetentionHolds(needed, after) ==
    /\ \A k \in DOMAIN needed : needed[k].id \in IDs(after)
    /\ \A k, l \in DOMAIN needed : k < l => Index(after, needed[k].id) < Index(after, needed[l].id)
=============================================================================
