--------------------------- MODULE BudgetPipeline ---------------------------
(***************************************************************************)
(* BudgetPipeline.ApplyWithLimit (budget_execution.go and the files it     *)
(* calls): decide what of a message block is required, measure, and if the *)
(* block is too large either summarise what is not required or evict it,   *)
(* then put both parts together again and measure the whole.               *)
(*                                                                         *)
(* A message is what ToolRounds looks at plus the tokens an additive       *)
(* estimator gives it; a content reference is the message itself.  The     *)
(* built-in estimators are additive; a host's estimator, its summarizer    *)
(* and its eviction strategy are callbacks that may answer anything of     *)
(* their type or fail, and the context may be canceled around each of      *)
(* them.  The configuration is one validateBudgetPolicy accepts.           *)
(***************************************************************************)
EXTENDS ToolRounds, SequencesExt

CONSTANTS
    Inputs,          \* message sequences a caller may pass
    Configs,         \* configurations, see ConfigOK
    Summaries,       \* messages the summarizer may return
    HostCost(_),     \* the host estimator's count of a message sequence
    HostOutputs(_)   \* what a host strategy may return for its input

VARIABLES
    input,           \* the owned copy of the messages
    cfg,             \* the pipeline's configuration and the effective limit
    pc,              \* the next stage of the call
    required,        \* positions of input that must survive
    cur,             \* positions of input still in the eviction candidate
    output,          \* what summarizer or strategy made of the optional part
    decision,        \* the BudgetDecision under construction
    out,             \* the messages of the result
    answer,          \* what the call returned
    steps            \* history: how many steps the call has made

vars == <<input, cfg, pc, required, cur, output, decision, out, answer, steps>>

-----------------------------------------------------------------------------
(* Configuration.  rolling is 0 without a RollingSummaryPolicy, the percents *)
(* are 100 without a CompactionPolicy.                                       *)

Strategies == {"head", "tail", "drop", "strict", "host"}

\* validateBudgetPolicy and Resolve.
ConfigOK(c) ==
    /\ c.limit \in Nat
    /\ c.strategy \in Strategies
    /\ c.minimum \in Nat
    /\ {c.atomic, c.additive, c.summarizer} \subseteq BOOLEAN
    /\ {c.target, c.trigger} \subseteq Nat
    /\ 1 <= c.target /\ c.target <= c.trigger /\ c.trigger <= 100
    /\ c.target < 100 => c.summarizer
    /\ c.rolling \in Nat
    /\ c.rolling > 0 => c.summarizer
    /\ NoID \notin c.ids

ASSUME ConfigsAssumption == \A c \in Configs : ConfigOK(c)

\* budgetPercent, written so that limit * percent cannot overflow.
BudgetPercent(limit, percent) ==
    (limit \div 100) * percent + ((limit % 100) * percent) \div 100

-----------------------------------------------------------------------------
(* Sequences of messages and of their positions in the input *)

Positions == DOMAIN input
Ascending(S) == Kept([i \in Positions |-> i], S)
Messages(ps) == [k \in DOMAIN ps |-> input[ps[k]]]
At(S) == Messages(Ascending(S))
Optional == Positions \ required

Weight(ms) ==
    LET total[k \in 0..Len(ms)] == IF k = 0 THEN 0 ELSE total[k - 1] + ms[k].tokens
    IN  total[Len(ms)]

\* A negative count is refused, which is one of the failures of Interrupted.
Estimate(ms) == IF cfg.additive THEN Weight(ms) ELSE HostCost(ms)

ASSUME InputsAssumption ==
    \A ms \in Inputs :
        /\ ms \in Seq(Range(ms))
        /\ \A i \in DOMAIN ms :
             /\ DOMAIN ms[i] = {"id", "role", "calls", "results", "tokens"}
             /\ ms[i].results \in Seq(Range(ms[i].results))
             /\ ms[i].tokens \in Nat

ASSUME HostCostAssumption ==
    \A ms \in Inputs :
        /\ HostCost(ms) \in Nat
        /\ \A S \in SUBSET DOMAIN ms :
             LET ps == Kept([i \in DOMAIN ms |-> i], S)
             IN  HostCost([k \in DOMAIN ps |-> ms[ps[k]]]) \in Nat

\* A host strategy, asked about some messages of an input, returns messages.
ASSUME HostOutputsAssumption ==
    \A ms \in Inputs : \A S \in SUBSET DOMAIN ms :
        S # {} =>
            LET ps == Kept([i \in DOMAIN ms |-> i], S)
            IN  \A o \in HostOutputs([k \in DOMAIN ps |-> ms[ps[k]]]) : o \in Seq(Range(o))

IDsUnique(ms) ==
    \A i, j \in DOMAIN ms : ms[i].id = ms[j].id => i = j \/ ms[i].id = NoID

\* inspectBudgetRounds looks at fixed messages as if they had no tool parts.
Masked(ms) ==
    [i \in DOMAIN ms |-> IF ms[i].id \in cfg.fixed
                         THEN [ms[i] EXCEPT !.role = "system", !.calls = << >>,
                                            !.results = << >>]
                         ELSE ms[i]]

\* validateEvictableRounds.
EvictableRoundsValid(ms) ==
    /\ LayoutValid(ms)
    /\ \A r \in Rounds(ms) : r.state = "complete"

-----------------------------------------------------------------------------
(* What is required *)

Selected(m) ==
    \/ m.id \in cfg.fixed
    \/ m.role \in cfg.roles
    \/ m.id \in cfg.ids
    \/ m \in cfg.refs

ExpandRequiredRounds(S, rounds) ==
    S \cup UNION {r.start..r.end : r \in {r \in rounds : (r.start..r.end) \cap S # {}}}

RollingTailStart(n, rounds) ==
    LET start == IF cfg.rolling < n THEN n - cfg.rolling + 1 ELSE 1
    IN  Min({start} \cup
            {r.start : r \in {r \in rounds :
                \/ r.state = "pending" /\ r.start < start
                \/ r.start < start /\ start <= r.end}})

\* protectBudgetSuffix: the positions from the recent tail or the first
\* pending round on.
ProtectBudgetSuffix(n, rounds) ==
    LET tail == IF cfg.rolling > 0 THEN RollingTailStart(n, rounds) ELSE n + 1
    IN  Min({tail} \cup {r.start : r \in {r \in rounds : r.state = "pending"}})..n

\* Defect: fixed messages are counted into the recent tail.
ProtectedSuffixOfAll == ProtectBudgetSuffix(Len(input), Rounds(Masked(input)))

\* protectCompileBudgetSuffix: with fixed messages the recent tail is counted
\* among the others.
ProtectedSuffix ==
    IF cfg.fixed = {} \/ cfg.rolling = 0
    THEN ProtectBudgetSuffix(Len(input), Rounds(Masked(input)))
    ELSE LET history == Ascending({i \in Positions : input[i].id \notin cfg.fixed})
         IN  {history[k] : k \in
                ProtectBudgetSuffix(Len(history), Rounds(Messages(history)))}

\* explicitRequiredMessages: required for more than being fixed.
Explicit(m) ==
    \/ m.id \notin cfg.fixed
    \/ m.id \in cfg.ids
    \/ m.role \in cfg.roles
    \/ m \in cfg.refs

ExplicitRequired == Ascending({i \in required : Explicit(input[i])})

-----------------------------------------------------------------------------
(* Steps common to all stages *)

Goto(stage) == pc' = stage
Answer(kind) == pc' = "done" /\ answer' = kind
Fail(kind) ==
    /\ Answer(kind)
    /\ UNCHANGED <<input, cfg, required, cur, output, decision, out>>

NoDecision == [before |-> 0, after |-> 0, trigger |-> 0, goal |-> 0,
               summaryMax |-> 0, summaryGoal |-> 0, compacted |-> FALSE]

Init ==
    /\ input \in Inputs
    /\ cfg \in Configs
    /\ pc = "inspect"
    /\ required = {}
    /\ cur = << >>
    /\ output = << >>
    /\ decision = NoDecision
    /\ out = << >>
    /\ answer = "none"
    /\ steps = 0

\* An estimator or another callback fails, or the context is canceled.
Interrupted ==
    /\ pc # "done"
    /\ Fail("failed")

InspectBudgetRounds ==
    /\ pc = "inspect"
    /\ \/ ~LayoutValid(Masked(input)) /\ Fail("invalid round")
       \/ /\ LayoutValid(Masked(input))
          /\ Goto("select")
          /\ UNCHANGED <<input, cfg, required, cur, output, decision, out, answer>>

\* selectRequired: selectors must resolve and select only named messages.
SelectRequired ==
    /\ pc = "select"
    /\ LET chosen == {i \in Positions : Selected(input[i])}
           resolved == /\ \A id \in cfg.ids : \E i \in Positions : input[i].id = id
                       /\ \A m \in cfg.refs : \E i \in Positions : input[i] = m
                       /\ \A i \in chosen : input[i].id # NoID
       IN  \/ ~resolved /\ Fail("invalid retention")
           \/ /\ resolved
              /\ required' = ExpandRequiredRounds(chosen, Rounds(Masked(input)))
              /\ Goto("measure")
              /\ UNCHANGED <<input, cfg, cur, output, decision, out, answer>>

MeasureInput ==
    /\ pc = "measure"
    /\ decision' = [NoDecision EXCEPT
                      !.before = Estimate(input),
                      !.trigger = BudgetPercent(cfg.limit, cfg.trigger),
                      !.goal = BudgetPercent(cfg.limit, cfg.target)]
    /\ Goto("protect")
    /\ UNCHANGED <<input, cfg, required, cur, output, out, answer>>

ProtectSuffix ==
    /\ pc = "protect"
    /\ required' = required \cup ProtectedSuffix
    /\ \/ /\ ~IDsUnique(input)
          /\ Answer("duplicate id")
       \/ /\ IDsUnique(input)
          /\ \E i \in required' : input[i].id = NoID
          /\ Answer("invalid retention")
       \/ /\ IDsUnique(input)
          /\ \A i \in required' : input[i].id # NoID
          /\ Goto("compare")
          /\ UNCHANGED answer
    /\ UNCHANGED <<input, cfg, cur, output, decision, out>>

\* At or below the trigger the input is the result.
Fits ==
    /\ pc = "compare"
    /\ decision.before <= decision.trigger
    /\ decision' = [decision EXCEPT !.after = decision.before]
    /\ out' = input
    /\ Goto("verify")
    /\ UNCHANGED <<input, cfg, required, cur, output, answer>>

-----------------------------------------------------------------------------
(* Overflow, measured on complete candidates: built-in strategies under a    *)
(* host estimator, when something is required (tryCompleteEviction).         *)

CompleteEviction ==
    /\ ~cfg.summarizer
    /\ required # {}
    /\ ~cfg.additive
    /\ cfg.strategy # "host"

StartCompleteEviction ==
    /\ pc = "compare"
    /\ decision.before > decision.trigger
    /\ CompleteEviction
    /\ \/ cfg.strategy = "strict" /\ Fail("budget exceeded")
       \/ /\ cfg.strategy # "strict"
          /\ cur' = Ascending(Positions)
          /\ Goto("evict complete")
          /\ UNCHANGED <<input, cfg, required, output, decision, out, answer>>

\* budgetCandidateUnit: the message at k of the candidate, or its round.
CandidateUnit(ps, k, tail, atomic) ==
    LET ms == Messages(ps)
        start == IF tail /\ ms[k].role = "tool"
                 THEN ToolRoundStartForTail(SubSeq(ms, 1, k))
                 ELSE k
        end == IF atomic /\ HasToolCalls(ms[start])
               THEN ToolRoundEndIndex(ms, start)
               ELSE k
    IN  start..end

Without(ps, gone) == Kept(ps, required \cup (Positions \ gone))

EvictCompleteCandidate ==
    /\ pc = "evict complete"
    /\ LET left == {k \in DOMAIN cur : cur[k] \notin required}
           tail == cfg.strategy = "tail"
           index == IF tail THEN Max(left) ELSE Min(left)
           unit == CandidateUnit(cur, index, tail, cfg.strategy # "head" \/ cfg.atomic)
           smaller == Without(cur, IF cfg.strategy = "drop" THEN Positions
                                   ELSE {cur[k] : k \in unit})
           optional == Len(Kept(smaller, Optional))
           next == IF cfg.strategy = "head" /\ optional < cfg.minimum
                   THEN Without(smaller, Positions)
                   ELSE smaller
       IN  \/ left = {} /\ Fail("required overflow")
           \/ /\ left # {}
              /\ cur' = next
              /\ IF Estimate(Messages(next)) > cfg.limit
                 THEN UNCHANGED <<pc, out>>
                 ELSE Goto("admit") /\ out' = Messages(next)
              /\ UNCHANGED <<input, cfg, required, output, decision, answer>>

-----------------------------------------------------------------------------
(* Overflow, measured by parts: the required part is reserved and the rest   *)
(* summarised or evicted into what is left.                                  *)

Reserved == IF required = {} THEN 0 ELSE Estimate(At(required))

Allowance == cfg.limit - Reserved

SummaryGoal == Max({0, decision.goal - Reserved})

Reserve ==
    /\ pc = "compare"
    /\ decision.before > decision.trigger
    /\ ~CompleteEviction
    /\ \/ Reserved > cfg.limit /\ Fail("required overflow")
       \/ /\ Reserved <= cfg.limit
          /\ Optional = {}
          /\ \/ decision.before > cfg.limit /\ Fail("required overflow")
             \/ /\ decision.before <= cfg.limit
                /\ decision' = [decision EXCEPT !.after = decision.before]
                /\ out' = input
                /\ Goto("verify")
                /\ UNCHANGED <<input, cfg, required, cur, output, answer>>
       \/ /\ Reserved <= cfg.limit
          /\ Optional # {}
          /\ cur' = Ascending(Optional)
          /\ Goto(IF cfg.summarizer THEN "summarize" ELSE "evict")
          /\ UNCHANGED <<input, cfg, required, output, decision, out, answer>>

\* validateRollingSummaryIdentity.
SummaryIdentityFree(m) == cfg.rolling > 0 => \A i \in Positions : input[i].id # m.id

\* summarizeOptional: one call of the summarizer, whose answer must fit the
\* allowance and be no part of a tool round left open.
SummarizeOptional ==
    /\ pc = "summarize"
    /\ \E summary \in Summaries :
         \/ /\ Estimate(<<summary>>) > Allowance
            /\ Fail("budget exceeded")
         \/ /\ Estimate(<<summary>>) <= Allowance
            /\ ~EvictableRoundsValid(<<summary>>)
            /\ Fail("invalid round")
         \/ /\ Estimate(<<summary>>) <= Allowance
            /\ EvictableRoundsValid(<<summary>>)
            /\ ~SummaryIdentityFree(summary)
            /\ Fail("invalid summary")
         \/ /\ Estimate(<<summary>>) <= Allowance
            /\ EvictableRoundsValid(<<summary>>)
            /\ SummaryIdentityFree(summary)
            /\ output' = <<summary>>
            /\ decision' = [decision EXCEPT
                 !.compacted = TRUE,
                 !.summaryMax = Allowance,
                 !.summaryGoal = SummaryGoal]
            /\ Goto("merge")
            /\ UNCHANGED <<input, cfg, required, cur, out, answer>>

\* The strategy's result goes through validateEvictableRounds.
Evicted(ms) ==
    \/ ~EvictableRoundsValid(ms) /\ Fail("invalid round")
    \/ /\ EvictableRoundsValid(ms)
       /\ output' = ms
       /\ Goto("merge")
       /\ UNCHANGED <<input, cfg, required, cur, decision, out, answer>>

\* evictOptional: what fits its allowance is left alone.
OptionalFits ==
    /\ pc = "evict"
    /\ Estimate(Messages(cur)) <= Allowance
    /\ output' = Messages(cur)
    /\ Goto("merge")
    /\ UNCHANGED <<input, cfg, required, cur, decision, out, answer>>

ApplyStrategy(kind) ==
    /\ pc = "evict"
    /\ cfg.strategy = kind
    /\ Estimate(Messages(cur)) > Allowance

ApplyStrict == ApplyStrategy("strict") /\ Fail("budget exceeded")
ApplyDrop == ApplyStrategy("drop") /\ Evicted(<< >>)
ApplyHost == ApplyStrategy("host") /\ \E ms \in HostOutputs(Messages(cur)) : Evicted(ms)

EnforceMinMessages(ms) == IF Len(ms) < cfg.minimum THEN << >> ELSE ms

\* applyFastPath: the longest suffix that fits, found by bisection of the
\* suffix sums.
ApplyHeadFast ==
    /\ ApplyStrategy("head")
    /\ ~cfg.atomic
    /\ cfg.additive
    /\ LET ms == Messages(cur)
           start == Min({k \in 1..Len(ms) + 1 :
                           Weight(SubSeq(ms, k, Len(ms))) <= Allowance})
       IN  Evicted(EnforceMinMessages(SubSeq(ms, start, Len(ms))))

ApplyHeadSelective ==
    /\ ApplyStrategy("head")
    /\ cfg.atomic \/ ~cfg.additive
    /\ Goto("drop head")
    /\ UNCHANGED <<input, cfg, required, cur, output, decision, out, answer>>

\* Defect: a block that just fits loses one more unit.
DropHeadUnitAtLimit ==
    /\ pc = "drop head"
    /\ cur # << >>
    /\ Estimate(Messages(cur)) >= Allowance
    /\ LET ms == Messages(cur)
           end == IF cfg.atomic /\ ms[1].role = "assistant" /\ HasToolCalls(ms[1])
                  THEN ToolRoundEndIndex(ms, 1)
                  ELSE 1
       IN  cur' = SubSeq(cur, end + 1, Len(cur))
    /\ UNCHANGED <<input, cfg, pc, required, output, decision, out, answer>>

\* One iteration of applySelectivePath: the first message left, or the whole
\* round it opens, goes.
DropHeadUnit ==
    /\ pc = "drop head"
    /\ cur # << >>
    /\ Estimate(Messages(cur)) > Allowance
    /\ LET ms == Messages(cur)
           end == IF cfg.atomic /\ ms[1].role = "assistant" /\ HasToolCalls(ms[1])
                  THEN ToolRoundEndIndex(ms, 1)
                  ELSE 1
       IN  cur' = SubSeq(cur, end + 1, Len(cur))
    /\ UNCHANGED <<input, cfg, pc, required, output, decision, out, answer>>

DropHeadDone ==
    /\ pc = "drop head"
    /\ cur = << >> \/ Estimate(Messages(cur)) <= Allowance
    /\ Evicted(EnforceMinMessages(Messages(cur)))

ApplyTail ==
    /\ ApplyStrategy("tail")
    /\ Goto("drop tail")
    /\ UNCHANGED <<input, cfg, required, cur, output, decision, out, answer>>

\* Defect of dropTailAtomicUnit: the last message is kept in the slice.
DropTailUnitInclusive ==
    /\ pc = "drop tail"
    /\ Estimate(Messages(cur)) > Allowance
    /\ UNCHANGED <<input, cfg, pc, required, cur, output, decision, out, answer>>

\* One iteration of the drop-tail loop, which gives up when a single message
\* is left.
DropTailUnit ==
    /\ pc = "drop tail"
    /\ LET ms == Messages(cur)
           last == Len(cur)
           end == IF ms[last].role # "tool" THEN last - 1
                  ELSE ToolRoundStartForTail(ms) - 1
           next == SubSeq(cur, 1, end)
       IN  \/ last <= 1 /\ Fail("block too large")
           \/ /\ last > 1
              /\ Estimate(Messages(next)) <= Allowance
              /\ Evicted(Messages(next))
           \/ /\ last > 1
              /\ Estimate(Messages(next)) > Allowance
              /\ cur' = next
              /\ UNCHANGED <<input, cfg, pc, required, output, decision, out, answer>>

-----------------------------------------------------------------------------
(* Putting the parts together *)

Occurrences(m, ms) == Cardinality({k \in DOMAIN ms : ms[k] = m})

\* takeMatchingOutput: of equal optional messages the first ones are kept.
Taken(i) ==
    Cardinality({j \in Optional : j < i /\ input[j] = input[i]})
        < Occurrences(input[i], output)

\* The summary stands where the first optional message stood.
MergedSummary ==
    LET first == Min(Optional)
    IN  At({i \in required : i < first}) \o output \o At({i \in required : i > first})

\* Eviction results go back to their original positions.
Merged == IF decision.compacted THEN MergedSummary
          ELSE At(required \cup {i \in Optional : Taken(i)})

\* mergeRequired: nothing in output may take a required identity or, unless
\* it is the summary, be anything but an optional message of the input.
MergeRequired ==
    /\ pc = "merge"
    /\ \/ /\ required = {}
          /\ out' = output
          /\ Goto("admit")
          /\ UNCHANGED answer
       \/ /\ required # {}
          /\ ~IDsUnique(output)
          /\ Answer("duplicate id")
          /\ UNCHANGED out
       \/ LET collides == \E i \in required, k \in DOMAIN output :
                             input[i].id = output[k].id
              foreign == \E k \in DOMAIN output :
                           Occurrences(output[k], output)
                             > Cardinality({j \in Optional : input[j] = output[k]})
          IN  /\ required # {}
              /\ IDsUnique(output)
              /\ IF collides \/ (foreign /\ ~decision.compacted)
                 THEN Answer("invalid retention") /\ UNCHANGED out
                 ELSE /\ out' = Merged
                      /\ Goto("admit")
                      /\ UNCHANGED answer
    /\ UNCHANGED <<input, cfg, required, cur, output, decision>>

\* Defect: the parts fit, so the whole is taken to fit.
AdmitUnmeasured ==
    /\ pc = "admit"
    /\ \/ ~LayoutValid(Masked(out)) /\ Fail("invalid round")
       \/ /\ LayoutValid(Masked(out))
          /\ decision' = [decision EXCEPT !.after = Estimate(out)]
          /\ Goto("verify")
          /\ UNCHANGED <<input, cfg, required, cur, output, out, answer>>

\* Defect: the composed result is measured but its rounds are not looked at.
AdmitUninspected ==
    /\ pc = "admit"
    /\ \/ Estimate(out) > cfg.limit /\ Fail("budget exceeded")
       \/ /\ Estimate(out) <= cfg.limit
          /\ decision' = [decision EXCEPT !.after = Estimate(out)]
          /\ Goto("verify")
          /\ UNCHANGED <<input, cfg, required, cur, output, out, answer>>

\* The composed result is inspected and measured as a whole.
Admit ==
    /\ pc = "admit"
    /\ \/ ~LayoutValid(Masked(out)) /\ Fail("invalid round")
       \/ /\ LayoutValid(Masked(out))
          /\ Estimate(out) > cfg.limit
          /\ Fail("budget exceeded")
       \/ /\ LayoutValid(Masked(out))
          /\ Estimate(out) <= cfg.limit
          /\ decision' = [decision EXCEPT !.after = Estimate(out)]
          /\ Goto("verify")
          /\ UNCHANGED <<input, cfg, required, cur, output, out, answer>>

\* validateRequiredOutput: each required reference at its first position,
\* in order.
RequiredInOrder ==
    LET refs == Messages(ExplicitRequired)
        places(m) == {k \in DOMAIN out : out[k].id = m.id}
    IN  /\ \A r \in DOMAIN refs :
             /\ places(refs[r]) # {}
             /\ \A k \in places(refs[r]) : out[k] = refs[r]
        /\ \A r \in 1..Len(refs) - 1 :
             Min(places(refs[r])) < Min(places(refs[r + 1]))

Verify ==
    /\ pc = "verify"
    /\ \/ RequiredInOrder /\ Answer("ok")
       \/ ~RequiredInOrder /\ Answer("invalid retention")
    /\ UNCHANGED <<input, cfg, required, cur, output, decision, out>>

Count == steps' = steps + 1

Next ==
    \/ InspectBudgetRounds /\ Count
    \/ SelectRequired /\ Count
    \/ MeasureInput /\ Count
    \/ ProtectSuffix /\ Count
    \/ Fits /\ Count
    \/ StartCompleteEviction /\ Count
    \/ EvictCompleteCandidate /\ Count
    \/ Reserve /\ Count
    \/ SummarizeOptional /\ Count
    \/ OptionalFits /\ Count
    \/ ApplyStrict /\ Count
    \/ ApplyDrop /\ Count
    \/ ApplyHost /\ Count
    \/ ApplyHeadFast /\ Count
    \/ ApplyHeadSelective /\ Count
    \/ DropHeadUnit /\ Count
    \/ DropHeadDone /\ Count
    \/ ApplyTail /\ Count
    \/ DropTailUnit /\ Count
    \/ MergeRequired /\ Count
    \/ Admit /\ Count
    \/ Verify /\ Count
    \/ Interrupted /\ Count

Spec == Init /\ [][Next]_vars

-----------------------------------------------------------------------------
(* Properties *)

\* A result never exceeds the limit as the estimator counts the composed
\* messages, also when its count of the parts does not add up to the whole; and
\* the decision that goes with it passes BudgetDecision.validate, which manifest
\* and record validation apply to it later.
FitsLimit ==
    answer = "ok" =>
        /\ decision.after = Estimate(out) /\ Estimate(out) <= cfg.limit
        /\ decision.goal <= decision.trigger /\ decision.trigger <= cfg.limit
        /\ decision.compacted =>
             /\ decision.summaryGoal <= decision.summaryMax
             /\ decision.summaryMax <= cfg.limit
             /\ decision.summaryGoal <= decision.goal

\* The input with optional messages removed, or with all of them replaced by one
\* summary where the first of them stood.
FromInput ==
    IF decision.compacted
    THEN \E k \in DOMAIN out :
           /\ out[k] \in Summaries
           /\ SubSeq(out, 1, k - 1) = At({i \in required : i < Min(Optional)})
           /\ SubSeq(out, k + 1, Len(out)) = At({i \in required : i > Min(Optional)})
    ELSE \E S \in SUBSET Optional : out = At(required \cup S)

EndsAlike(before, after, n) ==
    n <= Len(after) /\ SubSeq(after, Len(after) - n + 1, Len(after)) = SubSeq(before, Len(before) - n + 1, Len(before))

\* Required messages come out unchanged and in order, whatever a callback
\* returned.  From the first unanswered tool call on nothing is summarised,
\* shortened or evicted, and with a rolling summary the most recent messages
\* that are not fixed come out last among those, however many fixed ones stand
\* between them (mergeRequired, protectCompileBudgetSuffix).
RequiredKept ==
    answer = "ok" =>
        LET history(ms) == Kept(ms, {m \in Range(ms) : m.id \notin cfg.fixed})
        IN  /\ required # {} \/ cfg.strategy # "host" \/ cfg.summarizer => FromInput
            /\ \A r \in Rounds(Masked(input)) :
                 r.state = "pending" => EndsAlike(input, out, Len(input) - r.start + 1)
            /\ EndsAlike(history(input), history(out), Min({cfg.rolling, Len(history(input))}))

\* A complete round of the input is whole in the result or absent from it, no
\* round becomes pending that was not, and strategies that evict whole rounds
\* never fail because they split one.  (A fixed tool message may join the round
\* before it, so the history must be well formed as it stands and not only with
\* fixed messages masked.)
RoundsWhole ==
    /\ answer = "ok" =>
         /\ LayoutValid(Masked(out))
         /\ \A r \in Rounds(Masked(out)) :
              r.state = "pending" =>
                  \E s \in Rounds(Masked(input)) :
                      s.state = "pending" /\ input[s.start] = out[r.start]
         /\ \A r \in Rounds(Masked(input)) :
              LET present == {i \in r.start..r.end : input[i].id # NoID
                                 /\ \E k \in DOMAIN out : out[k] = input[i]}
                  named == {i \in r.start..r.end : input[i].id # NoID}
              IN  present = {} \/ present = named
    /\ answer = "invalid round" /\ LayoutValid(input) /\ LayoutValid(Masked(input)) =>
         cfg.summarizer \/ cfg.strategy = "host" \/ (cfg.strategy = "head" /\ ~cfg.atomic)

\* With whole-round drop-head or drop eviction a block is refused only when the
\* required messages alone do not fit: evicting never paints itself into a
\* corner.  And drop-head evicts no more than it must: with any larger tail of
\* whole optional units the result would not have fitted.
NoNeedlessLoss ==
    ~cfg.summarizer =>
        /\ /\ answer \in {"required overflow", "budget exceeded", "block too large"}
           /\ cfg.strategy = "drop" \/ (cfg.strategy = "head" /\ cfg.atomic)
           => Estimate(At(required)) > cfg.limit
        /\ answer = "ok" /\ cfg.strategy = "head" /\ cfg.atomic /\ cfg.minimum = 0 =>
             LET kept(i) == \E k \in DOMAIN out : out[k] = input[i]
             IN  \A i \in Optional :
                     /\ input[i].role # "tool"
                     /\ \A j \in Optional : j <= i => ~kept(j)
                     => Estimate(At(required \cup {j \in Optional : j >= i})) > cfg.limit

\* No fixed message with tool calls stands in front of the history: the tool
\* calls that Compile fixes are those of the pending messages behind it.
FixedCallsLast ==
    \A fixed \in {c.fixed : c \in Configs} : \A ms \in Inputs : \A i, j \in DOMAIN ms :
        i < j /\ ms[i].id \in fixed /\ HasToolCalls(ms[i]) => ms[j].id \in fixed

\* A call returns in bounded time: apart from its ten stages it takes a step
\* only to evict something, so no eviction loop runs without end.  This takes
\* FixedCallsLast: the loop of evictCompleteCandidate may otherwise find a unit
\* of which nothing can be removed.
Returns == steps <= 10 + Len(input)

=============================================================================
