-------------------------- MODULE MCBudgetPipeline --------------------------
(* Instances of BudgetPipeline for TLC.  Inputs are all sequences of up to   *)
(* MaxBlocks blocks: single messages, complete and open tool rounds and      *)
(* message orders no history may have.                                       *)
EXTENDS BudgetPipeline

CONSTANTS S, U, L, A, T, B, X, Y, F     \* message identities
CONSTANTS MaxBlocks, Limits

Msg(id, role, calls, results, tokens) ==
    [id |-> id, role |-> role, calls |-> calls, results |-> results,
     tokens |-> tokens]

System == Msg(S, "system", << >>, << >>, 1)
Short == Msg(U, "user", << >>, << >>, 1)
Long == Msg(L, "user", << >>, << >>, 2)
Anonymous == Msg(NoID, "user", << >>, << >>, 1)
CallsOne == Msg(A, "assistant", <<"c1">>, << >>, 1)
AnswersOne == Msg(T, "tool", << >>, <<"c1">>, 1)
CallsTwo == Msg(B, "assistant", <<"c1", "c2">>, << >>, 1)
AnswersFirst == Msg(X, "tool", << >>, <<"c1">>, 1)
AnswersSecond == Msg(Y, "tool", << >>, <<"c2">>, 1)
Foreign == Msg(F, "assistant", << >>, << >>, 1)

Blocks == {<<System>>, <<Short>>, <<Long>>, <<Anonymous>>,
           <<CallsOne, AnswersOne>>, <<CallsOne>>,
           <<CallsTwo, AnswersFirst, AnswersSecond>>, <<AnswersFirst>>}

MCInputs == {FlattenSeq(bs) : bs \in UNION {[1..n -> Blocks] : n \in 0..MaxBlocks}}

Selectors == {
    [ids |-> {}, refs |-> {}, roles |-> {}, fixed |-> {}],
    [ids |-> {L}, refs |-> {}, roles |-> {}, fixed |-> {}],
    [ids |-> {X}, refs |-> {Short}, roles |-> {}, fixed |-> {}],
    [ids |-> {}, refs |-> {}, roles |-> {"system", "tool"}, fixed |-> {}],
    [ids |-> {}, refs |-> {}, roles |-> {}, fixed |-> {S, L}],
    [ids |-> {}, refs |-> {}, roles |-> {"user"}, fixed |-> {S, X}]}

Config(sel, limit, strategy, atomic, minimum, additive) ==
    [ids |-> sel.ids, refs |-> sel.refs, roles |-> sel.roles, fixed |-> sel.fixed,
     limit |-> limit, strategy |-> strategy, atomic |-> atomic,
     minimum |-> minimum, additive |-> additive, summarizer |-> FALSE,
     rolling |-> 0, trigger |-> 100, target |-> 100]

MCEvictionConfigs ==
    {Config(sel, limit, "head", atomic, minimum, additive) :
        sel \in Selectors, limit \in Limits, atomic \in BOOLEAN,
        minimum \in {0, 2}, additive \in BOOLEAN}
    \cup {Config(sel, limit, strategy, TRUE, 0, additive) :
        sel \in Selectors, limit \in Limits,
        strategy \in {"tail", "drop", "strict", "host"}, additive \in BOOLEAN}

MCSummaryConfigs ==
    {[Config(sel, limit, "head", TRUE, 0, additive) EXCEPT
        !.summarizer = TRUE, !.rolling = rolling, !.trigger = p[1], !.target = p[2]] :
        sel \in Selectors, limit \in Limits, additive \in BOOLEAN,
        rolling \in {0, 1, 2}, p \in {<<100, 100>>, <<100, 50>>, <<60, 30>>}}

MCConfigs == MCEvictionConfigs \cup MCSummaryConfigs

ASSUME FixedCallsLast

\* A frame around the request and one token wherever the role changes: the
\* cost of a whole is not that of its parts, in either direction.
MCHostCost(ms) ==
    1 + Weight(ms) + Cardinality({k \in 1..Len(ms) - 1 : ms[k].role # ms[k + 1].role})

MCHostOutputs(ms) ==
    {<< >>, Tail(ms), Front(ms), Reverse(ms), <<Foreign>>, <<ms[1], ms[1]>>}

MCSummaries == {Foreign, Short, [Foreign EXCEPT !.tokens = 2],
                [CallsOne EXCEPT !.id = F]}

=============================================================================
