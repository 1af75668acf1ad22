-------------------------- MODULE MCCompileOutput --------------------------
(* Instances of CompileOutput for TLC: a conversation with a tool round, two   *)
(* artifacts, a pending message and, in some, opaque states that depend on    *)
(* other messages and on each other.                                           *)
EXTENDS CompileOutput

NoneID == <<"", "", 0>>
Msg(name, role) ==
    [id |-> IF name = "" THEN NoneID ELSE <<"m", name, 0>>, role |-> role, calls |-> << >>,
     results |-> << >>, rev |-> <<"text">>, origin |-> [template |-> None, layer |-> None],
     blobs |-> {}, opaque |-> << >>]
Long(m) == [m EXCEPT !.rev = <<"long">>]
Weight(m) == IF m.rev = <<"long">> THEN 3 ELSE 1

S == Msg("s", "system")
U == Msg("u", "user")
Call == [Msg("call", "assistant") EXCEPT !.calls = <<"c1">>]
Answer == [Msg("answer", "tool") EXCEPT !.results = <<"c1">>]
V == Msg("v", "assistant")
K == Msg("k", "user")
T == Msg("t", "system")
P == Msg("p", "user")

Art(name, limit) ==
    [id |-> <<"artifact", name, 0>>, chunks |-> <<"a">>, owner |-> None, sources |-> {},
     life |-> "persistent", turn |-> None, policy |-> "", limit |-> limit, keep |-> "default"]
A == Art("A", None)
B == Art("B", 1)
MA == MaterializedMessage(A, <<"text">>)
MB == MaterializedMessage(B, <<"long">>)

Snap(system, history, memory, tools) ==
    [g \in Segments |-> CASE g = "system" -> system [] g = "history" -> history
                          [] g = "memory" -> memory [] g = "tools" -> tools]

\* The request had an older memory message, which a deferred block replaced by
\* K, and the call's arguments in full.
Old == Msg("old", "user")
Turn(keep) == [raw |-> P, safe |-> None, keep |-> keep]
Request == [segs |-> Snap(<<S>>, <<U, Call, Answer>>, <<Old>>, << >>), pending |-> << >>, current |-> Turn("raw")]

Base ==
    [req |-> Request, snap |-> Snap(<<S>>, <<U, Call, Answer>>, <<K, MA>>, << >>), pending |-> <<P>>, arts |-> <<A>>,
     reps |-> << >>, original |-> {}, targets |-> << >>]

State(id, required, prefix) == [id |-> id, profile |-> "gpt", required |-> required, prefix |-> prefix]
V1 == [V EXCEPT !.opaque = <<State("o1", {Ref(U)}, << >>)>>]
W1 == [Msg("w", "assistant") EXCEPT !.opaque = <<State("o2", {Ref(V1)}, << >>), State("o3", {}, Refs(<<S>>))>>]
Chained == [Base EXCEPT !.snap = Snap(<<S>>, <<U, V1, W1>>, << >>, << >>), !.arts = << >>,
                        !.req.segs = Snap(<<S>>, <<U, V1, W1>>, << >>, << >>),
                        !.original = Origins(<<V1, W1>>)]

Rep(g, m) == [segment |-> g, id |-> m.id, rev |-> <<"long">>]
Replaced1 == [Base EXCEPT !.reps = <<Rep("history", U), Rep("memory", K)>>]

Pipe(limit, roles, summarizes, rolling) ==
    [limit |-> limit, ids |-> {}, roles |-> roles, rolling |-> rolling, summarizes |-> summarizes]

Target(segs) ==
    [kind |-> "target", segs |-> segs, include |-> FALSE, refs |-> << >>, turn |-> FALSE,
     sel |-> None, budget |-> None, view |-> FALSE, format |-> FALSE]

Targets ==
    {Target({"memory"}),
     [Target({"history"}) EXCEPT !.refs = <<A>>, !.turn = TRUE, !.budget = Pipe(4, {}, FALSE, 0)],
     [Target({"system", "history"}) EXCEPT !.include = TRUE, !.format = TRUE],
     [Target({}) EXCEPT !.view = TRUE, !.segs = {}],
     [Target({}) EXCEPT !.refs = <<A, A>>]}

MCPrepared ==
    {Base, Replaced1, Chained,
     [Base EXCEPT !.snap = Snap(<<S>>, <<U, Call>>, <<K>>, <<T>>), !.arts = << >>,
                  !.req.segs = Snap(<<S>>, <<U, Call>>, <<K>>, <<T>>), !.req.current = None,
                  !.req.pending = <<P>>],
     [Base EXCEPT !.snap = Snap(<<S>>, <<U>>, <<K, MA, MB>>, << >>), !.arts = <<A, B>>,
                  !.req.segs = Snap(<<S>>, <<U>>, << >>, << >>)],
     [Base EXCEPT !.snap["history"] = <<U, [Call EXCEPT !.blobs = {"c1"}], Answer>>,
                  !.pending = <<Long(P)>>,
                  !.req.current = [raw |-> P, safe |-> Long(P), keep |-> "skip"]],
     [Chained EXCEPT !.targets = <<Target({"history"})>>]}
    \cup {[Base EXCEPT !.targets = <<t>>] : t \in Targets}

Engine(sel, budget, policy, opaque) ==
    [sel |-> sel, budget |-> budget, policy |-> policy, opaque |-> opaque]
Drops == [profile |-> "gpt", drop |-> TRUE]
Strict == [profile |-> "gpt", drop |-> FALSE]

MCEngines ==
    {Engine(None, None, TRUE, Drops),
     Engine(None, Pipe(5, {"system"}, FALSE, 0), TRUE, Drops),
     Engine(None, Pipe(5, {}, TRUE, 1), FALSE, Strict),
     Engine([required |-> << >>], Pipe(6, {}, FALSE, 0), FALSE, Drops),
     Engine([required |-> <<Ref(U)>>], Pipe(4, {}, FALSE, 0), FALSE, Drops),
     Engine([required |-> <<Ref(U)>>], Pipe(1, {}, FALSE, 0), FALSE, Drops),
     Engine([required |-> <<A>>], None, FALSE, None),
     Engine(None, None, FALSE, None)}

\* Plans choose any of the candidates, all alike or the later ones first; one
\* names a message inside a round.
MCPlans(cands) ==
    LET plan(S1, p(_)) == LET at == SelectSeq(Positions(cands), LAMBDA k : k \in S1)
                          IN  [i \in DOMAIN at |-> [ref |-> cands[at[i]].ref, priority |-> p(at[i])]]
        flat(k) == 0
        late(k) == k
    IN  {plan(S1, flat) : S1 \in SUBSET DOMAIN cands} \cup {plan(DOMAIN cands, late)}
        \cup {<<[ref |-> Ref(Answer), priority |-> 0]>>}

MCHooks(s) ==
    {s, [s EXCEPT !["history"] = <<Msg("", "user")>> \o @], [s EXCEPT !["history"] = @ \o <<P>>],
     [s EXCEPT !["memory"] = @ \o s["system"]],
     [s EXCEPT !["memory"] = << >>, !["tools"] = s["memory"]]}
    \cup (IF s["history"] = << >> THEN {} ELSE {[s EXCEPT !["history"] = SubSeq(@, 1, Len(@) - 1)]})
MCSummaries == {Msg("summary", "assistant"), Msg("k", "assistant")}
MCRole(m) == IF m.id = MA.id THEN "system" ELSE m.role
MCFormats(s) ==
    {s, [s EXCEPT !["system"] = IF @ = << >> THEN @ ELSE <<Msg("f", "system")>>],
     [s EXCEPT !["system"] = [k \in DOMAIN @ |-> Long(@[k])]]}
MCTargetFormats(ms) == {ms, <<Msg("", "assistant")>>}
MCPolicy(s) ==
    {s, [s EXCEPT !["history"] = [k \in DOMAIN @ |-> IF @[k].id = U.id THEN Long(@[k]) ELSE @[k]]],
     [s EXCEPT !["system"] = << >>],
     [s EXCEPT !["history"] = [k \in DOMAIN @ |-> IF @[k].id = V.id THEN [@[k] EXCEPT !.opaque = << >>] ELSE @[k]]]}
=============================================================================
