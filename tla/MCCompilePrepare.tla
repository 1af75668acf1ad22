-------------------------- MODULE MCCompilePrepare --------------------------
(* Instances of CompilePrepare for TLC.  Three questions share the run: how   *)
(* artifacts and resources replace one another, how messages get their       *)
(* identities, and which requests are refused.                                *)
EXTENDS CompilePrepare

CONSTANTS MaxArtifacts      \* artifacts in a request

NoneID == <<"", "", 0>>
Host(segment, k) == IF segment = "tools" THEN NoneID ELSE <<"host", segment, k>>

NoOrigin == [template |-> None, layer |-> None]
Msg(name, role) ==
    [id |-> IF name = "" THEN NoneID ELSE <<"m", name, 0>>, role |-> role, calls |-> << >>,
     results |-> << >>, rev |-> <<"text">>, origin |-> NoOrigin, blobs |-> {}, opaque |-> << >>]
From(m, t, l) == [m EXCEPT !.origin = [template |-> t, layer |-> l]]
Carries(m, state) == [m EXCEPT !.opaque = <<[id |-> state]>>]
CallsTool == [Msg("call", "assistant") EXCEPT !.calls = <<"c1", "c2">>]
Answers == [Msg("answer", "tool") EXCEPT !.results = <<"c1", "c2">>]

Art(name, chunk, policy, sources, life) ==
    [id |-> <<"artifact", name, 0>>, chunks |-> <<chunk>>, owner |-> None, sources |-> sources,
     life |-> life, turn |-> "t1", policy |-> policy, limit |-> None, keep |-> "default"]

RequestArtifacts ==
    {Art("A", "a", "", {"s"}, "persistent"), Art("A", "b", "append", {}, "persistent"),
     Art("B", "c", "replace", {"s"}, "persistent"), Art("B", "d", "", {}, "turn"),
     Art("A", "q", "", {}, "persistent")}

Segs(system, history, memory, tools) ==
    [g \in Segments |-> CASE g = "system" -> system [] g = "history" -> history
                          [] g = "memory" -> memory [] g = "tools" -> tools]

Plain ==
    [loads |-> FALSE, turn |-> "t1", segs |-> Segs(None, <<Msg("h", "user")>>, <<Msg("k", "user")>>, None),
     pending |-> << >>, current |-> None, arts |-> << >>, identity |-> "none", durable |-> FALSE,
     targetsOk |-> TRUE, args |-> << >>]

ArtifactRequests ==
    {[Plain EXCEPT !.arts = as, !.turn = t] :
        as \in UNION {[1..n -> RequestArtifacts] : n \in 1..MaxArtifacts}, t \in {"t1", None}}

IdentityRequests ==
    {[Plain EXCEPT !.segs = Segs(<<Msg(s, "system")>>, <<Msg("h", "user"), Msg(h, "assistant")>>, None, None),
                   !.pending = p, !.current = c, !.identity = i, !.durable = d] :
        s \in {"", "s"}, h \in {"", "g"}, p \in {<< >>, <<Msg("", "user")>>, <<Msg("h", "user"), Msg("", "user")>>},
        c \in {None, [raw |-> Msg("", "user"), safe |-> None, keep |-> "raw"],
               [raw |-> Msg("r", "user"), safe |-> Msg("", "user"), keep |-> "safe"],
               [raw |-> Msg("r", "user"), safe |-> Msg("q", "user"), keep |-> "skip"]},
        i \in {"none", "event", "host"}, d \in BOOLEAN}

Offload(call, ref) == [ref |-> ref, call |-> call]
ArgumentRequests ==
    {[Plain EXCEPT !.segs = Segs(None, h, None, None), !.args = args, !.targetsOk = ok] :
        h \in {<<CallsTool, Answers>>, <<CallsTool>>}, ok \in BOOLEAN,
        args \in {<<Offload("c1", Ref(CallsTool))>>,
                  <<Offload("c1", Ref(CallsTool)), Offload("c2", Ref(CallsTool))>>,
                  <<Offload("c1", Ref(CallsTool)), Offload("c1", Ref(CallsTool))>>,
                  <<Offload("c1", Ref([CallsTool EXCEPT !.rev = <<"other">>]))>>}}

OpaqueRequests ==
    {[Plain EXCEPT !.segs = Segs(None, <<Carries(Msg("h", "user"), "o1"), m>>, None, None)] :
        m \in {Msg("g", "user"), Carries(Msg("g", "user"), "o1")}}

LoadRequests == {[Plain EXCEPT !.loads = TRUE], [Plain EXCEPT !.loads = TRUE, !.segs = Segs(None, None, None, None)]}

MCRequests ==
    ArtifactRequests \cup IdentityRequests \cup ArgumentRequests \cup OpaqueRequests \cup LoadRequests

MCStored ==
    {[segs |-> Segs(<< >>, << >>, << >>, << >>), arts |-> << >>],
     [segs |-> Segs(<< >>, <<Msg("", "user")>>, <<From(Msg("old", "user"), "tpl", "l1")>>, <<Msg("t", "tool")>>),
      arts |-> <<Art("A", "a", "", {"s"}, "persistent")>>]}

Block(segment, merge, selections) == [segment |-> segment, merge |-> merge, selections |-> selections]
Resources == [store |-> TRUE, named |-> TRUE, config |-> TRUE, mat |-> "valid", opaque |-> TRUE,
              blocks |-> <<Block("memory", "append", <<"x", "y">>), Block("system", "append", <<"z">>)>>]

MCEngines ==
    {Resources,
     [Resources EXCEPT !.blocks = <<Block("memory", "replace", << >>)>>],
     [Resources EXCEPT !.blocks = <<Block("memory", "dedup", << >>)>>, !.opaque = FALSE],
     [Resources EXCEPT !.mat = "none", !.blocks = << >>],
     [Resources EXCEPT !.config = FALSE], [Resources EXCEPT !.named = FALSE],
     [Resources EXCEPT !.mat = "broken"]}

ResourceArtifacts ==
    {Art("A", "p", "append", {}, "persistent"), Art("A", "q", "", {}, "persistent"),
     Art("A", "r", "dedup", {"s"}, "persistent"), Art("A", "e", "append", {"s"}, "ephemeral"),
     Art("B", "p", "replace", {"s"}, "persistent"), Art("B", "q", "append", {}, "turn")}

MCResolutions(b) ==
    LET some(n) == {[k \in 1..n |-> [sel |-> b.selections[k], artifact |-> as[k], rep |-> "v1"]] :
                      as \in [1..n -> ResourceArtifacts]}
        bad == <<[sel |-> "w", artifact |-> Art("A", "q", "", {}, "persistent"), rep |-> "v1"]>>
        conflict == <<[sel |-> "z", artifact |-> Art("A", "p", "append", {}, "persistent"), rep |-> "v2"]>>
    IN  IF b.selections # << >>
        THEN {[messages |-> << >>, resources |-> r] :
                r \in some(Len(b.selections)) \cup {bad, conflict}}
             \cup {[messages |-> <<[Msg("", "user") EXCEPT !.id = <<"artifact", "A", 0>>]>>, resources |-> r] :
                     r \in {r \in some(Len(b.selections)) : r[1].artifact.id = <<"artifact", "A", 0>>}}
        ELSE {[messages |-> <<From(Msg("", "user"), "tpl", "l1")>>, resources |-> << >>],
              [messages |-> <<Carries(Msg("n", "user"), "o1")>>, resources |-> << >>],
              [messages |-> <<Msg("h", "user")>>, resources |-> << >>]}
=============================================================================
