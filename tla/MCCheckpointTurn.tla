------------------------- MODULE MCCheckpointTurn -------------------------
(* Instance of CheckpointTurn for TLC: one tool round and a user message,      *)
(* three artifacts, two of them of one origin, and a payload and call          *)
(* arguments large enough to be offloaded.                                     *)
EXTENDS CheckpointTurn

NoneID == <<"", "", 0>>
Msg(name, role) ==
    [id |-> <<"m", name, 0>>, role |-> role, calls |-> << >>, results |-> << >>, rev |-> <<"text">>,
     origin |-> [template |-> None, layer |-> None], blobs |-> {}, opaque |-> << >>]
U == Msg("u", "user")
Call == [Msg("call", "assistant") EXCEPT !.calls = <<"c1">>]
Answer == [Msg("answer", "tool") EXCEPT !.results = <<"c1">>]
Again == [Msg("again", "tool") EXCEPT !.results = <<"c1">>]
Round == <<Call, Answer>>
Bound == [Msg("v", "assistant") EXCEPT
            !.opaque = <<[id |-> "o1", profile |-> "gpt", required |-> {Ref(U)}, prefix |-> << >>]>>]

Art(name, chunks, owner, policy) ==
    [id |-> <<"artifact", name, 0>>, chunks |-> chunks, owner |-> owner, sources |-> {},
     life |-> "persistent", turn |-> None, policy |-> policy, limit |-> None, keep |-> "default",
     blob |-> None]
A == Art("A", <<"a">>, "k", "")
B == Art("B", <<"b">>, "k", "")
ReplacingB == Art("B", <<"c">>, "k", "replace")
Working == [Art("W", <<"w">>, None, "") EXCEPT !.life = "turn"]
Large == Art("L", <<"l", "m">>, None, "")
TooLarge == Art("L", <<"l", "m", "n">>, None, "")
MCArtifacts == {A, Large, TooLarge}

MCArguments == {[ref |-> [id |-> Call.id], call |-> "c1", chunks |-> <<"x", "y">>]}

Delta(op) == [op |-> op, segment |-> "history", messages |-> << >>, messageIDs |-> None,
              artifactIDs |-> None, artifact |-> None, round |-> None]
Add(ms) == [Delta("append_messages") EXCEPT !.messages = ms]
Take(ms) == [Delta("remove_messages") EXCEPT !.messageIDs = IDs(ms)]
AddRound(ms) == [Delta("append_tool_round") EXCEPT !.round = ms]
Upsert(a) == [Delta("upsert_artifact") EXCEPT !.artifact = a]
Drop(ids) == [Delta("remove_artifact") EXCEPT !.artifactIDs = ids]

HistoryDeltas ==
    {Add(<<U>>), Add(<<Again>>), AddRound(Round), Take(<<Call>>), Take(<<Answer>>), Take(<<U>>)}
LoneDeltas ==
    {Add(<<Bound>>), Add(<<Call>>), Take(Round), AddRound(<<Call>>), AddRound(None),
     [Delta("replace_segment") EXCEPT !.messages = <<U, Call>>], Delta("clear_segment"), Delta("clear_state"),
     Delta(""), Delta("compact"), [Take(<<>>) EXCEPT !.artifactIDs = {}],
     Upsert(Working), Upsert(None), Drop({}), [Drop({}) EXCEPT !.messageIDs = {}]}

\* An offloaded artifact is committed as it is, after an edit of what it shows,
\* under another name, or appended to what is there.
Edits(a) == {a, [a EXCEPT !.chunks = <<"e">>], [a EXCEPT !.id = A.id], [a EXCEPT !.policy = "append"]}

ArtifactDeltas(offloaded) ==
    {Upsert(A), Upsert(ReplacingB), Upsert([A EXCEPT !.id = Large.id, !.owner = None]), Drop({A.id, ReplacingB.id})}
    \cup UNION {{Upsert(e) : e \in Edits(a)} : a \in {a \in offloaded : a.blob # None}}

MCBatches(offloaded) ==
    LET pairs(ds) == {<<d, e>> : d, e \in ds}
        different(ds) == {p \in pairs(ds) : p[1] # p[2]}
    IN  {<<d>> : d \in LoneDeltas \cup ArtifactDeltas(offloaded)}
        \cup different(HistoryDeltas) \cup pairs(ArtifactDeltas({}))
        \cup {<<AddRound(Round), Upsert(B)>>, <<Take(Round), Add(<<Call>>)>>}

MCPreviews == {[chunks |-> <<"p">>, media |-> "text"], [chunks |-> <<"p">>, media |-> "html"],
               [chunks |-> <<"p", "q">>, media |-> "text"]}
MCMedia == {"text"}
Flip(chunks) == {[k \in DOMAIN chunks |-> "?"]}
=============================================================================
