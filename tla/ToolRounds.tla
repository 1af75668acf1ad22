----------------------------- MODULE ToolRounds -----------------------------
(***************************************************************************)
(* Tool rounds of a history (tool_turn.go, round_state.go): an assistant   *)
(* message with tool calls and the tool messages right behind it.  A       *)
(* message is its identity (NoID for the empty string), its role, and the  *)
(* call references of its tool calls and tool results in order; the rest   *)
(* of its content plays no role here.                                      *)
(***************************************************************************)
EXTENDS Integers, Sequences, FiniteSets

CONSTANT NoID           \* the identity that is the empty string

NoCall == "no call"     \* a part whose call ID is the empty string

HasToolCalls(m) == m.calls # << >>
Elements(s) == {s[i] : i \in DOMAIN s}

\* The elements of s that are in S, in their order.
Kept(s, S) ==
    LET kept[k \in 0..Len(s)] ==
          IF k = 0 THEN << >>
          ELSE IF s[k] \in S THEN Append(kept[k - 1], s[k]) ELSE kept[k - 1]
    IN  kept[Len(s)]

\* The last of the contiguous tool messages behind position i.
ContiguousToolBlockEnd(ms, i) ==
    CHOOSE e \in i..Len(ms) :
        /\ \A k \in i+1..e : ms[k].role = "tool"
        /\ e < Len(ms) => ms[e + 1].role # "tool"

\* toolRoundCallIDs: every call has an identity of its own.
CallIDsValid(calls) ==
    /\ NoCall \notin Elements(calls)
    /\ Cardinality(Elements(calls)) = Len(calls)

\* validateToolRoundResults over the tool messages a..b: each has results,
\* each result answers a call, no call is answered twice.
ResultsValid(ms, a, b, calls) ==
    /\ \A i \in a..b : ms[i].role = "tool" /\ ms[i].results # << >>
    /\ \A i \in a..b : Elements(ms[i].results) \subseteq Elements(calls)
    /\ \A i, j \in a..b : \A p \in DOMAIN ms[i].results, q \in DOMAIN ms[j].results :
         ms[i].results[p] = ms[j].results[q] => i = j /\ p = q

Answered(ms, a, b) == UNION {Elements(ms[i].results) : i \in a..b}

\* ToolRoundFromMessages succeeds: the assistant at i and its block are a
\* complete round.
IsCompleteRound(ms, i) ==
    LET e == ContiguousToolBlockEnd(ms, i)
    IN  /\ ms[i].role = "assistant"
        /\ HasToolCalls(ms[i])
        /\ CallIDsValid(ms[i].calls)
        /\ ResultsValid(ms, i + 1, e, ms[i].calls)
        /\ Answered(ms, i + 1, e) = Elements(ms[i].calls)

\* toolRoundEndIndex.
ToolRoundEndIndex(ms, i) ==
    IF IsCompleteRound(ms, i) THEN ContiguousToolBlockEnd(ms, i) ELSE i

\* toolRoundStartForTail: where the last message's complete round starts, if it
\* ends one, else the last message.
ToolRoundStartForTail(ms) ==
    LET last == Len(ms)
        starts == {i \in 1..last - 1 : /\ ms[i].role = "assistant"
                                       /\ HasToolCalls(ms[i])
                                       /\ \A k \in i+1..last-1 : ms[k].role = "tool"
                                       /\ ToolRoundEndIndex(ms, i) = last}
    IN  IF starts = {} THEN last ELSE CHOOSE i \in starts : TRUE

-----------------------------------------------------------------------------
(* What InspectToolRoundStates finds, stated for the whole history at once.  *)

Opens(ms) == {i \in DOMAIN ms : HasToolCalls(ms[i]) /\ ms[i].role # "tool"}
InToolBlock(ms, i) ==
    /\ ms[i].role = "tool"
    /\ \E s \in Opens(ms) : s < i /\ i <= ContiguousToolBlockEnd(ms, s)

RoundValid(ms, s) ==
    LET e == ContiguousToolBlockEnd(ms, s)
    IN  /\ ms[s].role = "assistant"
        /\ CallIDsValid(ms[s].calls)
        /\ ResultsValid(ms, s + 1, e, ms[s].calls)
        /\ \A i \in s+1..e : ~HasToolCalls(ms[i])

\* The history is made of whole, well-formed rounds and of messages without
\* tool parts, and rounds have distinct identities.
LayoutValid(ms) ==
    /\ \A i \in DOMAIN ms :
         InToolBlock(ms, i) \/ (ms[i].role # "tool" /\ ms[i].results = << >>)
    /\ \A s \in Opens(ms) : RoundValid(ms, s)
    /\ \A s, t \in Opens(ms) : ms[s].id = ms[t].id => s = t \/ ms[s].id = NoID

MissingCalls(ms, s) ==
    Kept(ms[s].calls,
         Elements(ms[s].calls) \ Answered(ms, s + 1, ContiguousToolBlockEnd(ms, s)))

\* The state of the round opened at s before declarations are looked at.
LocalState(ms, s) ==
    IF Elements(ms[s].calls) \subseteq Answered(ms, s + 1, ContiguousToolBlockEnd(ms, s))
    THEN "complete" ELSE "pending"

\* Rounds of a valid history, as InspectToolRoundStates observes them when
\* nothing is declared.
Rounds(ms) ==
    {[start |-> s, end |-> ContiguousToolBlockEnd(ms, s), state |-> LocalState(ms, s)]
       : s \in Opens(ms)}

=============================================================================
