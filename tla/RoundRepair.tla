----------------------------- MODULE RoundRepair -----------------------------
(***************************************************************************)
(* RepairInterruptedToolRounds (round_repair.go) over the scan of          *)
(* InspectToolRoundStates (round_state.go): walk the history once, collect *)
(* its tool rounds, then copy it with one synthetic tool message behind    *)
(* every round the host declared interrupted and decided to repair.        *)
(*                                                                         *)
(* Histories, declarations and decisions are the host's and frozen at the  *)
(* call.  The identity of a synthetic message is a digest of the round it  *)
(* repairs; digests of different rounds differ.  Encoding a message may    *)
(* fail at any round (the codec is the host's), and the context may be     *)
(* canceled at each of the checks the code makes.                          *)
(***************************************************************************)
EXTENDS ToolRounds, SequencesExt

CONSTANTS
    Histories,      \* message sequences the host may present
    Declarations,   \* functions from identities to "none" or a declared state
    Decisions       \* sets of identities with a nonempty decision

\* Histories and the tool calls of their messages are lists.
ASSUME HistoriesAssumption ==
    \A ms \in Histories :
        /\ ms \in Seq(Range(ms))
        /\ \A i \in DOMAIN ms : ms[i].calls \in Seq(Range(ms[i].calls))

VARIABLES
    input,          \* the frozen history
    declared,       \* the frozen declarations
    decisions,      \* the identities policy.Decisions names
    pc,             \* "scan", "decide", "copy" or "done"
    index,          \* the scan's index into input
    observations,   \* rounds observed so far, in order
    seen,           \* assistant identities of those rounds
    cursor,         \* how much of input has been copied
    out,            \* the projection's messages so far
    usedIDs,        \* identities a synthetic message must not take
    answer          \* what the call returned

vars == <<input, declared, decisions, pc, index, observations, seen, cursor,
          out, usedIDs, answer>>

-----------------------------------------------------------------------------
States == {"complete", "pending", "interrupted"}

\* The digest of a round's messages, as an identity.
SyntheticID(round) == [synthetic |-> round]

\* repairInterruptedRound: results for the missing calls, in call order.
SyntheticMessage(ms, o) ==
    [id |-> SyntheticID(SubSeq(ms, o.start, o.end)), role |-> "tool",
     calls |-> << >>, results |-> o.missing]

\* The assistant at i and its tool messages as inspectToolRound judges them.
Observation(ms, i) ==
    LET local == LocalState(ms, i)
        said == declared[ms[i].id]
    IN  [start |-> i, end |-> ContiguousToolBlockEnd(ms, i),
         missing |-> MissingCalls(ms, i), id |-> ms[i].id,
         state |-> IF said = "interrupted" THEN said ELSE local]

\* A declaration contradicts the content: neither the local state itself nor
\* an interruption of a pending round.
Conflict(ms, i) ==
    LET said == declared[ms[i].id]
    IN  /\ said # "none"
        /\ said # LocalState(ms, i)
        /\ ~(said = "interrupted" /\ LocalState(ms, i) = "pending")

-----------------------------------------------------------------------------
Answer(kind) ==
    /\ answer' = kind
    /\ pc' = "done"
    /\ UNCHANGED <<input, declared, decisions, index, observations, seen,
                   cursor, out, usedIDs>>

Init ==
    /\ input \in Histories
    /\ declared \in Declarations
    /\ decisions \in Decisions
    /\ pc = "scan"
    /\ index = 1
    /\ observations = << >>
    /\ seen = {}
    /\ cursor = 0
    /\ out = << >>
    /\ usedIDs = {}
    /\ answer = "none"

\* A message no round can contain where it stands.
Misplaced(m) ==
    \/ m.role = "tool"
    \/ m.results # << >>
    \/ HasToolCalls(m) /\ (m.role # "assistant" \/ (m.id # NoID /\ m.id \in seen))

Scanning == pc = "scan" /\ index <= Len(input)

\* The messages between rounds.
SkipMessage ==
    /\ Scanning
    /\ ~Misplaced(input[index])
    /\ ~HasToolCalls(input[index])
    /\ index' = index + 1
    /\ UNCHANGED <<input, declared, decisions, pc, observations, seen, cursor,
                   out, usedIDs, answer>>

RejectLayout ==
    /\ Scanning
    /\ \/ Misplaced(input[index])
       \/ HasToolCalls(input[index]) /\ ~RoundValid(input, index)
    /\ Answer("invalid round")

RejectDeclared ==
    /\ Scanning
    /\ ~Misplaced(input[index])
    /\ HasToolCalls(input[index])
    /\ RoundValid(input, index)
    /\ \/ /\ declared[input[index].id] \notin States \cup {"none"}
          /\ Answer("unknown state")
       \/ /\ declared[input[index].id] \in States
          /\ Conflict(input, index)
          /\ Answer("conflict")

\* A round is observed and the scan jumps behind its last tool message.
ObserveRound ==
    /\ Scanning
    /\ ~Misplaced(input[index])
    /\ HasToolCalls(input[index])
    /\ RoundValid(input, index)
    /\ declared[input[index].id] \in States \cup {"none"}
    /\ ~Conflict(input, index)
    /\ observations' = Append(observations, Observation(input, index))
    /\ seen' = seen \cup {input[index].id}
    /\ index' = ContiguousToolBlockEnd(input, index) + 1
    /\ UNCHANGED <<input, declared, decisions, pc, cursor, out, usedIDs, answer>>

\* Every declaration must have met its round.
EndScan ==
    /\ pc = "scan"
    /\ index > Len(input)
    /\ LET unmet == {id \in DOMAIN declared :
                       /\ declared[id] # "none"
                       /\ id = NoID \/ id \notin seen \/ declared[id] \notin States}
       IN  \/ unmet # {} /\ Answer("unknown state")
           \/ /\ unmet = {}
              /\ pc' = "decide"
              /\ UNCHANGED <<input, declared, decisions, index, observations,
                             seen, cursor, out, usedIDs, answer>>

Interrupted == {o \in Range(observations) : o.state = "interrupted"}

\* Defect: a decision for a round that was not interrupted is ignored.
DecisionsCover ==
    \A o \in Interrupted : o.id # NoID /\ o.id \in decisions

\* validateRepairDecisions: exactly the interrupted rounds have a decision.
DecisionsMatch ==
    /\ \A o \in Interrupted : o.id # NoID /\ o.id \in decisions
    /\ \A id \in decisions : \E o \in Interrupted : o.id = id

Decide ==
    /\ pc = "decide"
    /\ \/ ~DecisionsMatch /\ Answer("invalid repair")
       \/ /\ DecisionsMatch
          /\ pc' = "copy"
          /\ index' = 1
          /\ usedIDs' = {input[i].id : i \in DOMAIN input}
          /\ UNCHANGED <<input, declared, decisions, observations, seen, cursor,
                         out, answer>>

Copying == pc = "copy" /\ index <= Len(observations)

\* Defect: the cursor stays when there is nothing to repair.
CopyRoundCursorKept ==
    /\ Copying
    /\ observations[index].state # "interrupted"
    /\ out' = out \o SubSeq(input, cursor + 1, observations[index].end)
    /\ index' = index + 1
    /\ UNCHANGED <<input, declared, decisions, pc, observations, seen, cursor,
                   usedIDs, answer>>

\* A round that is not interrupted is copied with what precedes it.
CopyRound ==
    /\ Copying
    /\ observations[index].state # "interrupted"
    /\ out' = out \o SubSeq(input, cursor + 1, observations[index].end)
    /\ cursor' = observations[index].end
    /\ index' = index + 1
    /\ UNCHANGED <<input, declared, decisions, pc, observations, seen, usedIDs, answer>>

\* An interrupted round gets its synthetic results right behind it.
RepairRound ==
    /\ Copying
    /\ observations[index].state = "interrupted"
    /\ LET o == observations[index]
           synthetic == SyntheticMessage(input, o)
       IN  \/ /\ synthetic.id \in usedIDs
              /\ Answer("invalid repair")
           \/ /\ synthetic.id \notin usedIDs
              /\ usedIDs' = usedIDs \cup {synthetic.id}
              /\ out' = out \o SubSeq(input, cursor + 1, o.end) \o <<synthetic>>
              /\ cursor' = o.end
              /\ index' = index + 1
              /\ UNCHANGED <<input, declared, decisions, pc, observations, seen, answer>>

\* roundRepairContentRef fails for a message of the round.
CodecFails ==
    /\ Copying
    /\ observations[index].state = "interrupted"
    /\ Answer("codec")

Finish ==
    /\ pc = "copy"
    /\ index > Len(observations)
    /\ out' = out \o SubSeq(input, cursor + 1, Len(input))
    /\ cursor' = Len(input)
    /\ answer' = "repaired"
    /\ pc' = "done"
    /\ UNCHANGED <<input, declared, decisions, index, observations, seen, usedIDs>>

\* The context is looked at on entry, before each round and before returning.
Canceled ==
    /\ \/ pc = "scan" /\ index = 1
       \/ pc = "copy"
    /\ Answer("canceled")

Step == \/ SkipMessage \/ RejectLayout \/ RejectDeclared \/ ObserveRound
        \/ EndScan \/ Decide \/ CopyRound \/ RepairRound \/ Finish

Next == Step \/ CodecFails \/ Canceled

\* One goroutine computes without waiting for anyone.  Nothing makes the codec
\* fail or the context end.
Spec == Init /\ [][Next]_vars

-----------------------------------------------------------------------------
(* Properties *)

\* The single pass accepts exactly the histories that are made of whole,
\* well-formed rounds with distinct identities, and observes each of those
\* rounds in order.  A successful projection is such a history, with as many
\* rounds and every interrupted one complete in it; without the synthetic
\* messages it is the source, message by message: repair adds and never moves,
\* drops or changes anything.
RepairExact ==
    /\ answer = "invalid round" => ~LayoutValid(input)
    /\ pc \in {"decide", "copy"} \/ answer = "repaired" =>
         /\ LayoutValid(input)
         /\ {o.start : o \in Range(observations)} = Opens(input)
         /\ \A i \in 1..Len(observations) - 1 :
              observations[i].end < observations[i + 1].start
    /\ answer = "repaired" =>
         /\ LayoutValid(out)
         /\ \A s \in Opens(out) :
              LocalState(out, s) = "pending" =>
                  declared[out[s].id] \in {"none", "pending"}
         /\ Cardinality(Opens(out)) = Cardinality(Opens(input))
         /\ Kept(out, Range(out) \ {SyntheticMessage(input, o) : o \in Interrupted}) = input

\* Nothing is repaired without a decision of its own and no decision is left
\* without its repair: what the projection adds are the messages of the rounds
\* that decisions name.
DecisionsHonoured ==
    answer = "repaired" =>
        decisions = {input[s].id : s \in {s \in Opens(input) :
                        SyntheticMessage(input, Observation(input, s))
                            \in Range(out) \ Range(input)}}

=============================================================================
