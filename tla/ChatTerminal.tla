---------------------------- MODULE ChatTerminal ----------------------------
(***************************************************************************)
(* The reference chat host's turn over a ConversationStateStore            *)
(* (integration/chat/execution.go): CompileTurn loads a snapshot, the      *)
(* model answers, CommitTerminal appends turn and result by one            *)
(* compare-and-swap.  Several hosts work on one conversation, the same     *)
(* turn may have been delivered to two of them, a write whose answer was   *)
(* lost may take effect later, and every call may be retried.              *)
(*                                                                         *)
(* The store is the contract of CheckpointStore, reduced to the history    *)
(* and the system segment of one conversation.  Importing a response       *)
(* either refuses it or gives its content, and a content reference is the  *)
(* message it digests.                                                     *)
(***************************************************************************)
EXTENDS Integers, SequencesExt

CONSTANTS
    Hosts,        \* callers of CommitTerminal
    Turns,        \* IDs of user turns
    Bodies,       \* what a turn may say
    Responses,    \* native responses
    Stateful,     \* the responses that carry provider continuation state
    Incomplete,   \* not terminal, not completed, or asking for tools
    Systems,      \* contents of the system segment
    NoSystem,     \* the empty one
    MaxVersion,   \* bound on the store's revisions
    MaxAttempts   \* bound on the calls of one host for its turn

ASSUME ResponsesAssumption == Stateful \subseteq Responses /\ Incomplete \subseteq Responses
ASSUME SystemsAssumption == NoSystem \in Systems
ASSUME BoundsAssumption == MaxVersion \in Nat /\ MaxAttempts \in Nat

Jobs == [turn: Turns, body: Bodies, response: Responses]
NoJob == [turn |-> "none"]
Unbound == << >>

VARIABLES
    version, system, history,   \* the stored conversation
    late,       \* writes whose callers have given up and that may still land
    job,        \* the turn of each host and the response it got for it
    expected,   \* the revision each host passes to CommitTerminal
    pc,         \* how far each host's call is, or what the last one returned
    attempts,   \* how often each host has called
    snapshot,   \* what the running call loaded
    ledger,     \* history variable: every pair of turn and response appended
    landed      \* history variable: hosts whose pair has stood undisturbed since

stored == <<version, system, history>>
vars == <<stored, late, job, expected, pc, attempts, snapshot, ledger, landed>>

Returned == {"ok", "stale", "conflict", "failed", "refused"}

Current == [version |-> version, system |-> system, history |-> history]
NoSnapshot == [version |-> -1, system |-> NoSystem, history |-> << >>]

TurnID(t) == <<t, "turn">>
ResultID(t) == <<t, "result">>
NoteID == <<"note">>
Note == [id |-> NoteID, content |-> "note", prefix |-> Unbound]
TurnMessage(j) == [id |-> TurnID(j.turn), content |-> j.body, prefix |-> Unbound]

HasID(h, id) == \E i \in DOMAIN h : h[i].id = id
LastWithID(h, id) == h[SelectLastInSeq(h, LAMBDA m : m.id = id)]

Init ==
    /\ version = 0 /\ system = NoSystem /\ history = << >>
    /\ late = {}
    /\ job = [h \in Hosts |-> NoJob]
    /\ expected = [h \in Hosts |-> 0]
    /\ pc = [h \in Hosts |-> "idle"]
    /\ attempts = [h \in Hosts |-> 0]
    /\ snapshot = [h \in Hosts |-> NoSnapshot]
    /\ ledger = {} /\ landed = {}

Goto(h, l) == pc' = [pc EXCEPT ![h] = l]
Return(h, r) == Goto(h, r) /\ snapshot' = [snapshot EXCEPT ![h] = NoSnapshot]

\* CompileTurn refuses a turn that the loaded history already has.
CompileTurn(h) ==
    /\ pc[h] = "idle"
    /\ \E j \in Jobs :
        /\ ~HasID(history, TurnID(j.turn))
        /\ job' = [job EXCEPT ![h] = j]
    /\ expected' = [expected EXCEPT ![h] = version]
    /\ attempts' = [attempts EXCEPT ![h] = 1]
    /\ Goto(h, "validate")
    /\ UNCHANGED <<stored, late, snapshot, ledger, landed>>

\* The host calls again for the same turn and response, with the revision it
\* compiled against or after loading a newer one, whatever the last call said.
Retry(h) ==
    /\ pc[h] \in Returned
    /\ attempts[h] < MaxAttempts
    /\ attempts' = [attempts EXCEPT ![h] = @ + 1]
    /\ \E e \in {expected[h], version} : expected' = [expected EXCEPT ![h] = e]
    /\ Goto(h, "validate")
    /\ UNCHANGED <<stored, late, job, snapshot, ledger, landed>>

\* The checks before the store is touched, the imported response included.
Validate(h) ==
    /\ pc[h] = "validate"
    /\ Goto(h, IF job[h].response \in Incomplete THEN "refused" ELSE "load")
    /\ UNCHANGED <<stored, late, job, expected, attempts, snapshot, ledger, landed>>

\* LoadState returns revision and content of one instant.
Load(h) ==
    /\ pc[h] = "load"
    /\ snapshot' = [snapshot EXCEPT ![h] = Current]
    /\ Goto(h, "decide")
    /\ UNCHANGED <<stored, late, job, expected, attempts, ledger, landed>>

\* The context is done, or LoadState fails.
Fail(h) ==
    /\ pc[h] \in {"validate", "load"}
    /\ Goto(h, "failed")
    /\ UNCHANGED <<stored, late, job, expected, attempts, snapshot, ledger, landed>>

\* Defect: a turn that is already saved is not cut off the prefix.
WholePrefix(s, j) == <<s.system>> \o s.history \o <<TurnMessage(j)>>

\* What continuation state is bound to: the system segment, the history up to
\* the turn, and the turn itself.
BindTerminalState(s, j) ==
    LET before == IF HasID(s.history, TurnID(j.turn))
                    THEN SubSeq(s.history, 1,
                           SelectInSeq(s.history, LAMBDA m : m.id = TurnID(j.turn)) - 1)
                    ELSE s.history
    IN <<s.system>> \o before \o <<TurnMessage(j)>>

ResultMessage(s, j) ==
    [id |-> ResultID(j.turn), content |-> j.response,
     prefix |-> IF j.response \in Stateful THEN BindTerminalState(s, j) ELSE Unbound]

\* The snapshot already has this very turn with this very result.
AlreadySaved(s, j) ==
    /\ HasID(s.history, TurnID(j.turn))
    /\ HasID(s.history, ResultID(j.turn))
    /\ LastWithID(s.history, TurnID(j.turn)) = TurnMessage(j)
    /\ LastWithID(s.history, ResultID(j.turn)) = ResultMessage(s, j)

\* Defect: the history is not searched, only the revision is compared.
DecideByRevision(h) ==
    /\ pc[h] = "decide"
    /\ \/ snapshot[h].version # expected[h] /\ Return(h, "conflict")
       \/ snapshot[h].version = expected[h] /\ Goto(h, "commit") /\ UNCHANGED snapshot
    /\ UNCHANGED <<stored, late, job, expected, attempts, ledger, landed>>

\* A saved turn or result ends the call, before the revision is even compared.
Decide(h) ==
    LET s == snapshot[h]
        saved == \E id \in {TurnID(job[h].turn), ResultID(job[h].turn)} : HasID(s.history, id)
    IN  /\ pc[h] = "decide"
        /\ \/ saved /\ AlreadySaved(s, job[h]) /\ Return(h, "ok")
           \/ saved /\ ~AlreadySaved(s, job[h]) /\ Return(h, "stale")
           \/ ~saved /\ s.version # expected[h] /\ Return(h, "conflict")
           \/ ~saved /\ s.version = expected[h] /\ Goto(h, "commit") /\ UNCHANGED snapshot
        /\ UNCHANGED <<stored, late, job, expected, attempts, ledger, landed>>

Write(h) ==
    [host |-> h, expected |-> expected[h], job |-> job[h],
     messages |-> <<TurnMessage(job[h]), ResultMessage(snapshot[h], job[h])>>]

AppendMessages(w, h) ==
    /\ version' = version + 1
    /\ history' = h \o w.messages
    /\ ledger' = ledger \cup {w.job}
    /\ landed' = landed \cup {w.host}
    /\ UNCHANGED system

\* Defect: the store appends without comparing the revision.
SwapUnchecked(w) == version < MaxVersion /\ AppendMessages(w, history)

\* CommitState takes effect: one delta, under the expected revision only.
Swap(w) == w.expected = version /\ version < MaxVersion /\ AppendMessages(w, history)

CommitOk(h) ==
    /\ pc[h] = "commit"
    /\ Swap(Write(h))
    /\ Return(h, "ok")
    /\ UNCHANGED <<late, job, expected, attempts>>

CommitConflict(h) ==
    /\ pc[h] = "commit"
    /\ version # expected[h]
    /\ Return(h, "conflict")
    /\ UNCHANGED <<stored, late, job, expected, attempts, ledger, landed>>

\* CommitState fails and leaves open whether its write takes effect later.
CommitUnknown(h) ==
    /\ pc[h] = "commit"
    /\ late' = late \cup {Write(h)}
    /\ Return(h, "failed")
    /\ UNCHANGED <<stored, job, expected, attempts, ledger, landed>>

LateWrite(w) ==
    /\ w \in late
    /\ Swap(w)
    /\ late' = late \ {w}
    /\ UNCHANGED <<job, expected, pc, attempts, snapshot>>

\* Another writer of the conversation commits.  A change of what stands before
\* or at a recorded turn disturbs the record.
OtherWrites(sys, hist, undisturbed) ==
    /\ version < MaxVersion
    /\ version' = version + 1
    /\ system' = sys /\ history' = hist
    /\ landed' = undisturbed
    /\ UNCHANGED <<late, job, expected, pc, attempts, snapshot, ledger>>

OtherAppends == OtherWrites(system, Append(history, Note), landed)
OtherClears == OtherWrites(NoSystem, << >>, {})
OtherSetsSystem == \E s \in Systems \ {system} : OtherWrites(s, history, {})
OtherRemoves == \E i \in DOMAIN history : OtherWrites(system, RemoveAt(history, i), {})

Host(h) ==
    \/ CompileTurn(h) \/ Retry(h)
    \/ Validate(h) \/ Load(h) \/ Fail(h) \/ Decide(h)
    \/ CommitOk(h) \/ CommitConflict(h) \/ CommitUnknown(h)

Other == OtherAppends \/ OtherClears \/ OtherSetsSystem \/ OtherRemoves

Next == (\E h \in Hosts : Host(h)) \/ (\E w \in late : LateWrite(w)) \/ Other

Spec == Init /\ [][Next]_vars

-----------------------------------------------------------------------------
(* Properties *)

\* "Stable turn/result IDs make successful retries idempotent": however often
\* and by however many hosts a turn is committed, with lost answers and writes
\* that land late, the history has its turn and its result at most once, and a
\* call that succeeded has its own turn with its own response recorded: a host
\* is never told that another host's answer to the turn was its own.
RecordedOnce ==
    /\ \A i, k \in DOMAIN history :
         history[i].id = history[k].id /\ history[i].id # NoteID => i = k
    /\ \A h \in Hosts : pc[h] = "ok" => job[h] \in ledger

\* A host whose pair took effect and has stood since is never told that its
\* execution is stale, also when it did not learn of the success.
RetryRecognised == \A h \in landed : pc[h] # "stale"

\* "Bind terminal state to the actual committed prefix": when a result with
\* continuation state is stored, its binding names the system segment and the
\* history stored before it, though both were loaded by an earlier call.
BoundToCommittedPrefix ==
    [][\A j \in ledger' :
         LET n == Len(history')
         IN  Len(history') = Len(history) + 2 /\ history'[n].id = ResultID(j.turn)
               /\ history'[n].prefix # Unbound
             => history'[n].prefix = <<system>> \o SubSeq(history', 1, n - 1)]_vars

=============================================================================
