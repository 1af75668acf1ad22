--------------------------- MODULE CheckpointData ---------------------------
(***************************************************************************)
(* What every ConversationStateStore shares: the calls made to it, their   *)
(* arguments, the revision arithmetic and the meaning of a batch.          *)
(*                                                                         *)
(* Conversations are independent keys, so one of them is modelled.  Its    *)
(* content is abstract: ApplyBatch stands for ApplyDeltas followed by      *)
(* ProjectCheckpoint and the codec, a function of the current content and  *)
(* the batch that either gives the next content or rejects the batch.      *)
(***************************************************************************)
EXTENDS Integers

CONSTANTS
    Calls,             \* identities of the calls made in a behaviour
    Contents,          \* checkpoint contents
    EmptyContent,      \* EmptyState
    Rejected,          \* a batch that a delta, projection or codec refuses
    Batches,           \* nonempty delta batches
    ApplyBatch(_, _),  \* content and batch to the next content or Rejected
    MaxVersion,        \* math.MaxInt64 in the code: the last revision
    Tokens             \* the revisions callers expect, stale and invented ones too

ASSUME EmptyContentAssumption == EmptyContent \in Contents
ASSUME RejectedAssumption == Rejected \notin Contents
ASSUME ApplyBatchAssumption ==
    \A c \in Contents, b \in Batches : ApplyBatch(c, b) \in Contents \cup {Rejected}
ASSUME MaxVersionAssumption == MaxVersion \in Nat \ {0}

Versions == 0..MaxVersion

ASSUME TokensAssumption == Tokens \subseteq Versions

LoadRequests == [op: {"load"}]
CommitRequests == [op: {"commit"}, expected: Tokens, batch: Batches]
ClearRequests == [op: {"clear"}, expected: Tokens]
Requests == LoadRequests \cup CommitRequests \cup ClearRequests
NoRequest == [op |-> "none"]

IsWrite(r) == r.op \in {"commit", "clear"}

\* The token of r is beyond the revision v: no load has returned it yet.
Invented(r, v) == IsWrite(r) /\ r.expected > v

\* NextConversationVersion refuses to advance the last revision.
Exhausted(v) == v = MaxVersion
NextConversationVersion(v) == v + 1

\* The content a write publishes over the content c.
Written(c, r) == IF r.op = "clear" THEN EmptyContent ELSE ApplyBatch(c, r.batch)

Snapshots == [version: Versions, content: Contents]
NoSnapshot == [version |-> -1]

=============================================================================
