# Verification of contexty

contexty assembles the context of a language-model call from conversation
state: it keeps conversations and large payloads in stores shared by many
callers, turns a snapshot of them into payloads that fit a token budget, and
records how, so that the result can be explained and replayed. This directory
holds TLA+ models of that code, TLC configurations that check them on small
instances, and TLAPS proofs that hold for every instance.

`PROJECT.json` is the index: components, runs, the source lines behind every
definition, the hazards each property is aimed at, the defect that makes each
property fail, and the theorems. Paths below are relative to `src/`.

## 1. The system

### Parts with shared state

| part | source | state it keeps | operations | hard behaviour |
|---|---|---|---|---|
| blob store | `adapters/blob/memory` | objects, claims, checkpoints, deleted sources, object counter under one mutex | Put, Retain, CommitCheckpoint, ReleaseCheckpoint, RetireSource, Collect, ReconcileCleanup, Get, CheckBlob | the application's Authorize runs outside the mutex; claims, retirement and deletion race; contexts end after the effect |
| blob helpers | `blob.go` | none | PutBlob, ResolveBlob | a write may succeed for a caller that already gave up |
| checkpoint contract | `conversation_delta.go`, `docs/checkpoint-store.md` | revision and content per conversation | LoadState, CommitState, ClearState | optimistic concurrency, unknown outcomes, expiry |
| memory store | `conversation.go` | map under an RWMutex | the same three | cancellation around a lock held across codec callbacks |
| Redis store | `adapters/store/redis` | a revision key and an expiring payload key | the same three, as Lua scripts | two scripts per commit; late, repeated, unanswered scripts; expiry in between |
| Postgres store | `adapters/store/postgres` | one row per conversation | the same three, as transactions | first-writer race on a missing row; COMMIT with unknown outcome |
| chat host | `integration/chat/execution.go` | none of its own; a snapshot held across a model call | CompileTurn, CommitTerminal | retries, lost answers, one turn delivered twice, stale prefix |

### Parts that work on one value

These keep no state between calls, but they are long sequences of stages with
host code between the stages, and several of them hold what one stage learned
for use by a later one.

| part | source | what it does | hard behaviour |
|---|---|---|---|
| tool rounds | `round_state.go`, `round_repair.go` | history to rounds; history and decisions to repaired history | one-pass scan with index jumps; copy cursor; declarations keyed by identity |
| budget pipeline | `budget_*.go`, `strategies.go`, `rolling_summary.go` | messages, limit and policy to messages that fit, or an error | loops over a shrinking candidate; estimators that are not additive; required, fixed and open messages; host callbacks |
| preparation | `compile.go`, `compile_options.go`, `resource_*.go`, `materialization.go` | request and stored state to one prepared snapshot | which errors come before host code runs; resources that replace, extend or refuse each other's artifacts; identities written back by position |
| outputs | `compile.go`, `compile_target.go`, `output_boundary.go`, `selection.go`, `opaque_state*.go` | prepared snapshot to the main payload and the targets | the order of selection, replacements, hooks, budget, formatters and policy, each of which can undo what an earlier one established |
| persistence | `transform_record.go`, `persistence_*.go` | records of what stages did to the state the host stores | records of one message from several stages; originals against what the prompt showed |
| deltas and artifacts | `conversation_delta.go`, `artifact.go` | state and batch to state | removal that splits rounds; merge by identity and by origin |
| offload | `blob_offload.go`, `blob_projection.go`, `blob_artifact.go` | payloads to blobs with previews | the write precedes the commit; a store may fail after writing; references merged or renamed later |
| lineage, records, replay | `lineage*.go`, `manifest*.go`, `record_capture.go`, `saved_record.go`, `replay.go` | an account of a compilation, its storage, and the same result again | an account written stage by stage must agree with what the stages did; contents that must not be kept; storage that lost or altered parts |

Interaction: a host loads a checkpoint, the engine prepares it once and makes
every output from the prepared snapshot, and derives from the transformation
records the state to be stored. The host commits it, or the terminal answer of a
chat turn, through the checkpoint store. Blobs are written before the
checkpoint that names them and claimed when it is committed; the two stores
share no transaction. Round inspection is used by the budget, by selection and
by deltas. Apart from the stores and two registries everything works on private
copies, so interleaving only matters around the stores; everywhere else the
adversary is host code, the caller's context, and storage.

## 2. Modules

| module | models | checked by |
|---|---|---|
| `BlobRetention` | the memory blob store and PutBlob | `MCBlobRetention`; proved in `BlobRetentionProofs` |
| `CheckpointData` | requests, revisions and the meaning of a batch, shared by all stores | through the stores |
| `CheckpointStore` | the abstract contract | `MCCheckpointStore`; proved in `CheckpointStoreProofs` |
| `MemoryStore`, `RedisStore`, `PostgresStore` | the three implementations | `MC...`; each has `Implements == Checkpoint!Spec`, proved in `CheckpointStoreProofs` for the memory store, in `SharedStoreProofs` for the two servers |
| `ChatTerminal` | CommitTerminal over the contract | `MCChatTerminal`; proved in `ChatTerminalProofs` |
| `ToolRounds` | what a tool round is, as operators | used by all below but `Lineage` |
| `RoundRepair` | InspectToolRoundStates and RepairInterruptedToolRounds | `MCRoundRepair`; proved in `RoundRepairProofs` |
| `BudgetPipeline` | Pipeline.ApplyWithLimit with every built-in strategy | `MCBudgetPipeline`; budget, required messages and termination proved in `BudgetPipelineProofs` |
| `CompileData` | messages, segments, references, artifacts and their merging | used by the next seven |
| `CompilePrepare` | a request up to the prepared snapshot | `MCCompilePrepare`; proved in `CheckpointTurnProofs` |
| `Selection`, `OpaqueState`, `Persistence` | operators of three stages | through `CompileOutput`, `CheckpointTurn` |
| `CompileOutput` | the outputs made of a prepared snapshot and the state to be stored | `MCCompileOutput` |
| `ConversationDelta` | ApplyDelta and the checkpoint projection | through `CheckpointTurn` |
| `CheckpointTurn` | offload, commits and reads between compilations | `MCCheckpointTurn`; proved in `CheckpointTurnProofs` |
| `Lineage` | lineage graph, trace and coverage ledger | through `CompileRecord` |
| `CompileRecord` | a compilation as its record sees it, the record's life and replay | `MCCompileRecord`; policy and replay proved in `CompileRecordProofs` |
| `MCHistories` | concrete contents and batches for the store runs | |

```
CheckpointData - CheckpointStore  <= MemoryStore, RedisStore, PostgresStore
                                     ChatTerminal
ToolRounds - RoundRepair
           - BudgetPipeline
           - CompileData - CompilePrepare
                         - Selection
                         - OpaqueState - Persistence - CompileOutput (with Selection)
                                                     - ConversationDelta - CheckpointTurn
Lineage - CompileRecord
```

`Defect` operators, each before the definition it alters, are bugs a developer
could plausibly introduce at that place; with any one of them substituted, the
property it belongs to fails. They take no part in the specifications.

### BlobRetention

A method call is a process with a stage. `Invoke` validates arguments,
`ReadCheckpoint` is ReleaseCheckpoint's first look under the mutex,
`AuthorizeClaims` the snapshot of bound objects handed to the application
without the mutex, the `...Locked` actions are one critical section each, and
`PutReturns` is PutBlob judging the receipt. `Cancel` ends the context at any
moment. Objects are numbers (the code's incarnation plus sequence), content is
its size. Get and CheckBlob change nothing and appear as functions in
`ReceiptStaysGood`.

### The checkpoint stores

A call is used once and has arguments, a status for its caller and an effect on
the store. In `CheckpointStore` a write may take effect after its caller was
told of a failure, at most once and only while its expected revision is
current. A conflict may be reported only for a token that is not current, or
was invented: a caller may pass a revision no load has returned, and by the
time it is compared that revision may exist. The implementations split calls
where others can interfere:

- `MemoryStore`: context check, acquisition of the lock with its second check,
  computation, the last check, publication, return. The context may end between
  the last check and the publication, which then takes place all the same and is
  reported as a success.
- `RedisStore`: scripts in flight are a set; the server runs one atomically,
  possibly after its sender gave up and possibly again. The client's commit is
  load script, computation, write script. Payload expiry is a server step.
- `PostgresStore`: statements of a transaction; `FOR UPDATE` locks an existing
  row only, so two first writers are ordered by the unique index. A lost
  connection before COMMIT aborts; during COMMIT the server decides later.

The refinement mapping is the same for all: status from the program counter,
effect from what was published or observed. `MemoryStore` has names of its own
for what it shares with the contract (`entryVersion`, `entryContent`, `args`,
`loaded`, `unissued`), so that one module can be about both. In `RedisStore` the abstract
revision counts an expired payload as the tombstone the next script will write.

### ChatTerminal

The store is the contract, reduced to the history and system segment of one
conversation. `CompileTurn` refuses a known turn and fixes the expected
revision; `Validate`, `Load`, `Decide` and the `Commit...` actions are
CommitTerminal. `CommitUnknown` leaves a write that may land later
(`LateWrite`). Other writers append, clear, edit the system segment and remove
messages. A content reference is the message itself.

### ToolRounds, RoundRepair, BudgetPipeline

Messages are records of identity, role, call and result identities (and a
token count for the budget). `RoundRepair` takes one step per loop iteration
of the scan and of the copy; `LayoutValid` and `Opens` are the declarative
definitions the scan is compared with. `BudgetPipeline` takes one step per
stage of ApplyWithLimit and one per iteration of an eviction loop, and counts
its steps. Estimators are additive or host-defined and not additive; host
strategies and summarizers return anything of a set that includes foreign,
duplicated and reordered messages. A failing callback or an ended context is
the action `Interrupted`.

### CompilePrepare

One action per stage of Compile and CompileSnapshot: `CheckConfiguration`,
`LoadSnapshot`, `Recheck` of what was loaded, `Normalize` (identities, and the
positions of those to be written back), one `SelectArtifact` per artifact of
the request, `AddArtifactMessages`, then for each deferred block `ResolveBlock`,
one `AdmitResource` per resource and `FinishBlock`. `calls` remembers the host
code that ran, in order. The engine, the request, what the store holds and what
a resolver returns come from sets; a resolver may return what it was not asked
for, or two representations of one selection.

### Selection, OpaqueState, Persistence, CompileOutput

An output is a channel: the main payload, then each target. `StartTarget`
scopes the prepared snapshot; `SelectOutput`, `PatchBeforeBudget`, `Transform`
(hooks, role projection, formatters), `ApplyBudgetHistory`, `PatchAfterBudget`,
`FormatTarget`, `ApplyOutputPolicy`, `CheckOpaqueInventory`, one
`DropInvalidStates` per round of the loop, `AcceptOutput` follow in the order of
the code. `Selection` has candidates, the admission of a plan under a budget and
what must survive; `OpaqueState` the binding of a provider's state to messages
and prefixes; `Persistence` the fold of transformation records and the stored
state derived from them. The budget step is any result that `BudgetPipeline`
allows for one call with an additive estimator: the two are composed by what
`FitsLimit`, `RequiredKept` and `RoundsWhole` establish, not by a shared state.
`gone` and `needed` are history variables.

### ConversationDelta, CheckpointTurn

`ConversationDelta` has every operation of ApplyDelta, the wire form as far as
it changes what a batch does (an empty list of identities is not written), and
the projection to a checkpoint. `CheckpointTurn` is one host: `ProjectArtifact`
and `ProjectHistoricalArguments` begin an offload, `SelectBlob`, `PutBlob` and
`Build` are the callbacks of policy, store and preview, each of which may fail
or be cut short after it took effect; `CommitState` applies a batch, which may
edit, rename or append to what was offloaded; `Resolve` reads back from a store
that may return something else. Concurrent commits are the matter of
`CheckpointStore`.

### Lineage, CompileRecord

`CompileRecord` runs a whole compilation again, with only what its account is
about: each entry of a snapshot carries, besides its content, the inputs it was
really made of (`from`), which the code does not know. Beside it the model keeps
what the code writes: the trace, with occurrences told apart by the invocation
that produced them, and the captured contents. `FinalizeCompileRecording` makes
ledger, manifest and proposed record of them, `Accept` and `Supersede` are the states of a saved record, `Damage` is
storage losing or altering parts of it, `DeleteBlob` a blob going, `Replay` the
decoding of a record against the host's expectation. Hosts that name what they
made messages of and hosts that do not are both in; for the latter the model
attributes a message to the inputs with its identity, as the code does.

## 3. Runs

| run | checks | instance |
|---|---|---|
| `blob_retention` | claims protect objects; no derivative outlives its source; no write is forgotten; identities and retirement are never undone; claim changes are authorised | 2 goroutines, 2 references, 2 checkpoints, 1 source, 2 objects |
| `checkpoint_contract` | one winner per token; a revision names a content | 3 calls, 4 batches, 2 revisions |
| `memory_store` | refinement of the contract; a success is a revision and an error leaves no trace | 3 calls, 4 batches, 2 revisions |
| `redis_store` | refinement, and with it that revision and payload stay together | 2 calls, 2 revisions, with and without TTL |
| `postgres_store` | refinement; only COMMIT leaves an outcome open; every call that is made returns | 3 calls, 2 batches, 2 revisions |
| `chat_terminal` | a turn is recorded once, as its own host committed it; a retry is recognised; state is bound to what was committed | 2 hosts, 2 turns, 3 responses, 3 revisions, 2 attempts |
| `round_repair` | the scan is exact and repair completes what it should and nothing else; decisions are followed | all histories of up to 4 messages, and malformed ones |
| `budget_pipeline` | results fit, keep what is required and whole rounds, lose nothing without need; every call returns within a number of steps linear in its input | all inputs of up to 3 blocks, up to 9 messages, 4 limits, all strategies and summarizers |
| `compile_prepare` | artifact messages are those of the active artifacts; configuration errors come before host code; identities are written back where their messages stand | up to 2 request artifacts of 5, 3 resources in 2 deferred blocks; mixtures of named and unnamed messages; stored and empty conversations |
| `compile_output` | payload within budget; pending messages close the history; opaque states have their context; rounds whole; targets in scope; originals stored | 8 engines, 12 prepared conversations of up to 6 messages, one target of 5 kinds, every selection plan, 6 hooks, 3 formatters, 4 policies |
| `checkpoint_turn` | rounds survive removals; replacement by origin is complete; offloads are reported; blobs stand for the originals | 3 commits of 1 or 2 deltas, 1 stored object, payloads at, below and above both limits |
| `compile_record` | the ledger says what became of every input; denied contents are not saved; records suffice for replay; replay is faithful | conversations of 2 or 3 messages and one artifact; one output and up to 2 targets; one or two pieces of host code; one harm by storage |

Why these bounds are enough to be interesting: two goroutines in the blob store
are a caller between two critical sections and one that interferes, and two
objects with two references allow rebinding and overlapping sets. Three calls on
two revisions are two writers on one token and a load, with the revision at its
maximum. In `chat_terminal` three revisions hold a landed turn, a concurrent
write and a disturbance of it. Four messages give a whole round before or
behind an interrupted one. Three blocks give an evicted, a required and an open
unit in every order. In `compile_prepare` two resources of one block and one of
another meet on one artifact or one origin under every merge policy. In
`compile_output` each stage that can undo the work of an earlier one is there
with a result that would: a hook that puts messages behind the pending turn, a
replacement and a policy that lengthen a message after the budget, opaque states
that depend on one another, a selection inside a round. In `checkpoint_turn` a
batch of two deltas can take a round apart, merge an artifact with one that
replaces its origin, or rename what was offloaded. In `compile_record` a message
goes through a rewrite, a summary and a later removal, and a denial may come at
any of its appearances.

Symmetry is used only over identities that no operator orders, and never in a
run with a liveness property. `postgres_store` has two batches for the sake of
its liveness check: content plays no part in who waits for whom, and the
other stores run all four.

Deadlock is checked in `blob_retention`, where goroutines call for ever, and in
`compile_prepare` and `compile_output`, whose last action is a step of its own.
The other models end when all calls have returned, the last revision is
reached or the host stops, so their cfgs switch it off.

## 4. Fairness

- `PostgresStore`: `FairSpec` has weak fairness of client and server steps and
  strong fairness of the row lock, whose waiters PostgreSQL queues. No call is
  owed a start. Without a statement timeout in the code, `CallsReturn` rests on
  the server noticing a lost session.
- `BudgetPipeline` needs none: `Returns`, under `FixedCallsLast`, bounds the number of steps by the
  length of the input, as an invariant, so no callback and no loop is assumed to
  be fair. Host callbacks are single steps, that is, assumed to return.
- No liveness is claimed for the memory store, whose methods unlock by `defer`,
  nor for Redis, where a script may stay unanswered. The stages of a
  compilation follow one another without loops, save that of
  `DropInvalidStates`, which takes a state out each time.

## 5. Proofs

A proof module extends the module it is about, or two that share their operators
(`CheckpointTurn` and `CompilePrepare`). Each has one inductive invariant `Inv`
(the budget has three more on top of it, preparation has three of its own), lemmas about what the operators
return, one lemma per action with one step per conjunct that the action can
disturb, and theorems at the end. The theorems hold for every value of the
constants that satisfies the named assumptions of the modules.

**Stores.** `CheckpointStoreProofs`: `OneWinnerPerToken`, `LoadsAgree`,
`RevisionAdvances` and type correctness of the contract. Neither invariant is
inductive; `EffectsOfCallsMade` says that a published write expected a revision
below the current one and that a load observed one not above it. Then a
publication, which advances the revision, can neither share its token with an
earlier one nor give an observed revision a second content.

The three refinements, `Spec => Implements`, are proved from an invariant of the
implementation: the initial states map to initial states, and each step to one
of the contract or to a stutter. What makes a publication the contract's one
write of its token differs:

- the memory store, in `CheckpointStoreProofs`: `WriterAlone` and `PreparedFromCurrent`. The holder of
  the lock computes from the entry under the lock, and nobody else moves it.
  `AnswersMatchRevisions`, inductive together with these: a publication leaves
  behind a revision that no earlier success expected, and what follows it returns
  success. The contract lets a failed call take effect; this store's errors are
  definite.
- Postgres, in `SharedStoreProofs`: `LoadedExpected`, `ComputedFromLoaded` and
  `HeldRowCurrent`. A transaction that found a row, or has inserted one, holds it,
  and the row is what it has read; a transaction that found none learns from the
  unique index. What a COMMIT that was never answered will write is therefore
  still computed from the current row. `EarlyErrorsDefinite` uses the same facts.
- Redis, in `SharedStoreProofs` through `INSTANCE RedisStore`: `KeysConsistent`, `BaseOfRevision` and `ScriptFromBase`.
  A snapshot that was loaded is the store's as long as the abstract revision is
  the loaded one, expiry of the payload advances the abstract revision, and a
  write script carries its batch applied to what was loaded at its token. A
  script that runs late or again finds its token passed.

**Blob store.** `BlobRetentionProofs`: type correctness, `ActiveClaimKeepsObject`,
`CheckpointOwnsItsClaims`, `NoLiveDerivativeOfDeletedSource`,
`EveryWriteReported` and `ReceiptStaysGood`. The invariant adds
`CallsWellFormed` (the stage of a call agrees with its request),
`ObjectsNumbered` (numbers beyond the counter are unused, so a Put never
overwrites) and `ReceiptsBound` (a receipt's claim is active exactly for the
described object). The action property `NothingUndone` has one lemma per
critical section. `ClaimChangesAuthorized` is about two critical sections with
the application's Authorize between them and needs a second invariant,
`GrantsCover`: a call holds a grant for the present object of every claim it will
act on. That it survives the steps of other goroutines is `NothingUndone`:
claims do not change their object nor checkpoints their set.

**Chat turns.** `ChatTerminalProofs`: `RecordedOnce`, `RetryRecognised` and
`BoundToCommittedPrefix`. The invariant follows a write wherever it may be. A
snapshot is the stored conversation while its revision is current
(`SnapshotOfRevision`); a host commits only from a snapshot of the expected
revision that lacks its turn (`CommitReady`); a write given up by its caller fits
the store while its token is current (`LateOK`); and a pair that has landed
stands until somebody disturbs it (`LandedStands`). Identities are then unique
because no write with a current token can find its turn there.

**Budget.** `BudgetPipelineProofs`, for inputs of any length. `Inv` carries the
measurements from stage to stage and gives `FitsLimit`: what is returned was
measured as a whole. `Plan`, inductive together with `Inv`, says at each stage
which positions of the input are required and that a candidate is a sequence of
positions in the order of the input, that contains the required ones or is kept
apart from them; with the lemmas on what `Kept`, `Merged` and the
removal of a unit return it gives `RequiredKept`. `Paced`, inductive together
with both, bounds the steps made at a stage; in an eviction loop by the messages
already taken away. That each turn takes one away is plain for drop-head, whose
unit starts at an optional message. Drop-tail looks back for the call of a tool
result, and under `FixedCallsLast` the unit it finds still contains an optional
message (`TailUnitRemoves`, `UnitRemoves`). So `EvictionEnds` has that
hypothesis, which the instance of `budget_pipeline` satisfies; section 6 says
what happens without it.

`Due`, inductive together with `Inv` and `Plan`, gives `EvictionNeeded`, the
theorem of `NoNeedlessLoss`. At each stage of the strategies that evict whole
units it says why a refusal would be due (what is over the limit is exactly what
is required) and that what is left of the optional messages is a tail of them, in
front of which nothing is gone without need (`FrontGone`): when the loop takes a
unit, it has just measured that the tail from there on does not fit, and the
other messages of a unit are tool results (`UnitGone`). The loop measures the
optional part against an allowance and the promise is about the whole; the two
agree where the code takes that path, because an additive estimator adds up over
any two disjoint parts (`WeightSplits`, `PartsAddUp`). Last, mergeRequired puts
equal messages without an identity back to the first of their places, which need
not be the places they came from: as many of each are taken, so the result weighs
what was measured (`TakenWeight`, by counting in `LowestCount` and
`SameWeight`).

**Rounds and repair.** `RoundRepairProofs`: type correctness, `RepairExact` and
`DecisionsHonoured`, for histories of any length. The scan and the copy are
loops with index jumps, and what they return is compared with definitions that
mention no index (`LayoutValid`, `Opens`, `Elements`), so the invariant must say
what each loop has done so far. `ScannedTo`: the positions below the index of
the scan are exactly those of the rounds observed, in their order, or of messages
that open no round and answer none; every jump lands behind the last result of a
round. `CopiedTo`: there is a placement of the messages copied so far in the
output, strictly increasing, with a synthetic message right behind each
interrupted round that was to be completed, and nothing else. The synthetic
message is never one of the input, because its identity is chosen outside those
in use, so the output without it is a prefix of the input. A decision belongs to
a round by the identity of its first message; two rounds with one such
identity are the same round, for the input was found free of duplicates
before the copy starts.

**Between two compilations.** `CheckpointTurnProofs`: `OffloadsReported`,
`BlobsStandForOriginals`, `ReplacedByOriginGone` and `RoundsSurvive`. `ObjectsKnown` says that the
host knows of every object but the one that the call in progress has just
stored, `CallOK` that this one's descriptor is that of its payload, and
`ArtifactsOK` that a reference in the state is bound to what was stored under it.
A commit folds a batch of any length: `PathOf` names the states on the way, and
an induction along it shows that each delta keeps `ArtifactsOK` and that what a
delta replaces by origin does not come back.

For `RoundsSurvive` the same induction carries every complete round along the
histories on the way. `RoundMoved` says that a round stays complete wherever its
messages stand together and no other result follows them. A removal keeps the
other messages in their order (`StayingPlaced`), so a round that stays whole
stays together; and the message behind it is no result, because with no stray
results it would belong to a round, which goes or stays as a whole, call
included (`RemovalStep`). The proof attempt showed that the property was first
stated too strongly: a batch may take a round and then append its call again as a
message of its own. It now says that all of a round that does not stay is gone
at one of the states on the way, and the run has such a batch.

**Preparation.** `CheckpointTurnProofs`, second half: `ArtifactMessagesMatchActive`,
`ConfigurationBeforeCallbacks` and `WritebacksLocate`, for requests, stored
conversations, engines and resolutions of any size. Between two blocks,
`ArtifactMessagesMatchActive` is `Shows`: no artifact identity occurs twice among
the snapshot's messages, each of them is the message of the active revision of
its artifact, and no active artifact is missing. While a block is in progress this is
false, because a resource that replaces an active artifact changes `rs.active` at
once, and the message of what it replaced leaves only when the block is finished.
`InProgress` says what is true instead: outside the identities that were replaced,
snapshot and block together show what is active; the message of an artifact whose
identity was replaced is the last of its identity in the block. Every way a
resource may be admitted is one relation between the active artifacts before and
after (`Admits`), so replacing, extending and refusing need one proof that
`InProgress` stays (`AdmittedInProgress`); finishing the block then removes
precisely the losers. What merging by origin, by layer or by template leaves are
lemmas about what `Kept` returns.

The hypothesis of the theorem, `HostIDsApart`, and `IdentitiesAssumption` of the
module are about identities: hosts and their identity policy leave the prefix
`artifact:` to the library. The code tells the message of an artifact by its
identity alone (resource_compile.go:134, compile_target.go:552) and does not
look whether a host used such an identity, except among the messages of a resolved
block (`HostMessagesDistinct`). `HostIDsApart` quantifies over every index a
message may have, so it is stated with the theorem.

`ConfigInv` follows the checks: before the store is read nothing was called, and
behind the second check the policy is there or the request has no artifacts. For
`WritebacksLocate`, `Places` is shown to be the four segments, then the pending
messages, then the current turn (`PlacesAre`), and normalising to keep the places
(`NormalizeLocates`).

**Records and replay.** `CompileRecordProofs`: type correctness,
`DeniedNeverSaved` and `ReplayFaithful`. Both are about a record that was
accepted, superseded, damaged and decoded again, long after the stages that made
it. `Agrees` ties the manifest the host expects to what was compiled: for every
output it lists references that name the output's messages and artifacts in
order. `SavedIs` says that a record that can be replayed has this manifest and
decoded, for each reference, exactly one content, whose digest is that of the
reference; a content that storage altered has another digest. Of the capture
only `PolicyKept` matters: it holds of nothing captured, and every list of
contents that is offered to the policy keeps it, so whatever the record takes
from the capture was admitted. A replay that succeeds then returns what the
compilation returned. The theorems have one hypothesis, `NoneIsNoReference`: the
value that stands for "no reference" is not one of the references. It quantifies
over everything an identity, a digest and an occurrence may be, so it is stated
with the theorems and not as an assumption of the module, which TLC would have to
evaluate.

`TypeOK`, `CheckpointOwnsItsClaims`, `ReceiptStaysGood` and `RevisionAdvances`
are proved and are in no run: a proof for every instance makes the small one
superfluous.

The assumptions say what the code or its callers guarantee. `CheckpointData`:
the empty content is a content, a refused batch is not, applying a batch gives
either, tokens are revisions. `BlobRetention`, `ChatTerminal`: limits are
naturals, kinds of responses are kinds of responses. `RedisStore`: a store has a
mode. `BudgetPipeline`: configurations are valid (`ConfigsAssumption`, by
validateBudgetPolicy); inputs are sequences of messages with natural counts; a
host's estimator gives naturals (a negative one is an error in the code) and a
host's strategy returns messages, any messages. `CheckpointTurn`: artifacts have
the fields of artifacts, the messages of a delta are sequences, and the artifacts
in a host's batch carry no blob that the host was not given. `RoundRepair`:
histories and the calls of a message are sequences (`HistoriesAssumption`).
`CompileRecord`: the artifacts and the targets of a request are sequences, and
its targets are of the kind target (`RequestsAssumption`). `CompilePrepare`:
requests, stored conversations, blocks and resolutions have the form of their types
(`InputsAssumption`), and no message a host hands in has the identity of an
artifact's message (`IdentitiesAssumption`, see above). TLC evaluates all of them on the instances of section 3.

Only model-checked:

- `RoundsWhole` of the budget: it compares the rounds of a result with those of
  the input, and would need the removal of a unit followed through the layout of
  every candidate on the way. It is also not true of every host: where nothing
  is required, the code hands on what a host's strategy returns as it is, so
  the theorem would be about hosts that return whole rounds.
- outputs: `PayloadWithinBudget`, `PendingClosesHistory`, `OpaqueStatesValid`,
  `RoundsKeptWhole`, `TargetScope` and `PersistsOriginals`. They speak of what several folds over artifacts,
  messages and transformation records compute one after the other.
- `CoverageExact` and `RecordSuffices` of the records: reachability in the
  lineage graph, which is a fold over all its edges.
- liveness (`CallsReturn`) and anything about ENABLED, which TLAPS does not
  cover.

The library's induction rules have an operator as a parameter, which the provers
cannot instantiate. Where an induction over the length of a sequence was needed,
it is over a set of naturals instead (`NatSetInduction`, from the
well-foundedness of `<`).

## 6. What the checks show, and what to know

All properties hold. Writing the models turned up behaviour that a reader of
the code may want to know; none of it contradicts what the repository says of
itself, and where a property excludes it, the property says so.

Rounds and budget:

- A tool message of a fixed segment directly behind an evictable complete round
  is inspected as part of that round once the messages are flattened. Eviction
  can then end in an invalid-round error although whole rounds were removed;
  `RoundsWhole` therefore asks for a history that is well formed as it stands.
- When fixed messages are budgeted with the history, no summarizer is set, the
  strategy is drop-tail and the estimator is the host's, complete candidates are
  shortened unit by unit (`evictCompleteCandidate`,
  `budget_candidate.go:39`). If a fixed assistant message with tool calls stands
  right in front of the history, so that the results of the first round behind
  it are taken for part of its block, the loop can come to a unit of which only
  required messages are left; nothing is removed, and the loop goes round until
  the context ends. `FixedCallsLast` excludes such inputs, and `Returns` is
  claimed under it. Compile fixes the pending messages, which stand behind
  the history, and those of the other segments, so this takes a message with
  tool calls in the system, tools or memory segment.
- A stray tool result makes the complete round in front of it no longer
  recognised, and its messages may then be removed one by one. A result becomes
  stray when it is appended by itself, when the messages between a round and a
  later result are removed, or when the call of a pending round is.
  `RoundsSurvive` asks for histories without stray results.
- A target with a budget whose retention selects messages in both tools and
  memory records the references in the order of the flattened payload but
  compares them in the order of the snapshot; it is refused with
  `ErrInvalidRetention`.

Chat turns:

- CommitTerminal recomputes the prefix of continuation state on a retry from
  the current system segment and history. A retry after a lost answer is
  therefore recognised only while these are unchanged before the turn; if another
  writer edited them, it reports a stale execution although the turn is
  recorded. `RetryRecognised` is stated for undisturbed records.
- When an earlier attempt lands while a retry is between load and commit, the
  retry reports a conflict for its own success; one more retry recognises it.

Artifacts and persistence:

- An append onto an offloaded artifact by a delta keeps the extended preview and
  drops the reference to the blob.
- An ephemeral artifact in the store is appended to by a delta but replaced by
  a compilation.
- Stored artifacts are merged again in the order of their identities when a
  compilation starts, so a stored artifact that replaces by origin may drop a
  newer one of its origin.
- A message that a hook moves to another segment is stored in neither. A
  summary that takes the identity of a message it summarises is not stored.
- A blob store that fails after writing and gives no receipt leaves an object
  that nobody is told of; `OffloadsReported` is about objects with a receipt.

Ledger:

- A resolved message that a merge policy puts in the place of one with the same
  identity is recorded as made of both, and the ledger calls the replaced one
  transformed. Without a mapping by the host, the ledger attributes messages by
  identity alone. `CoverageExact` takes both as what the code means by
  attribution.

## 7. Not modelled

- Byte formats, digests, JSON codecs, limits on wire sizes and error wording:
  they are injective or they fail, and are fuzzed in the repository.
- Sections of the manifest on estimates, compactions, opaque states, output
  policies, resources and prefixes: validated field by field, with no order of
  events.
- The transformation record of a message whose opaque state was dropped
  (`opaque_state_dropped`); the drop itself is in `OpaqueState`, and no property
  depends on its record.
- Prefix diagnostics, estimates' reports, observers, export, chat message
  mapping: they read values and change no state.
- Registries: maps behind a lock, filled at start-up.
- Text rendering, transforms of text, examples, test utilities, release tooling.
- Clocks, which appear only as nondeterministic expiry; statement timeouts, which
  the Postgres store does not set.

`PROJECT.json` gives the reason per component, and says of the components that
are partly modelled what is left out.

## 8. Plan

What could be added:

1. `RoundsWhole` proved for the eviction of whole units and for hosts that
   return whole rounds: a unit that starts at a call ends with its last result,
   so what is left stays well formed.
2. Proofs about `CompileOutput`, beginning with `TargetScope`: it needs what
   `Shows` says of the prepared snapshot.
3. The handoff of `docs/blob-retention.md` as a composition of `BlobRetention`
   and `CheckpointStore`: a conversation that can be loaded never names a blob
   that was collected.
