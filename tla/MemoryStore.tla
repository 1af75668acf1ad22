----------------------------- MODULE MemoryStore -----------------------------
(***************************************************************************)
(* MemoryConversationStateStore (conversation.go): one RWMutex held across *)
(* the check of the token, the deltas, the projection and the host's codec *)
(* callbacks, with the context looked at before the lock, under it, and    *)
(* again before publication.  The map entry a conversation does not have   *)
(* yet is revision 0 with empty content.                                   *)
(***************************************************************************)
EXTENDS CheckpointData, FiniteSets

VARIABLES
    entryVersion,   \* conversations[id].version
    entryContent,   \* the rest of conversations[id]
    writer,         \* the calls holding the mutex for writing: none or one
    readers,        \* the calls holding it for reading
    pc,             \* where each call is
    args,           \* its arguments
    next,           \* the entry it has prepared under the lock
    canceled,       \* calls whose context is canceled
    loaded,         \* what each load returns
    unissued        \* history: calls whose token was not yet issued when made

store == <<entryVersion, entryContent>>
mutex == <<writer, readers>>
memoryVars == <<entryVersion, entryContent, writer, readers, pc, args, next, canceled,
                loaded, unissued>>

Done == {"ok", "conflict", "failed"}
Stages == Done \cup {"unused", "called", "waiting", "locked", "prepared",
                     "checked", "published", "observed"}

EmptyEntry == [version |-> 0, content |-> EmptyContent]

MemoryInit ==
    /\ entryVersion = 0
    /\ entryContent = EmptyContent
    /\ writer = {}
    /\ readers = {}
    /\ pc = [k \in Calls |-> "unused"]
    /\ args = [k \in Calls |-> NoRequest]
    /\ next = [k \in Calls |-> EmptyEntry]
    /\ canceled = {}
    /\ loaded = [k \in Calls |-> NoSnapshot]
    /\ unissued = {}

Goto(k, stage) == pc' = [pc EXCEPT ![k] = stage]

\* Every return runs the deferred unlock.
Leave(k, result) ==
    /\ Goto(k, result)
    /\ writer' = writer \ {k}
    /\ readers' = readers \ {k}

\* LoadState, CommitState with a nonempty batch, or ClearState is called.
Call(k) ==
    /\ pc[k] = "unused"
    /\ \E r \in Requests :
        /\ args' = [args EXCEPT ![k] = r]
        /\ unissued' = IF Invented(r, entryVersion) THEN unissued \cup {k} ELSE unissued
    /\ Goto(k, "called")
    /\ UNCHANGED <<store, mutex, next, canceled, loaded>>

\* The caller's context is canceled at any point of the call.
Cancel(k) ==
    /\ pc[k] \in Stages \ (Done \cup {"unused"})
    /\ k \notin canceled
    /\ canceled' = canceled \cup {k}
    /\ UNCHANGED <<store, mutex, pc, args, next, loaded, unissued>>

\* The context check before the lock.
CheckContext(k) ==
    /\ pc[k] = "called"
    /\ Goto(k, IF k \in canceled THEN "failed" ELSE "waiting")
    /\ UNCHANGED <<store, mutex, args, next, canceled, loaded, unissued>>

\* Defect: a write takes the mutex for reading.
AcquireShared(k) ==
    /\ pc[k] = "waiting"
    /\ k \notin canceled
    /\ Goto(k, "locked")
    /\ readers' = readers \cup {k}
    /\ UNCHANGED <<store, writer, args, next, canceled, loaded, unissued>>

\* mu.Lock or mu.RLock, and the context check behind it.
Acquire(k) ==
    /\ pc[k] = "waiting"
    /\ writer = {}
    /\ IsWrite(args[k]) => readers = {}
    /\ \/ /\ k \in canceled
          /\ Goto(k, "failed")
          /\ UNCHANGED mutex
       \/ /\ k \notin canceled
          /\ Goto(k, "locked")
          /\ IF IsWrite(args[k])
             THEN writer' = {k} /\ UNCHANGED readers
             ELSE readers' = readers \cup {k} /\ UNCHANGED writer
    /\ UNCHANGED <<store, args, next, canceled, loaded, unissued>>

\* CommitState and ClearState compare the token, compute the next content and
\* the next revision of the entry.
Prepare(k) ==
    /\ pc[k] = "locked"
    /\ IsWrite(args[k])
    /\ LET result == Written(entryContent, args[k])
       IN  \/ /\ args[k].expected # entryVersion
              /\ Leave(k, "conflict")
              /\ UNCHANGED next
           \/ /\ args[k].expected = entryVersion
              /\ result = Rejected \/ Exhausted(entryVersion)
              /\ Leave(k, "failed")
              /\ UNCHANGED next
           \/ /\ args[k].expected = entryVersion
              /\ result # Rejected
              /\ ~Exhausted(entryVersion)
              /\ next' = [next EXCEPT ![k] = [version |-> NextConversationVersion(entryVersion),
                                              content |-> result]]
              /\ Goto(k, "prepared")
              /\ UNCHANGED mutex
    /\ UNCHANGED <<store, args, canceled, loaded, unissued>>

\* The last context check.  A context that ends behind it is not noticed.
CheckBeforePublication(k) ==
    /\ pc[k] = "prepared"
    /\ \/ /\ k \in canceled
          /\ Leave(k, "failed")
       \/ /\ k \notin canceled
          /\ Goto(k, "checked")
          /\ UNCHANGED mutex
    /\ UNCHANGED <<store, args, next, canceled, loaded, unissued>>

\* Defect: the context is looked at once more, behind the assignment.
PublishThenCheck(k) ==
    /\ pc[k] = "checked"
    /\ entryVersion' = next[k].version
    /\ entryContent' = next[k].content
    /\ IF k \in canceled THEN Leave(k, "failed") ELSE Goto(k, "published") /\ UNCHANGED mutex
    /\ UNCHANGED <<args, next, canceled, loaded, unissued>>

\* The assignment of the map entry.
PublishEntry(k) ==
    /\ pc[k] = "checked"
    /\ entryVersion' = next[k].version
    /\ entryContent' = next[k].content
    /\ Goto(k, "published")
    /\ UNCHANGED <<mutex, args, next, canceled, loaded, unissued>>

\* LoadState copies the map entry.
Read(k) ==
    /\ pc[k] = "locked"
    /\ args[k].op = "load"
    /\ loaded' = [loaded EXCEPT ![k] = [version |-> entryVersion, content |-> entryContent]]
    /\ Goto(k, "observed")
    /\ UNCHANGED <<store, mutex, args, next, canceled, unissued>>

Succeed(k) ==
    /\ pc[k] \in {"published", "observed"}
    /\ Leave(k, "ok")
    /\ UNCHANGED <<store, args, next, canceled, loaded, unissued>>

Step(k) == \/ CheckContext(k) \/ Prepare(k) \/ CheckBeforePublication(k)
           \/ PublishEntry(k) \/ Read(k) \/ Succeed(k)

MemoryNext == \E k \in Calls : Call(k) \/ Cancel(k) \/ Acquire(k) \/ Step(k)

MemorySpec == MemoryInit /\ [][MemoryNext]_memoryVars
-----------------------------------------------------------------------------
(* Properties *)

\* How far a call is for its caller, and what it has done to the store.
Status == [k \in Calls |-> IF pc[k] \in Done \cup {"unused"} THEN pc[k] ELSE "open"]
Effect == [k \in Calls |->
             IF pc[k] \in {"published", "observed", "ok"}
             THEN IF IsWrite(args[k]) THEN "published" ELSE "observed"
             ELSE "none"]

Checkpoint == INSTANCE CheckpointStore
    WITH version <- entryVersion, content <- entryContent, req <- args, seen <- loaded,
         invented <- unissued, status <- Status, effect <- Effect

\* The memory store implements the checkpoint store contract.
Implements == Checkpoint!Spec

\* Writes that have returned success or are about to.
Succeeded == {k \in Calls : IsWrite(args[k]) /\ pc[k] \in {"published", "ok"}}

\* What callers are told is what became of the map, unlike with a store across a
\* network: each revision was made by exactly one call, which succeeds, and each
\* success made a revision.  So a call that reports an error, an end of its
\* context included ("Cancellation observed while waiting cannot clear or advance
\* state"), has left no trace, and one whose context ends too late to be noticed
\* reports its success (CommitState, ClearState).
AnswersMatchRevisions ==
    /\ \A k \in Succeeded : args[k].expected < entryVersion
    /\ \A v \in 0..entryVersion - 1 : \E k \in Succeeded : args[k].expected = v
    /\ \A j, k \in Succeeded : args[j].expected = args[k].expected => j = k

=============================================================================
