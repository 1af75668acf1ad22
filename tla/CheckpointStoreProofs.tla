----------------------- MODULE CheckpointStoreProofs -----------------------
(***************************************************************************)
(* The checkpoint store contract keeps its promises, the memory store      *)
(* implements the contract, and what it tells its callers is what became   *)
(* of its map: for every set of calls, contents and batches, every meaning *)
(* of a batch and every last revision.                                     *)
(***************************************************************************)
EXTENDS CheckpointStore, MemoryStore, TLAPS

\* A write that is not rejected publishes a content.
LEMMA WrittenType ==
    ASSUME NEW c \in Contents, NEW r \in Requests, IsWrite(r),
           Written(c, r) # Rejected
    PROVE  Written(c, r) \in Contents
<1>1. CASE r \in CommitRequests
  BY <1>1, EmptyContentAssumption, ApplyBatchAssumption DEF Written, CommitRequests
<1>2. CASE r \in ClearRequests
  BY <1>2, EmptyContentAssumption DEF Written, ClearRequests
<1>3. CASE r \in LoadRequests
  BY <1>3 DEF LoadRequests, IsWrite
<1> QED
  BY <1>1, <1>2, <1>3 DEF Requests

\* The token of a write is a revision.
LEMMA ExpectedType ==
    ASSUME NEW r \in Requests \cup {NoRequest}, IsWrite(r)
    PROVE  r \in Requests /\ r.expected \in Versions
<1>1. r \in CommitRequests \cup ClearRequests
  BY DEF IsWrite, NoRequest, Requests, LoadRequests
<1> QED
  BY <1>1, TokensAssumption DEF CommitRequests, ClearRequests, Requests

\* Advancing a revision that is not the last one stays within the revisions.
LEMMA NextVersionType ==
    ASSUME NEW v \in Versions, ~Exhausted(v)
    PROVE  /\ NextConversationVersion(v) \in Versions
           /\ NextConversationVersion(v) > v
           /\ NextConversationVersion(v) = v + 1
BY MaxVersionAssumption DEF Versions, Exhausted, NextConversationVersion

LEMMA InitInv == Init => Inv
BY EmptyContentAssumption, MaxVersionAssumption
DEF Init, Inv, TypeOK, EffectsOfCallsMade, OneWinnerPerToken, LoadsAgree,
    Versions, Statuses, NoSnapshot

\* A call is made: it has had no effect, so nothing said of effects changes.
LEMMA InvokeInv ==
    ASSUME Inv, NEW k \in Calls, Invoke(k)
    PROVE  Inv'
<1> USE DEF Inv
<1>1. effect[k] = "none"
  BY DEF Invoke, EffectsOfCallsMade
<1>2. TypeOK'
  BY DEF TypeOK, Invoke, Statuses
<1>3. \A j \in Calls : effect[j] # "none" => req'[j] = req[j]
  BY <1>1 DEF Invoke, TypeOK
<1>4. EffectsOfCallsMade'
  BY <1>1, <1>3 DEF EffectsOfCallsMade, Invoke, TypeOK, IsWrite
<1>5. OneWinnerPerToken'
  BY <1>3 DEF OneWinnerPerToken, Invoke
<1>6. LoadsAgree'
  BY DEF LoadsAgree, Invoke
<1> QED
  BY <1>2, <1>4, <1>5, <1>6

\* A write takes effect: every earlier effect lies below the revision it uses
\* up, so it is the only winner of its token and no load has seen its revision.
LEMMA PublishInv ==
    ASSUME Inv, NEW k \in Calls, Publish(k)
    PROVE  Inv'
<1> USE DEF Inv
<1>1. req[k] \in Requests /\ IsWrite(req[k]) /\ version \in Versions
  BY ExpectedType DEF Publish, TypeOK
<1>2. /\ version' \in Versions
      /\ version' > version
  BY <1>1, NextVersionType DEF Publish
<1>3. content' \in Contents
  BY <1>1, WrittenType DEF Publish, TypeOK
<1>4. TypeOK'
  BY <1>2, <1>3 DEF TypeOK, Publish
<1>5. EffectsOfCallsMade'
  BY <1>1, <1>2, ExpectedType, MaxVersionAssumption
  DEF EffectsOfCallsMade, Publish, TypeOK, Versions, Snapshots, IsWrite
<1>6. OneWinnerPerToken'
  BY <1>1, MaxVersionAssumption
  DEF OneWinnerPerToken, EffectsOfCallsMade, Publish, TypeOK, Versions
<1>7. LoadsAgree'
  BY <1>1, <1>2, MaxVersionAssumption
  DEF LoadsAgree, EffectsOfCallsMade, Publish, TypeOK, Versions, Snapshots
<1> QED
  BY <1>4, <1>5, <1>6, <1>7

\* A load observes the current revision and content.
LEMMA ObserveInv ==
    ASSUME Inv, NEW k \in Calls, Observe(k)
    PROVE  Inv'
<1> USE DEF Inv
<1>1. seen'[k] = [version |-> version, content |-> content] /\ seen'[k] \in Snapshots
  BY DEF Observe, TypeOK, Snapshots
<1>2. TypeOK'
  BY <1>1 DEF TypeOK, Observe
<1>3. EffectsOfCallsMade'
  BY <1>1, MaxVersionAssumption DEF EffectsOfCallsMade, Observe, TypeOK, Versions
<1>4. OneWinnerPerToken'
  BY DEF OneWinnerPerToken, Observe, TypeOK
<1>5. \A j \in Calls : effect'[j] = "observed" /\ seen'[j].version = version
                         => seen'[j].content = content
  BY <1>1 DEF LoadsAgree, Observe, TypeOK
<1>6. \A j \in Calls : effect'[j] = "observed" => seen'[j] \in Snapshots
  BY <1>3 DEF EffectsOfCallsMade
<1>7. \A i, j \in Calls :
        /\ effect'[i] = "observed"
        /\ effect'[j] = "observed"
        /\ seen'[i].version = seen'[j].version
        => seen'[i] = seen'[j]
  <2> SUFFICES ASSUME NEW i \in Calls, NEW j \in Calls,
                      effect'[i] = "observed", effect'[j] = "observed",
                      seen'[i].version = seen'[j].version
               PROVE  seen'[i] = seen'[j]
    OBVIOUS
  <2>1. CASE i # k /\ j # k
    BY <2>1 DEF LoadsAgree, Observe, TypeOK
  <2>2. CASE i = k \/ j = k
    <3>1. seen'[i].version = version /\ seen'[j].version = version
      BY <1>1, <2>2
    <3>2. seen'[i].content = seen'[j].content
      BY <1>5, <3>1
    <3> QED
      BY <1>6, <3>2 DEF Snapshots
  <2> QED
    BY <2>1, <2>2
<1>8. LoadsAgree'
  BY <1>5, <1>7 DEF LoadsAgree, Observe
<1> QED
  BY <1>2, <1>3, <1>4, <1>8

\* An expiry moves to a revision no load has seen.
LEMMA ExpireInv ==
    ASSUME Inv, Expire
    PROVE  Inv'
<1> USE DEF Inv
<1>1. /\ version \in Versions
      /\ version' \in Versions
      /\ version' > version
  BY NextVersionType DEF Expire, TypeOK
<1>2. TypeOK'
  BY <1>1, EmptyContentAssumption DEF TypeOK, Expire
<1>3. EffectsOfCallsMade'
  BY <1>1, ExpectedType, MaxVersionAssumption
  DEF EffectsOfCallsMade, Expire, TypeOK, Versions, Snapshots
<1>4. OneWinnerPerToken'
  BY DEF OneWinnerPerToken, Expire
<1>5. LoadsAgree'
  BY <1>1, MaxVersionAssumption
  DEF LoadsAgree, EffectsOfCallsMade, Expire, TypeOK, Versions, Snapshots
<1> QED
  BY <1>2, <1>3, <1>4, <1>5

\* A return changes only what the caller knows.
LEMMA ReturnInv ==
    ASSUME Inv, NEW k \in Calls, NEW s \in {"ok", "conflict", "failed"}, Return(k, s)
    PROVE  Inv'
<1> USE DEF Inv
<1>1. TypeOK'
  BY DEF TypeOK, Return, Statuses
<1>2. EffectsOfCallsMade'
  BY DEF EffectsOfCallsMade, Return, TypeOK
<1>3. OneWinnerPerToken' /\ LoadsAgree'
  BY DEF OneWinnerPerToken, LoadsAgree, Return
<1> QED
  BY <1>1, <1>2, <1>3

LEMMA NextInv == Inv /\ [Next]_vars => Inv'
<1> SUFFICES ASSUME Inv, [Next]_vars
             PROVE  Inv'
  OBVIOUS
<1>1. CASE Expire
  BY <1>1, ExpireInv
<1>2. ASSUME NEW k \in Calls, Invoke(k)
      PROVE  Inv'
  BY <1>2, InvokeInv
<1>3. ASSUME NEW k \in Calls, Publish(k)
      PROVE  Inv'
  BY <1>3, PublishInv
<1>4. ASSUME NEW k \in Calls, Observe(k)
      PROVE  Inv'
  BY <1>4, ObserveInv
<1>5. ASSUME NEW k \in Calls, ReturnOk(k) \/ ReturnConflict(k) \/ ReturnFailed(k)
      PROVE  Inv'
  BY <1>5, ReturnInv DEF ReturnOk, ReturnConflict, ReturnFailed
<1>6. CASE UNCHANGED vars
  BY <1>6 DEF Inv, TypeOK, EffectsOfCallsMade, OneWinnerPerToken, LoadsAgree, vars
<1> QED
  BY <1>1, <1>2, <1>3, <1>4, <1>5, <1>6 DEF Next

\* Every reachable state satisfies the inductive invariant.
THEOREM InvHolds == Spec => []Inv
<1>1. Init => Inv
  BY InitInv
<1>2. Inv /\ [Next]_vars => Inv'
  BY NextInv
<1> QED
  BY <1>1, <1>2, PTL DEF Spec

\* Type correctness of the contract.
THEOREM TypeCorrect == Spec => []TypeOK
<1>1. Inv => TypeOK
  BY DEF Inv
<1> QED
  BY <1>1, InvHolds, PTL

\* However many callers race with one token, at most one of them takes effect.
THEOREM OneWinner == Spec => []OneWinnerPerToken
<1>1. Inv => OneWinnerPerToken
  BY DEF Inv
<1> QED
  BY <1>1, InvHolds, PTL

\* A revision names one content: loads that return it agree.
THEOREM RevisionNamesContent == Spec => []LoadsAgree
<1>1. Inv => LoadsAgree
  BY DEF Inv
<1> QED
  BY <1>1, InvHolds, PTL

\* The revision never goes back, skips or stays behind a changed content.
THEOREM RevisionsAdvance == Spec => RevisionAdvances
<1>1. Inv /\ [Next]_vars =>
        [/\ version' \in {version, version + 1}
         /\ version' = version => content' = content]_vars
  <2> SUFFICES ASSUME Inv, [Next]_vars
               PROVE  /\ version' \in {version, version + 1}
                      /\ version' = version => content' = content
    OBVIOUS
  <2>1. ASSUME Expire \/ \E k \in Calls : Publish(k)
        PROVE  version' = version + 1 /\ version' # version
    BY <2>1, NextVersionType, MaxVersionAssumption
    DEF Expire, Publish, Inv, TypeOK, Versions
  <2>2. ASSUME ~(Expire \/ \E k \in Calls : Publish(k))
        PROVE  version' = version /\ content' = content
    BY <2>2 DEF Next, vars, Invoke, Observe, Return, ReturnOk, ReturnConflict, ReturnFailed
  <2> QED
    BY <2>1, <2>2
<1> QED
  BY <1>1, InvHolds, PTL DEF Spec, RevisionAdvances

-----------------------------------------------------------------------------
(* The memory store: the inductive invariant *)

MemoryTypeOK ==
    /\ entryVersion \in Versions
    /\ entryContent \in Contents
    /\ writer \in SUBSET Calls
    /\ readers \in SUBSET Calls
    /\ pc \in [Calls -> Stages]
    /\ args \in [Calls -> Requests \cup {NoRequest}]
    /\ next \in [Calls -> Snapshots]
    /\ canceled \in SUBSET Calls
    /\ loaded \in [Calls -> Snapshots \cup {NoSnapshot}]
    /\ unissued \in SUBSET Calls

\* A call that was made has arguments, and is where a call with its arguments
\* can be.
CallsWellFormed ==
    \A k \in Calls :
        /\ pc[k] # "unused" => args[k] \in Requests
        /\ pc[k] \in {"prepared", "checked", "published"} => IsWrite(args[k])
        /\ pc[k] = "observed" => ~IsWrite(args[k])

\* A write has the mutex for itself from the comparison of the token to its
\* return.
WriterAlone ==
    \A k \in Calls :
        \/ pc[k] \in {"prepared", "checked", "published"}
        \/ pc[k] = "locked" /\ IsWrite(args[k])
        => writer = {k}

\* What a write has prepared under the mutex still fits the map entry.
PreparedFromCurrent ==
    \A k \in Calls : pc[k] \in {"prepared", "checked"} =>
        /\ args[k].expected = entryVersion
        /\ ~Exhausted(entryVersion)
        /\ Written(entryContent, args[k]) # Rejected
        /\ next[k] = [version |-> NextConversationVersion(entryVersion),
                      content |-> Written(entryContent, args[k])]

\* The conjunction that every step preserves.
MemoryInv == MemoryTypeOK /\ CallsWellFormed /\ WriterAlone /\ PreparedFromCurrent

-----------------------------------------------------------------------------
(* The memory store: requests *)

\* A request that is not a write is a load.
LEMMA LoadOrWrite ==
    ASSUME NEW r \in Requests
    PROVE  r.op = "load" <=> ~IsWrite(r)
BY DEF Requests, LoadRequests, CommitRequests, ClearRequests, IsWrite

-----------------------------------------------------------------------------
(* The memory store: every step preserves its invariant *)

LEMMA MemoryInitInv == MemoryInit => MemoryInv
BY EmptyContentAssumption, MaxVersionAssumption
DEF MemoryInit, EmptyEntry, MemoryInv, MemoryTypeOK, CallsWellFormed, WriterAlone, PreparedFromCurrent,
    Versions, Snapshots, Stages, Done

\* Steps that leave the map entry and the mutex alone and move a call to a
\* stage about which nothing is said.
LEMMA PlainStepInv ==
    ASSUME MemoryInv, NEW k \in Calls, NEW stage \in Stages \ {"prepared", "checked", "published", "locked", "observed", "unused"},
           pc[k] # "unused", Goto(k, stage),
           UNCHANGED <<store, mutex, args, next, canceled, loaded, unissued>>
    PROVE  MemoryInv'
<1> USE DEF MemoryInv, store, mutex, Goto
<1>1. MemoryTypeOK'
  BY DEF MemoryTypeOK
<1>2. CallsWellFormed' /\ WriterAlone' /\ PreparedFromCurrent'
  BY DEF MemoryTypeOK, CallsWellFormed, WriterAlone, PreparedFromCurrent
<1> QED
  BY <1>1, <1>2

\* A return gives up the caller's hold of the mutex and nobody else's.
LEMMA LeaveInv ==
    ASSUME MemoryInv, NEW k \in Calls, NEW result \in Done, pc[k] # "unused", Leave(k, result),
           UNCHANGED <<store, args, next, canceled, loaded, unissued>>
    PROVE  MemoryInv'
<1> USE DEF MemoryInv, store, Goto, Leave
<1>1. MemoryTypeOK'
  BY DEF MemoryTypeOK, Stages
<1>2. CallsWellFormed' /\ PreparedFromCurrent'
  BY DEF MemoryTypeOK, CallsWellFormed, PreparedFromCurrent, Done
<1>3. WriterAlone'
  <2> SUFFICES ASSUME NEW j \in Calls,
                      \/ pc'[j] \in {"prepared", "checked", "published"}
                      \/ pc'[j] = "locked" /\ IsWrite(args'[j])
               PROVE  writer' = {j}
    BY DEF WriterAlone
  <2>1. j # k
    BY DEF MemoryTypeOK, Done
  <2>2. writer = {j}
    BY <2>1 DEF MemoryTypeOK, WriterAlone
  <2> QED
    BY <2>1, <2>2
<1> QED
  BY <1>1, <1>2, <1>3

LEMMA CallInv ==
    ASSUME MemoryInv, NEW k \in Calls, Call(k)
    PROVE  MemoryInv'
<1> USE DEF MemoryInv, store, mutex, Goto, Call
<1>1. MemoryTypeOK'
  BY DEF MemoryTypeOK, Stages
<1>2. CallsWellFormed' /\ WriterAlone' /\ PreparedFromCurrent'
  BY DEF MemoryTypeOK, CallsWellFormed, WriterAlone, PreparedFromCurrent
<1> QED
  BY <1>1, <1>2

LEMMA CancelInv ==
    ASSUME MemoryInv, NEW k \in Calls, Cancel(k)
    PROVE  MemoryInv'
BY DEF MemoryInv, store, mutex, Cancel, MemoryTypeOK, CallsWellFormed, WriterAlone, PreparedFromCurrent

\* The mutex is free of writers when it is taken, so no other call has the
\* entry prepared.
LEMMA AcquireInv ==
    ASSUME MemoryInv, NEW k \in Calls, Acquire(k)
    PROVE  MemoryInv'
<1> USE DEF MemoryInv, store, mutex, Goto
<1>1. CASE k \in canceled
  BY <1>1, PlainStepInv DEF Acquire, Stages, Done
<1>2. CASE k \notin canceled
  <2>1. MemoryTypeOK'
    BY <1>2 DEF Acquire, MemoryTypeOK, Stages
  <2>2. CallsWellFormed'
    BY <1>2 DEF Acquire, MemoryTypeOK, CallsWellFormed
  <2>3. \A j \in Calls : pc[j] \notin {"prepared", "checked", "published"} /\ ~(pc[j] = "locked" /\ IsWrite(args[j]))
    BY DEF Acquire, WriterAlone
  <2>4. WriterAlone' /\ PreparedFromCurrent'
    BY <1>2, <2>3 DEF Acquire, MemoryTypeOK, WriterAlone, PreparedFromCurrent
  <2> QED
    BY <2>1, <2>2, <2>4
<1> QED
  BY <1>1, <1>2

LEMMA PrepareInv ==
    ASSUME MemoryInv, NEW k \in Calls, Prepare(k)
    PROVE  MemoryInv'
<1> USE DEF MemoryInv, store, mutex, Goto
<1>1. CASE Leave(k, "conflict") \/ Leave(k, "failed")
  <2>1. UNCHANGED next
    BY <1>1 DEF Prepare, Leave, MemoryTypeOK
  <2> QED
    BY <1>1, <2>1, LeaveInv DEF Prepare, Done
<1>2. CASE pc' = [pc EXCEPT ![k] = "prepared"]
  <2>1. /\ args[k].expected = entryVersion
        /\ Written(entryContent, args[k]) # Rejected
        /\ ~Exhausted(entryVersion)
        /\ next' = [next EXCEPT ![k] = [version |-> NextConversationVersion(entryVersion),
                                        content |-> Written(entryContent, args[k])]]
        /\ UNCHANGED <<writer, readers, entryVersion, entryContent, args, canceled, loaded, unissued>>
        /\ pc[k] = "locked" /\ IsWrite(args[k])
    BY <1>2 DEF Prepare, Leave, MemoryTypeOK
  <2>2. [version |-> NextConversationVersion(entryVersion),
         content |-> Written(entryContent, args[k])] \in Snapshots
    BY <2>1, WrittenType, NextVersionType DEF MemoryTypeOK, CallsWellFormed, Snapshots
  <2>3. MemoryTypeOK'
    BY <1>2, <2>1, <2>2 DEF MemoryTypeOK, Stages
  <2>4. CallsWellFormed' /\ WriterAlone' /\ PreparedFromCurrent'
    BY <1>2, <2>1 DEF MemoryTypeOK, CallsWellFormed, WriterAlone, PreparedFromCurrent
  <2> QED
    BY <2>3, <2>4
<1> QED
  BY <1>1, <1>2 DEF Prepare

LEMMA CheckBeforePublicationInv ==
    ASSUME MemoryInv, NEW k \in Calls, CheckBeforePublication(k)
    PROVE  MemoryInv'
<1> USE DEF MemoryInv, store, mutex, Goto, CheckBeforePublication
<1>1. CASE k \in canceled
  BY <1>1, LeaveInv DEF Done
<1>2. CASE k \notin canceled
  <2>1. MemoryTypeOK'
    BY <1>2 DEF MemoryTypeOK, Stages
  <2>2. CallsWellFormed' /\ WriterAlone' /\ PreparedFromCurrent'
    BY <1>2 DEF MemoryTypeOK, CallsWellFormed, WriterAlone, PreparedFromCurrent
  <2> QED
    BY <2>1, <2>2
<1> QED
  BY <1>1, <1>2

\* Nobody else holds the mutex, so what others have prepared is not disturbed.
LEMMA PublishEntryInv ==
    ASSUME MemoryInv, NEW k \in Calls, PublishEntry(k)
    PROVE  MemoryInv'
<1> USE DEF MemoryInv, store, mutex, Goto, PublishEntry
<1>1. entryVersion' \in Versions /\ entryContent' \in Contents
  BY DEF MemoryTypeOK, Snapshots
<1>2. MemoryTypeOK'
  BY <1>1 DEF MemoryTypeOK, Stages
<1>3. CallsWellFormed' /\ WriterAlone'
  BY DEF MemoryTypeOK, CallsWellFormed, WriterAlone
<1>4. \A j \in Calls : pc'[j] \notin {"prepared", "checked"}
  BY DEF MemoryTypeOK, WriterAlone
<1>5. PreparedFromCurrent'
  BY <1>4 DEF PreparedFromCurrent
<1> QED
  BY <1>2, <1>3, <1>5

LEMMA ReadInv ==
    ASSUME MemoryInv, NEW k \in Calls, Read(k)
    PROVE  MemoryInv'
<1> USE DEF MemoryInv, store, mutex, Goto, Read
<1>1. MemoryTypeOK'
  BY DEF MemoryTypeOK, Stages, Snapshots
<1>2. CallsWellFormed' /\ WriterAlone' /\ PreparedFromCurrent'
  BY DEF MemoryTypeOK, CallsWellFormed, WriterAlone, PreparedFromCurrent, IsWrite
<1> QED
  BY <1>1, <1>2

LEMMA MemoryNextInv == MemoryInv /\ [MemoryNext]_memoryVars => MemoryInv'
<1> SUFFICES ASSUME MemoryInv, [MemoryNext]_memoryVars
             PROVE  MemoryInv'
  OBVIOUS
<1>1. ASSUME NEW k \in Calls, CheckContext(k)
      PROVE  MemoryInv'
  BY <1>1, PlainStepInv DEF CheckContext, Stages, Done
<1>2. ASSUME NEW k \in Calls, Succeed(k)
      PROVE  MemoryInv'
  BY <1>2, LeaveInv DEF Succeed, Done
<1>3. CASE UNCHANGED memoryVars
  BY <1>3 DEF memoryVars, MemoryInv, MemoryTypeOK, CallsWellFormed, WriterAlone, PreparedFromCurrent
<1> QED
  BY <1>1, <1>2, <1>3, CallInv, CancelInv, AcquireInv, PrepareInv, CheckBeforePublicationInv,
     PublishEntryInv, ReadInv DEF MemoryNext, Step

\* Every reachable state satisfies the inductive invariant.
THEOREM MemoryInvHolds == MemorySpec => []MemoryInv
<1>1. MemoryInit => MemoryInv
  BY MemoryInitInv
<1>2. MemoryInv /\ [MemoryNext]_memoryVars => MemoryInv'
  BY MemoryNextInv
<1> QED
  BY <1>1, <1>2, PTL DEF MemorySpec

-----------------------------------------------------------------------------
(* The memory store: every step is a step of the contract *)

\* Calls and batches mean the same in the contract.
LEMMA SameData ==
    /\ Checkpoint!Requests = Requests
    /\ Checkpoint!NoRequest = NoRequest
    /\ Checkpoint!NoSnapshot = NoSnapshot
    /\ \A r : Checkpoint!IsWrite(r) <=> IsWrite(r)
    /\ \A r, v : Checkpoint!Invented(r, v) <=> Invented(r, v)
    /\ \A v : Checkpoint!Exhausted(v) <=> Exhausted(v)
    /\ \A v : Checkpoint!NextConversationVersion(v) = NextConversationVersion(v)
    /\ \A c, r : Checkpoint!Written(c, r) = Written(c, r)
BY DEF Checkpoint!Requests, Requests, Checkpoint!LoadRequests, LoadRequests,
       Checkpoint!CommitRequests, CommitRequests, Checkpoint!ClearRequests, ClearRequests,
       Checkpoint!NoRequest, NoRequest, Checkpoint!NoSnapshot, NoSnapshot,
       Checkpoint!IsWrite, IsWrite, Checkpoint!Invented, Invented, Checkpoint!Exhausted, Exhausted,
       Checkpoint!NextConversationVersion, NextConversationVersion, Checkpoint!Written, Written

\* The mapping does not see steps within a call.
LEMMA WithinCall ==
    ASSUME MemoryInv, NEW k \in Calls, NEW stage \in {"called", "waiting", "locked", "prepared", "checked"},
           pc[k] \in {"called", "waiting", "locked", "prepared"}, Goto(k, stage),
           UNCHANGED <<store, args, loaded, unissued>>
    PROVE  UNCHANGED Checkpoint!vars
<1>1. Status' = Status /\ Effect' = Effect
  BY DEF MemoryInv, MemoryTypeOK, Goto, Status, Effect, Done
<1> QED
  BY <1>1 DEF store, Checkpoint!vars

\* A return with an error is the contract's.
LEMMA ErrorReturned ==
    ASSUME MemoryInv, NEW k \in Calls, NEW result \in {"conflict", "failed"},
           pc[k] \in {"called", "waiting", "locked", "prepared"}, Goto(k, result),
           UNCHANGED <<store, args, loaded, unissued>>
    PROVE  Checkpoint!Return(k, result)
<1>1. Status' = [Status EXCEPT ![k] = result] /\ Status[k] = "open"
  BY DEF MemoryInv, MemoryTypeOK, Goto, Status, Done
<1>2. Effect' = Effect
  BY DEF MemoryInv, MemoryTypeOK, Goto, Effect
<1> QED
  BY <1>1, <1>2 DEF store, Checkpoint!Return

LEMMA CallImplements ==
    ASSUME MemoryInv, NEW k \in Calls, Call(k)
    PROVE  Checkpoint!Invoke(k)
<1> USE DEF MemoryInv, Call, Goto, store, mutex
<1>1. Status[k] = "unused" /\ Status' = [Status EXCEPT ![k] = "open"]
  BY DEF MemoryTypeOK, Status, Done
<1>2. Effect' = Effect
  BY DEF MemoryTypeOK, Effect
<1> QED
  BY <1>1, <1>2, SameData DEF Checkpoint!Invoke

LEMMA PublishEntryImplements ==
    ASSUME MemoryInv, NEW k \in Calls, PublishEntry(k)
    PROVE  Checkpoint!Publish(k)
<1> USE DEF MemoryInv, PublishEntry, Goto, mutex
<1>1. Status[k] = "open" /\ Status' = Status
  BY DEF MemoryTypeOK, Status, Done
<1>2. Effect[k] = "none" /\ Effect' = [Effect EXCEPT ![k] = "published"]
  BY DEF MemoryTypeOK, CallsWellFormed, Effect
<1>3. /\ args[k].expected = entryVersion /\ ~Exhausted(entryVersion) /\ IsWrite(args[k])
      /\ Written(entryContent, args[k]) # Rejected
      /\ entryVersion' = NextConversationVersion(entryVersion)
      /\ entryContent' = Written(entryContent, args[k])
  <2>1. PreparedFromCurrent /\ CallsWellFormed /\ pc[k] = "checked"
    OBVIOUS
  <2>2. /\ next[k] = [version |-> NextConversationVersion(entryVersion),
                      content |-> Written(entryContent, args[k])]
        /\ args[k].expected = entryVersion /\ ~Exhausted(entryVersion) /\ IsWrite(args[k])
        /\ Written(entryContent, args[k]) # Rejected
    BY ONLY k \in Calls, <2>1 DEF PreparedFromCurrent, CallsWellFormed
  <2> QED
    BY <2>2
<1> QED
  BY <1>1, <1>2, <1>3, SameData DEF Checkpoint!Publish

LEMMA ReadImplements ==
    ASSUME MemoryInv, NEW k \in Calls, Read(k)
    PROVE  Checkpoint!Observe(k)
<1> USE DEF MemoryInv, Read, Goto, mutex, store
<1>1. Status[k] = "open" /\ Status' = Status
  BY DEF MemoryTypeOK, Status, Done
<1>2. Effect[k] = "none" /\ Effect' = [Effect EXCEPT ![k] = "observed"]
  BY DEF MemoryTypeOK, Effect, IsWrite
<1> QED
  BY <1>1, <1>2 DEF Checkpoint!Observe

LEMMA SucceedImplements ==
    ASSUME MemoryInv, NEW k \in Calls, Succeed(k)
    PROVE  Checkpoint!ReturnOk(k)
<1> USE DEF MemoryInv, Succeed, Leave, Goto, store
<1>1. Status[k] = "open" /\ Status' = [Status EXCEPT ![k] = "ok"]
  BY DEF MemoryTypeOK, Status, Done
<1>2. Effect[k] # "none" /\ Effect' = Effect
  BY DEF MemoryTypeOK, Effect
<1> QED
  BY <1>1, <1>2 DEF Checkpoint!ReturnOk, Checkpoint!Return

LEMMA StepImplements == MemoryInv /\ [MemoryNext]_memoryVars => [Checkpoint!Next]_(Checkpoint!vars)
<1> SUFFICES ASSUME MemoryInv, [MemoryNext]_memoryVars
             PROVE  Checkpoint!Next \/ UNCHANGED Checkpoint!vars
  OBVIOUS
<1>1. ASSUME NEW k \in Calls, Call(k)
      PROVE  Checkpoint!Next
  BY <1>1, CallImplements DEF Checkpoint!Next
<1>2. ASSUME NEW k \in Calls, Cancel(k)
      PROVE  UNCHANGED Checkpoint!vars
  BY <1>2 DEF Cancel, store, mutex, Checkpoint!vars, Status, Effect
<1>3. ASSUME NEW k \in Calls, CheckContext(k)
      PROVE  Checkpoint!Next \/ UNCHANGED Checkpoint!vars
  BY <1>3, ErrorReturned, WithinCall DEF CheckContext, Checkpoint!Next, Checkpoint!ReturnFailed
<1>4. ASSUME NEW k \in Calls, Acquire(k)
      PROVE  Checkpoint!Next \/ UNCHANGED Checkpoint!vars
  BY <1>4, ErrorReturned, WithinCall DEF Acquire, Checkpoint!Next, Checkpoint!ReturnFailed
<1>5. ASSUME NEW k \in Calls, Prepare(k)
      PROVE  Checkpoint!Next \/ UNCHANGED Checkpoint!vars
  <2>1. CASE args[k].expected # entryVersion
    BY <1>5, <2>1, ErrorReturned, SameData DEF Prepare, Leave, Checkpoint!Next, Checkpoint!ReturnConflict
  <2>2. CASE args[k].expected = entryVersion
    BY <1>5, <2>2, ErrorReturned, WithinCall DEF Prepare, Leave, Checkpoint!Next, Checkpoint!ReturnFailed
  <2> QED
    BY <2>1, <2>2
<1>6. ASSUME NEW k \in Calls, CheckBeforePublication(k)
      PROVE  Checkpoint!Next \/ UNCHANGED Checkpoint!vars
  BY <1>6, ErrorReturned, WithinCall DEF CheckBeforePublication, Leave, Checkpoint!Next, Checkpoint!ReturnFailed
<1>7. ASSUME NEW k \in Calls, PublishEntry(k) \/ Read(k) \/ Succeed(k)
      PROVE  Checkpoint!Next
  BY <1>7, PublishEntryImplements, ReadImplements, SucceedImplements DEF Checkpoint!Next
<1>8. CASE UNCHANGED memoryVars
  BY <1>8 DEF memoryVars, Checkpoint!vars, Status, Effect
<1> QED
  BY <1>1, <1>2, <1>3, <1>4, <1>5, <1>6, <1>7, <1>8 DEF MemoryNext, Step

\* The memory store implements the checkpoint store contract, with cancellation
\* at any point and any number of calls waiting for the mutex.
THEOREM MemoryStoreImplements == MemorySpec => Implements
<1>1. MemoryInit => Checkpoint!Init
  BY SameData DEF MemoryInit, Checkpoint!Init, Status, Effect, Done
<1>2. MemoryInv /\ [MemoryNext]_memoryVars => [Checkpoint!Next]_(Checkpoint!vars)
  BY StepImplements
<1> QED
  BY <1>1, <1>2, MemoryInvHolds, PTL DEF MemorySpec, Implements, Checkpoint!Spec

-----------------------------------------------------------------------------
(* The memory store: its answers *)

\* As long as the same calls have succeeded and the revision stays, nothing that
\* is said of them changes.
LEMMA AnswersStay ==
    ASSUME AnswersMatchRevisions, entryVersion' = entryVersion, Succeeded' = Succeeded,
           \A k \in Succeeded : args'[k] = args[k]
    PROVE  AnswersMatchRevisions'
BY DEF AnswersMatchRevisions

\* A publication adds the one success of the revision it leaves behind: every
\* earlier success expected a revision below it.
LEMMA PublishEntryAnswers ==
    ASSUME MemoryInv, AnswersMatchRevisions, NEW k \in Calls, PublishEntry(k)
    PROVE  AnswersMatchRevisions'
<1>1. /\ entryVersion \in Nat /\ entryVersion' = entryVersion + 1
      /\ args' = args /\ args[k].expected = entryVersion
  BY NextVersionType DEF MemoryInv, MemoryTypeOK, PreparedFromCurrent, PublishEntry, Versions
<1>2. k \notin Succeeded /\ Succeeded' = Succeeded \cup {k}
  BY DEF MemoryInv, MemoryTypeOK, CallsWellFormed, PublishEntry, Goto, Succeeded
<1>3. \A j \in Succeeded : args[j].expected \in Nat /\ args[j].expected < entryVersion
  <2> SUFFICES ASSUME NEW j \in Succeeded
               PROVE  args[j].expected \in Nat /\ args[j].expected < entryVersion
    OBVIOUS
  <2>1. IsWrite(args[j]) /\ args[j] \in Requests \cup {NoRequest}
    BY DEF Succeeded, MemoryInv, MemoryTypeOK
  <2>2. args[j].expected \in Versions
    BY <2>1, ExpectedType
  <2> QED
    BY <2>2, MaxVersionAssumption DEF AnswersMatchRevisions, Versions
<1>4. \A j \in Succeeded' : args'[j].expected < entryVersion'
  BY <1>1, <1>2, <1>3
<1>5. \A v \in 0..entryVersion' - 1 : \E j \in Succeeded' : args'[j].expected = v
  <2>1. \A v \in 0..entryVersion' - 1 : v \in 0..entryVersion - 1 \/ v = entryVersion
    BY <1>1
  <2> QED
    BY <1>1, <1>2, <2>1 DEF AnswersMatchRevisions
<1>6. \A i, j \in Succeeded' : args'[i].expected = args'[j].expected => i = j
  BY <1>1, <1>2, <1>3 DEF AnswersMatchRevisions
<1> QED
  BY <1>4, <1>5, <1>6 DEF AnswersMatchRevisions

\* No other step lets a call succeed or takes a success back.
LEMMA OtherStepsAnswers ==
    ASSUME MemoryInv, AnswersMatchRevisions, [MemoryNext]_memoryVars, \A k \in Calls : ~PublishEntry(k)
    PROVE  AnswersMatchRevisions'
<1> USE DEF MemoryInv, MemoryTypeOK, CallsWellFormed, Succeeded, Goto, Leave, store, Done
<1>1. entryVersion' = entryVersion
  BY DEF MemoryNext, Step, memoryVars, Call, Cancel, CheckContext, Acquire, Prepare, CheckBeforePublication,
         Read, Succeed
<1>2. Succeeded' = Succeeded /\ \A k \in Succeeded : args'[k] = args[k]
  <2>1. ASSUME NEW k \in Calls, Call(k)
        PROVE  Succeeded' = Succeeded /\ \A j \in Succeeded : args'[j] = args[j]
    BY <2>1 DEF Call
  <2>2. ASSUME NEW k \in Calls, Acquire(k) \/ Prepare(k)
        PROVE  Succeeded' = Succeeded /\ args' = args
    BY <2>2 DEF Acquire, Prepare
  <2>3. ASSUME NEW k \in Calls, CheckContext(k) \/ CheckBeforePublication(k) \/ Read(k) \/ Succeed(k)
        PROVE  Succeeded' = Succeeded /\ args' = args
    BY <2>3 DEF CheckContext, CheckBeforePublication, Read, Succeed, IsWrite
  <2>4. ASSUME NEW k \in Calls, Cancel(k)
        PROVE  Succeeded' = Succeeded /\ args' = args
    BY <2>4 DEF Cancel
  <2>5. CASE UNCHANGED memoryVars
    BY <2>5 DEF memoryVars
  <2> QED
    BY <2>1, <2>2, <2>3, <2>4, <2>5 DEF MemoryNext, Step
<1> QED
  BY <1>1, <1>2, AnswersStay

\* Each revision of the map was made by exactly one call, which succeeds, and each
\* success made a revision: an error of CommitState or ClearState is definite, and
\* a context that ends behind the last check does not turn a success into an error.
THEOREM AnswersDefinite == MemorySpec => []AnswersMatchRevisions
<1>1. MemoryInit => AnswersMatchRevisions
  BY DEF MemoryInit, AnswersMatchRevisions, Succeeded
<1>2. MemoryInv /\ AnswersMatchRevisions /\ [MemoryNext]_memoryVars => AnswersMatchRevisions'
  BY PublishEntryAnswers, OtherStepsAnswers
<1> QED
  BY <1>1, <1>2, MemoryInvHolds, PTL DEF MemorySpec

=============================================================================
