-------------------------- MODULE SharedStoreProofs --------------------------
(***************************************************************************)
(* The stores that several processes share implement the checkpoint store  *)
(* contract for every set of calls, contents and batches, every meaning of *)
(* a batch and every last revision.  First the Postgres store:             *)
(* transactions overlap, connections break at any moment, and a            *)
(* transaction whose COMMIT was sent may commit after its call returned.   *)
(* Then the Redis store, with every mix of stores with and without a time  *)
(* to live: scripts run late or twice, replies are lost and payloads       *)
(* expire.                                                                 *)
(***************************************************************************)
EXTENDS PostgresStore, TLAPS

-----------------------------------------------------------------------------
(* The inductive invariant of the Postgres store *)

TypeOK ==
    /\ version \in Versions
    /\ content \in Contents
    /\ holder \in SUBSET Calls
    /\ tx \in [Calls -> {"none", "open", "committing"}]
    /\ pc \in [Calls -> Stages]
    /\ req \in [Calls -> Requests \cup {NoRequest}]
    /\ base \in [Calls -> Snapshots \cup {NoSnapshot}]
    /\ next \in [Calls -> Contents]
    /\ seen \in [Calls -> Snapshots \cup {NoSnapshot}]
    /\ published \in SUBSET Calls
    /\ invented \in SUBSET Calls

\* A missing row is the empty conversation.
MissingRowEmpty == version = 0 => content = EmptyContent

\* A call that was made has arguments, a call in a transaction is a write, and
\* COMMIT is under way for a caller that waits for it or has given up on it.
CallWellFormed(k) ==
    /\ pc[k] # "unused" => req[k] \in Requests
    /\ pc[k] \in {"begun", "locked", "prepared", "persisted", "committing", "committed"} => IsWrite(req[k])
    /\ tx[k] = "committing" => IsWrite(req[k]) /\ pc[k] \in {"committing", "unknown"} /\ k \notin published

\* What a call has done to the store, and where it is then.
EffectKnown(k) ==
    /\ k \in published => IsWrite(req[k]) /\ pc[k] \in {"committed", "unknown", "ok"}
    /\ pc[k] = "committed" => k \in published
    /\ seen[k] # NoSnapshot => ~IsWrite(req[k]) /\ pc[k] \in {"observed", "ok"}
    /\ pc[k] = "observed" => seen[k] # NoSnapshot

\* The client's copy of the row is of the expected revision.
LoadedExpected(k) ==
    pc[k] \in {"locked", "prepared", "persisted"} \/ tx[k] = "committing" =>
        /\ base[k] \in Snapshots
        /\ base[k].version = req[k].expected
        /\ base[k].version = 0 => base[k].content = EmptyContent

\* The write was computed from that copy.
ComputedFromLoaded(k) ==
    pc[k] \in {"prepared", "persisted"} \/ tx[k] = "committing" =>
        /\ ~Exhausted(base[k].version)
        /\ Written(base[k].content, req[k]) # Rejected
        /\ next[k] = Written(base[k].content, req[k])

\* A transaction that found a row, or inserts one, is the only one that holds
\* it, and the row is still the one it has read.
HoldsRow(k) ==
    \/ pc[k] = "persisted"
    \/ tx[k] = "committing"
    \/ pc[k] \in {"locked", "prepared"} /\ base[k].version # 0

HeldRowCurrent(k) ==
    HoldsRow(k) => holder = {k} /\ base[k] = [version |-> version, content |-> content]

CallOK(k) ==
    /\ CallWellFormed(k)
    /\ EffectKnown(k)
    /\ LoadedExpected(k)
    /\ ComputedFromLoaded(k)
    /\ HeldRowCurrent(k)

\* The conjunction that every step preserves.
Inv == TypeOK /\ MissingRowEmpty /\ \A k \in Calls : CallOK(k)

-----------------------------------------------------------------------------
(* Requests *)

\* A write that is not rejected publishes a content.
LEMMA WrittenType ==
    ASSUME NEW c \in Contents, NEW r \in Requests, IsWrite(r),
           Written(c, r) # Rejected
    PROVE  Written(c, r) \in Contents
<1>1. CASE r \in CommitRequests
  BY <1>1, EmptyContentAssumption, ApplyBatchAssumption DEF Written, CommitRequests
<1>2. CASE r \in ClearRequests
  BY <1>2, EmptyContentAssumption DEF Written, ClearRequests
<1>3. CASE r \in LoadRequests
  BY <1>3 DEF LoadRequests, IsWrite
<1> QED
  BY <1>1, <1>2, <1>3 DEF Requests

\* Advancing a revision that is not the last one gives another revision.
LEMMA NextVersionType ==
    ASSUME NEW v \in Versions, ~Exhausted(v)
    PROVE  NextConversationVersion(v) \in Versions \ {0}
BY MaxVersionAssumption DEF Versions, Exhausted, NextConversationVersion

\* What is read of the row is a snapshot.
LEMMA RowIsSnapshot ==
    ASSUME TypeOK
    PROVE  /\ [version |-> version, content |-> content] \in Snapshots
           /\ [version |-> version, content |-> content] # NoSnapshot
BY MaxVersionAssumption DEF TypeOK, Snapshots, NoSnapshot, Versions

-----------------------------------------------------------------------------
(* Every step preserves the invariant *)

LEMMA InitInv == Init => Inv
BY EmptyContentAssumption, MaxVersionAssumption
DEF Init, Inv, TypeOK, MissingRowEmpty, CallOK, CallWellFormed, EffectKnown, LoadedExpected,
    ComputedFromLoaded, HoldsRow, HeldRowCurrent, Versions, Stages, Done

\* A step of k that leaves the row alone, and takes no lock but a free one, or
\* gives up its own, disturbs nothing that is said of other calls.
LEMMA OthersKept ==
    ASSUME Inv, NEW k \in Calls, UNCHANGED row,
           holder' = holder \/ holder' = holder \ {k} \/ holder = {},
           NEW j \in Calls \ {k},
           pc'[j] = pc[j], tx'[j] = tx[j], req'[j] = req[j], base'[j] = base[j],
           next'[j] = next[j], seen'[j] = seen[j], published' = published
    PROVE  CallOK(j)'
<1> USE DEF Inv, CallOK, row
<1>1. CallWellFormed(j)' /\ EffectKnown(j)' /\ LoadedExpected(j)' /\ ComputedFromLoaded(j)'
  BY DEF CallWellFormed, EffectKnown, LoadedExpected, ComputedFromLoaded
<1>2. HeldRowCurrent(j)'
  BY DEF HeldRowCurrent, HoldsRow
<1> QED
  BY <1>1, <1>2

\* So it is enough to look at k.
LEMMA OwnStep ==
    ASSUME Inv, NEW k \in Calls, UNCHANGED row,
           holder' = holder \/ holder' = holder \ {k} \/ holder = {},
           \A j \in Calls \ {k} : /\ pc'[j] = pc[j] /\ tx'[j] = tx[j] /\ req'[j] = req[j]
                                  /\ base'[j] = base[j] /\ next'[j] = next[j] /\ seen'[j] = seen[j],
           published' = published,
           TypeOK', CallOK(k)'
    PROVE  Inv'
BY OthersKept DEF Inv, row, MissingRowEmpty

LEMMA InvokeInv ==
    ASSUME Inv, NEW k \in Calls, Invoke(k)
    PROVE  Inv'
<1> USE DEF Inv, Invoke, Goto
<1>1. TypeOK'
  BY DEF TypeOK, row, Stages
<1>2. CallOK(k)'
  BY DEF TypeOK, CallOK, CallWellFormed, EffectKnown, LoadedExpected, ComputedFromLoaded,
         HoldsRow, HeldRowCurrent
<1> QED
  BY <1>1, <1>2, OwnStep DEF TypeOK

LEMMA LoadInv ==
    ASSUME Inv, NEW k \in Calls, Load(k)
    PROVE  Inv'
<1> USE DEF Inv, Load, Goto
<1>1. seen'[k] \in Snapshots /\ seen'[k] # NoSnapshot
  BY RowIsSnapshot DEF TypeOK
<1>2. TypeOK'
  BY <1>1 DEF TypeOK, row, Stages
<1>3. CallOK(k)'
  BY <1>1 DEF TypeOK, CallOK, CallWellFormed, EffectKnown, LoadedExpected, ComputedFromLoaded,
         HoldsRow, HeldRowCurrent, IsWrite
<1> QED
  BY <1>2, <1>3, OwnStep DEF TypeOK

LEMMA BeginInv ==
    ASSUME Inv, NEW k \in Calls, Begin(k)
    PROVE  Inv'
<1> USE DEF Inv, Begin, Goto
<1>1. TypeOK'
  BY DEF TypeOK, row, Stages
<1>2. CallOK(k)'
  BY DEF TypeOK, CallOK, CallWellFormed, EffectKnown, LoadedExpected, ComputedFromLoaded,
         HoldsRow, HeldRowCurrent
<1> QED
  BY <1>1, <1>2, OwnStep DEF TypeOK

\* A call that ends its transaction before COMMIT with an error.
LEMMA GiveUpInv ==
    ASSUME Inv, NEW k \in Calls, NEW result \in {"conflict", "failed"},
           pc[k] \in {"begun", "locked", "prepared"}, Goto(k, result), EndTx(k),
           UNCHANGED <<row, req, base, next, seen, published, invented>>
    PROVE  Inv'
<1> USE DEF Inv, EndTx, Goto
<1>1. TypeOK'
  BY DEF TypeOK, row, Stages, Done
<1>2. CallOK(k)'
  BY DEF TypeOK, CallOK, CallWellFormed, EffectKnown, LoadedExpected, ComputedFromLoaded,
         HoldsRow, HeldRowCurrent
<1> QED
  BY <1>1, <1>2, OwnStep DEF TypeOK

LEMMA LoadLockedInv ==
    ASSUME Inv, NEW k \in Calls, LoadLocked(k)
    PROVE  Inv'
<1> USE DEF Inv, LoadLocked, Goto
<1>1. CASE version # req[k].expected
  BY <1>1, GiveUpInv
<1>2. CASE version = req[k].expected
  <2>1. base'[k] = [version |-> version, content |-> content] /\ base'[k] \in Snapshots
    BY <1>2, RowIsSnapshot DEF TypeOK
  <2>2. TypeOK'
    BY <1>2, <2>1 DEF TypeOK, row, Stages
  <2>3. CallWellFormed(k)' /\ EffectKnown(k)' /\ ComputedFromLoaded(k)'
    BY <1>2 DEF TypeOK, CallOK, CallWellFormed, EffectKnown, ComputedFromLoaded
  <2>4. LoadedExpected(k)'
    BY <1>2, <2>1 DEF TypeOK, MissingRowEmpty, LoadedExpected, row
  <2>5. HeldRowCurrent(k)'
    BY <1>2, <2>1 DEF TypeOK, HoldsRow, HeldRowCurrent, CallOK, CallWellFormed, row
  <2> QED
    BY <1>2, <2>2, <2>3, <2>4, <2>5, OwnStep DEF TypeOK, CallOK
<1> QED
  BY <1>1, <1>2

LEMMA PrepareMutationInv ==
    ASSUME Inv, NEW k \in Calls, PrepareMutation(k)
    PROVE  Inv'
<1> USE DEF Inv, Goto
<1> DEFINE result == Written(base[k].content, req[k])
           refused == result = Rejected \/ Exhausted(base[k].version)
<1>1. CASE refused
  BY <1>1, GiveUpInv DEF PrepareMutation
<1>2. CASE ~refused
  <2>1. result \in Contents
    BY <1>2, WrittenType DEF PrepareMutation, CallOK, CallWellFormed, LoadedExpected, Snapshots
  <2>2. TypeOK'
    BY <1>2, <2>1 DEF PrepareMutation, TypeOK, row, Stages
  <2>3. CallOK(k)'
    BY <1>2 DEF PrepareMutation, TypeOK, CallOK, CallWellFormed, EffectKnown, LoadedExpected,
                ComputedFromLoaded, HoldsRow, HeldRowCurrent, row
  <2> QED
    BY <1>2, <2>2, <2>3, OwnStep DEF PrepareMutation, TypeOK
<1> QED
  BY <1>1, <1>2

LEMMA PersistInv ==
    ASSUME Inv, NEW k \in Calls, PersistUpdate(k) \/ PersistInsert(k)
    PROVE  Inv'
<1> USE DEF Inv, Goto
<1>1. CASE pc' = [pc EXCEPT ![k] = "conflict"]
  BY <1>1, GiveUpInv DEF PersistUpdate, PersistInsert, TypeOK
<1>2. CASE pc' = [pc EXCEPT ![k] = "persisted"]
  <2>1. TypeOK'
    BY <1>2 DEF PersistUpdate, PersistInsert, EndTx, TypeOK, row, Stages
  <2>2. UNCHANGED <<version, content, tx, req, base, next, seen, published, invented>>
    BY <1>2 DEF PersistUpdate, PersistInsert, TypeOK, row
  <2>3. CallWellFormed(k)' /\ EffectKnown(k)' /\ LoadedExpected(k)' /\ ComputedFromLoaded(k)'
    BY <1>2, <2>2 DEF PersistUpdate, PersistInsert, TypeOK, CallOK, CallWellFormed, EffectKnown,
                      LoadedExpected, ComputedFromLoaded
  <2>4. HeldRowCurrent(k)'
    <3>1. CASE PersistUpdate(k)
      BY <1>2, <2>2, <3>1 DEF PersistUpdate, TypeOK, CallOK, HoldsRow, HeldRowCurrent
    <3>2. CASE PersistInsert(k)
      <4>1. base[k] = [version |-> version, content |-> content]
        BY <1>2, <3>2 DEF PersistInsert, TypeOK, CallOK, LoadedExpected, MissingRowEmpty, Snapshots
      <4>2. holder' = {k}
        BY <1>2, <3>2 DEF PersistInsert, TypeOK
      <4> QED
        BY <2>2, <4>1, <4>2 DEF HeldRowCurrent
    <3> QED
      BY <3>1, <3>2
  <2> QED
    BY <1>2, <2>1, <2>2, <2>3, <2>4, OwnStep DEF PersistUpdate, PersistInsert, TypeOK, CallOK, row
<1> QED
  BY <1>1, <1>2 DEF PersistUpdate, PersistInsert

LEMMA SendCommitInv ==
    ASSUME Inv, NEW k \in Calls, SendCommit(k)
    PROVE  Inv'
<1> USE DEF Inv, SendCommit, Goto
<1>1. TypeOK'
  BY DEF TypeOK, row, Stages
<1>2. CallOK(k)'
  BY DEF TypeOK, CallOK, CallWellFormed, EffectKnown, LoadedExpected, ComputedFromLoaded,
         HoldsRow, HeldRowCurrent, row
<1> QED
  BY <1>1, <1>2, OwnStep DEF TypeOK

\* The row changes under its holder only.
LEMMA ServerCommitsInv ==
    ASSUME Inv, NEW k \in Calls, ServerCommits(k)
    PROVE  Inv'
<1> USE DEF Inv, ServerCommits, Goto, EndTx
<1>1. HoldsRow(k) /\ holder = {k} /\ base[k].version = version
  BY DEF CallOK, HoldsRow, HeldRowCurrent
<1>2. version' \in Versions \ {0}
  BY <1>1, NextVersionType DEF TypeOK, CallOK, ComputedFromLoaded
<1>3. TypeOK'
  BY <1>2 DEF TypeOK, Stages
<1>4. MissingRowEmpty'
  BY <1>2 DEF MissingRowEmpty
<1>5. CallOK(k)'
  BY DEF TypeOK, CallOK, CallWellFormed, EffectKnown, LoadedExpected, ComputedFromLoaded,
         HoldsRow, HeldRowCurrent
<1>6. ASSUME NEW j \in Calls, j # k
      PROVE  CallOK(j)'
  <2>1. ~HoldsRow(j)
    BY <1>1, <1>6 DEF CallOK, HeldRowCurrent
  <2>2. UNCHANGED <<pc[j], tx[j], req[j], base[j], next[j], seen[j]>> /\ (j \in published' <=> j \in published)
    BY <1>6 DEF TypeOK
  <2>3. ~HoldsRow(j)'
    BY <2>1, <2>2 DEF HoldsRow
  <2>4. CallOK(j)
    OBVIOUS
  <2> QED
    BY <2>2, <2>3, <2>4
    DEF CallOK, CallWellFormed, EffectKnown, LoadedExpected, ComputedFromLoaded, HeldRowCurrent
<1> QED
  BY <1>3, <1>4, <1>5, <1>6

LEMMA ServerAbortsInv ==
    ASSUME Inv, NEW k \in Calls, ServerAborts(k)
    PROVE  Inv'
<1> USE DEF Inv, ServerAborts, Goto, EndTx
<1>1. TypeOK'
  BY DEF TypeOK, row, Stages, Done
<1>2. CallOK(k)'
  BY DEF TypeOK, CallOK, CallWellFormed, EffectKnown, LoadedExpected, ComputedFromLoaded,
         HoldsRow, HeldRowCurrent, Done
<1> QED
  BY <1>1, <1>2, OwnStep DEF TypeOK

LEMMA ConnectionLostInv ==
    ASSUME Inv, NEW k \in Calls, ConnectionLost(k)
    PROVE  Inv'
<1> USE DEF Inv, ConnectionLost, Goto
<1>1. TypeOK'
  BY DEF TypeOK, row, Stages, Done
<1>2. CallOK(k)'
  BY DEF TypeOK, CallOK, CallWellFormed, EffectKnown, LoadedExpected, ComputedFromLoaded,
         HoldsRow, HeldRowCurrent, Done, Stages, row
<1> QED
  BY <1>1, <1>2, OwnStep DEF TypeOK

LEMMA ReturnOkInv ==
    ASSUME Inv, NEW k \in Calls, ReturnOk(k)
    PROVE  Inv'
<1> USE DEF Inv, ReturnOk, Goto
<1>1. TypeOK'
  BY DEF TypeOK, row, Stages, Done
<1>2. CallOK(k)'
  BY DEF TypeOK, CallOK, CallWellFormed, EffectKnown, LoadedExpected, ComputedFromLoaded,
         HoldsRow, HeldRowCurrent
<1> QED
  BY <1>1, <1>2, OwnStep DEF TypeOK

LEMMA NextInv == Inv /\ [Next]_vars => Inv'
<1> SUFFICES ASSUME Inv, [Next]_vars
             PROVE  Inv'
  OBVIOUS
<1>1. CASE UNCHANGED vars
  BY <1>1 DEF vars, Inv, TypeOK, MissingRowEmpty, CallOK, CallWellFormed, EffectKnown, LoadedExpected,
              ComputedFromLoaded, HoldsRow, HeldRowCurrent
<1> QED
  BY <1>1, InvokeInv, LoadInv, BeginInv, LoadLockedInv, PrepareMutationInv, PersistInv, SendCommitInv,
     ServerCommitsInv, ServerAbortsInv, ConnectionLostInv, ReturnOkInv
  DEF Next, Lock, Step, Server

\* Every reachable state satisfies the inductive invariant.
THEOREM InvHolds == Spec => []Inv
<1>1. Init => Inv
  BY InitInv
<1>2. Inv /\ [Next]_vars => Inv'
  BY NextInv
<1> QED
  BY <1>1, <1>2, PTL DEF Spec

\* Only an error of COMMIT leaves the outcome of a call open.
THEOREM EarlyErrors == Spec => []EarlyErrorsDefinite
<1>1. Inv => EarlyErrorsDefinite
  BY DEF Inv, CallOK, CallWellFormed, EffectKnown, EarlyErrorsDefinite
<1> QED
  BY <1>1, InvHolds, PTL

-----------------------------------------------------------------------------
(* Every step is a step of the contract *)

\* Calls and batches mean the same in the contract.
LEMMA SameData ==
    /\ Checkpoint!Requests = Requests
    /\ Checkpoint!NoRequest = NoRequest
    /\ Checkpoint!NoSnapshot = NoSnapshot
    /\ \A r : Checkpoint!IsWrite(r) <=> IsWrite(r)
    /\ \A r, v : Checkpoint!Invented(r, v) <=> Invented(r, v)
    /\ \A v : Checkpoint!Exhausted(v) <=> Exhausted(v)
    /\ \A v : Checkpoint!NextConversationVersion(v) = NextConversationVersion(v)
    /\ \A c, r : Checkpoint!Written(c, r) = Written(c, r)
BY DEF Checkpoint!Requests, Requests, Checkpoint!LoadRequests, LoadRequests,
       Checkpoint!CommitRequests, CommitRequests, Checkpoint!ClearRequests, ClearRequests,
       Checkpoint!NoRequest, NoRequest, Checkpoint!NoSnapshot, NoSnapshot,
       Checkpoint!IsWrite, IsWrite, Checkpoint!Invented, Invented, Checkpoint!Exhausted, Exhausted,
       Checkpoint!NextConversationVersion, NextConversationVersion, Checkpoint!Written, Written

\* A call that has started and has not learned its outcome.
Running == {"called", "begun", "locked", "prepared", "persisted", "committing"}

\* The mapping does not see steps within a call.
LEMMA WithinCall ==
    ASSUME Inv, NEW k \in Calls, NEW stage \in Running, pc[k] \in Running, Goto(k, stage),
           UNCHANGED <<row, req, seen, published, invented>>
    PROVE  UNCHANGED Checkpoint!vars
<1>1. Status' = Status /\ Effect' = Effect
  BY DEF Inv, TypeOK, Goto, Status, Effect, Done, Running
<1> QED
  BY <1>1 DEF row, Checkpoint!vars

\* A return with an error is the contract's.
LEMMA ErrorReturned ==
    ASSUME Inv, NEW k \in Calls, NEW result \in {"conflict", "failed", "unknown"},
           pc[k] \in Running \cup {"committed"}, Goto(k, result),
           UNCHANGED <<row, req, seen, published, invented>>
    PROVE  Checkpoint!Return(k, IF result = "unknown" THEN "failed" ELSE result)
<1>1. /\ Status' = [Status EXCEPT ![k] = IF result = "unknown" THEN "failed" ELSE result]
      /\ Status[k] = "open"
  BY DEF Inv, TypeOK, Goto, Status, Done, Running
<1>2. Effect' = Effect
  BY DEF Effect
<1> QED
  BY <1>1, <1>2 DEF row, Checkpoint!Return

LEMMA InvokeImplements ==
    ASSUME Inv, NEW k \in Calls, Invoke(k)
    PROVE  Checkpoint!Invoke(k)
<1> USE DEF Inv, Invoke, Goto, row
<1>1. Status[k] = "unused" /\ Status' = [Status EXCEPT ![k] = "open"]
  BY DEF TypeOK, Status, Done
<1>2. Effect' = Effect
  BY DEF Effect
<1> QED
  BY <1>1, <1>2, SameData DEF Checkpoint!Invoke

LEMMA LoadImplements ==
    ASSUME Inv, NEW k \in Calls, Load(k)
    PROVE  Checkpoint!Observe(k)
<1> USE DEF Inv, Load, Goto, row
<1>1. Status[k] = "open" /\ Status' = Status
  BY DEF TypeOK, Status, Done
<1>2. k \notin published /\ seen[k] = NoSnapshot /\ seen'[k] # NoSnapshot
  BY RowIsSnapshot DEF TypeOK, CallOK, EffectKnown
<1>3. Effect[k] = "none" /\ Effect' = [Effect EXCEPT ![k] = "observed"]
  BY <1>2 DEF TypeOK, Effect
<1> QED
  BY <1>1, <1>3 DEF Checkpoint!Observe

\* The write takes effect when the server commits, on the row that the
\* transaction has read.
LEMMA ServerCommitsImplements ==
    ASSUME Inv, NEW k \in Calls, ServerCommits(k)
    PROVE  Checkpoint!Publish(k)
<1> USE DEF Inv, ServerCommits, EndTx, Goto
<1>1. Status[k] \in {"open", "failed"} /\ Status' = Status
  BY DEF TypeOK, CallOK, CallWellFormed, Status, Done
<1>2. k \notin published /\ seen[k] = NoSnapshot /\ IsWrite(req[k])
  BY DEF CallOK, CallWellFormed, EffectKnown
<1>3. Effect[k] = "none" /\ Effect' = [Effect EXCEPT ![k] = "published"]
  BY <1>2 DEF TypeOK, Effect
<1>4. base[k].version = version /\ base[k].content = content
  BY DEF CallOK, HoldsRow, HeldRowCurrent
<1>5. /\ req[k].expected = version
      /\ ~Exhausted(version)
      /\ Written(content, req[k]) # Rejected
      /\ next[k] = Written(content, req[k])
  BY <1>4 DEF CallOK, LoadedExpected, ComputedFromLoaded
<1> QED
  BY <1>1, <1>2, <1>3, <1>4, <1>5, SameData DEF Checkpoint!Publish

LEMMA ReturnOkImplements ==
    ASSUME Inv, NEW k \in Calls, ReturnOk(k)
    PROVE  Checkpoint!ReturnOk(k)
<1> USE DEF Inv, ReturnOk, Goto, row
<1>1. Status[k] = "open" /\ Status' = [Status EXCEPT ![k] = "ok"]
  BY DEF TypeOK, Status, Done
<1>2. Effect[k] # "none" /\ Effect' = Effect
  BY DEF TypeOK, CallOK, EffectKnown, Effect
<1> QED
  BY <1>1, <1>2 DEF Checkpoint!ReturnOk, Checkpoint!Return

\* A conflict is reported only to a caller whose token is not the current
\* revision.
LEMMA ConflictReturned ==
    ASSUME Inv, NEW k \in Calls, pc[k] \in Running, IsWrite(req[k]), req[k].expected # version,
           Goto(k, "conflict"), UNCHANGED <<row, req, seen, published, invented>>
    PROVE  Checkpoint!Next
BY ErrorReturned, SameData DEF Checkpoint!ReturnConflict, Checkpoint!Next

LEMMA FailureReturned ==
    ASSUME Inv, NEW k \in Calls, NEW result \in {"failed", "unknown"}, pc[k] \in Running \cup {"committed"},
           Goto(k, result), UNCHANGED <<row, req, seen, published, invented>>
    PROVE  Checkpoint!Next
BY ErrorReturned DEF Checkpoint!ReturnFailed, Checkpoint!Next

LEMMA StepImplements == Inv /\ [Next]_vars => [Checkpoint!Next]_(Checkpoint!vars)
<1> SUFFICES ASSUME Inv, [Next]_vars
             PROVE  Checkpoint!Next \/ UNCHANGED Checkpoint!vars
  OBVIOUS
<1>1. ASSUME NEW k \in Calls, Invoke(k) \/ Load(k) \/ ServerCommits(k) \/ ReturnOk(k)
      PROVE  Checkpoint!Next
  BY <1>1, InvokeImplements, LoadImplements, ServerCommitsImplements, ReturnOkImplements DEF Checkpoint!Next
<1>2. ASSUME NEW k \in Calls, Begin(k) \/ SendCommit(k)
      PROVE  UNCHANGED Checkpoint!vars
  BY <1>2, WithinCall DEF Begin, SendCommit, Running
<1>3. ASSUME NEW k \in Calls, LoadLocked(k)
      PROVE  Checkpoint!Next \/ UNCHANGED Checkpoint!vars
  <2>1. pc[k] \in Running /\ IsWrite(req[k])
    BY <1>3 DEF LoadLocked, Inv, CallOK, CallWellFormed, Running
  <2> QED
    BY <1>3, <2>1, ConflictReturned, WithinCall DEF LoadLocked, Running
<1>4. ASSUME NEW k \in Calls, PrepareMutation(k)
      PROVE  Checkpoint!Next \/ UNCHANGED Checkpoint!vars
  BY <1>4, FailureReturned, WithinCall DEF PrepareMutation, Running
<1>5. ASSUME NEW k \in Calls, PersistUpdate(k) \/ PersistInsert(k)
      PROVE  Checkpoint!Next \/ UNCHANGED Checkpoint!vars
  <2>1. pc[k] \in Running /\ IsWrite(req[k]) /\ base[k].version = req[k].expected
    BY <1>5 DEF PersistUpdate, PersistInsert, Inv, CallOK, CallWellFormed, LoadedExpected, Running
  <2>2. UNCHANGED <<row, req, seen, published, invented>>
    BY <1>5 DEF PersistUpdate, PersistInsert
  <2>3. CASE Goto(k, "persisted")
    BY <2>1, <2>2, <2>3, WithinCall DEF Running
  <2>4. CASE Goto(k, "conflict") /\ req[k].expected # version
    BY <2>1, <2>2, <2>4, ConflictReturned
  <2> QED
    BY <1>5, <2>1, <2>3, <2>4 DEF PersistUpdate, PersistInsert
<1>6. ASSUME NEW k \in Calls, ServerAborts(k)
      PROVE  Checkpoint!Next \/ UNCHANGED Checkpoint!vars
  <2>1. CASE pc[k] = "committing"
    BY <1>6, <2>1, FailureReturned DEF ServerAborts, Running
  <2>2. CASE pc[k] # "committing"
    BY <1>6, <2>2 DEF ServerAborts, row, Checkpoint!vars, Status, Effect
  <2> QED
    BY <2>1, <2>2
<1>7. ASSUME NEW k \in Calls, ConnectionLost(k)
      PROVE  Checkpoint!Next
  <2>1. pc[k] \in Running \cup {"committed"}
    BY <1>7 DEF ConnectionLost, Running, Stages, Done
  <2> QED
    BY <1>7, <2>1, FailureReturned DEF ConnectionLost
<1>8. CASE UNCHANGED vars
  BY <1>8 DEF vars, Checkpoint!vars, Status, Effect
<1> QED
  BY <1>1, <1>2, <1>3, <1>4, <1>5, <1>6, <1>7, <1>8 DEF Next, Lock, Step, Server

\* The Postgres store implements the checkpoint store contract, with lost
\* connections, the race of first writers and commits nobody waits for.
THEOREM PostgresStoreImplements == Spec => Implements
<1>1. Init => Checkpoint!Init
  BY SameData DEF Init, Checkpoint!Init, Status, Effect, Done
<1>2. Inv /\ [Next]_vars => [Checkpoint!Next]_(Checkpoint!vars)
  BY StepImplements
<1> QED
  BY <1>1, <1>2, InvHolds, PTL DEF Spec, Implements, Checkpoint!Spec


-----------------------------------------------------------------------------
(* The Redis store, with its keys; the calls, their arguments and what they   *)
(* know have the names they have above.                                      *)

CONSTANT Modes
VARIABLES ver, data, ttl, scripts, mode, lost
Redis == INSTANCE RedisStore

-----------------------------------------------------------------------------
(* The inductive invariant of the Redis store *)

RedisStages == {"unused", "loading", "loaded", "observed", "writing", "written"} \cup Redis!Done
RedisPayloads == {Redis!NoPayload, Redis!Tombstone} \cup {Redis!Payload(c) : c \in Contents}

RedisTypeOK ==
    /\ ver \in Redis!Versions
    /\ data \in RedisPayloads
    /\ ttl \in {"none", "running"}
    /\ scripts \in SUBSET (Calls \X Redis!ScriptKinds)
    /\ pc \in [Calls -> RedisStages]
    /\ req \in [Calls -> Redis!Requests \cup {Redis!NoRequest}]
    /\ mode \in [Calls -> Modes \cup {Redis!NoMode}]
    /\ base \in [Calls -> Redis!Snapshots \cup {Redis!NoSnapshot}]
    /\ next \in [Calls -> Contents]
    /\ seen \in [Calls -> Redis!Snapshots \cup {Redis!NoSnapshot}]
    /\ published \in SUBSET Calls
    /\ lost \in Contents
    /\ invented \in SUBSET Calls

\* Only a content expires, and there is no payload before the first revision.
RedisKeysConsistent ==
    /\ ver = 0 => data = Redis!NoPayload
    /\ ttl = "running" => data.kind = "content"

\* A call that was made has arguments, and is where a call with its arguments
\* can be; nothing is on its way for a call not made.
RedisCallWellFormed(k) ==
    /\ pc[k] # "unused" => req[k] \in Redis!Requests
    /\ pc[k] = "unused" => seen[k] = Redis!NoSnapshot
    /\ pc[k] = "loading" => ~(req[k].op = "clear") /\ seen[k] = Redis!NoSnapshot
    /\ pc[k] = "loaded" => req[k].op = "commit" /\ base[k] \in Redis!Snapshots
    /\ pc[k] \in {"writing", "written"} => Redis!IsWrite(req[k])

\* Copies of a write script are sent only once its call is past the loading,
\* so nothing they carry changes any more.
RedisScriptsBehind(k) ==
    /\ <<k, "load">> \in scripts => pc[k] # "unused"
    /\ <<k, "write">> \in scripts =>
         pc[k] \notin {"unused", "loading", "loaded", "observed"} /\ Redis!IsWrite(req[k])

\* What a call has done so far, and that a caller is told of success only then.
RedisEffectKnown(k) ==
    /\ k \in published => /\ pc[k] \notin {"unused", "loading", "loaded", "observed"}
                          /\ Redis!IsWrite(req[k])
                          /\ req[k].expected < Redis!Version
    /\ seen[k] # Redis!NoSnapshot => req[k].op = "load"
    /\ pc[k] = "written" => k \in published
    /\ pc[k] = "observed" => seen[k] # Redis!NoSnapshot
    /\ pc[k] = "ok" => k \in published \/ seen[k] # Redis!NoSnapshot

\* A token that was not invented has been issued.
RedisTokenIssued(k) ==
    pc[k] # "unused" /\ Redis!IsWrite(req[k]) /\ k \notin invented => req[k].expected <= Redis!Version

\* The snapshot a commit has loaded is the store's as long as the revision is
\* the loaded one, and its token is no newer than it unless it was invented.
RedisBaseOfRevision(k) ==
    base[k] \in Redis!Snapshots =>
        /\ pc[k] # "unused"
        /\ base[k].version <= Redis!Version
        /\ base[k].version = Redis!Version => base[k].content = Redis!Content
        /\ Redis!IsWrite(req[k]) /\ k \notin invented => req[k].expected <= base[k].version

\* A commit's write script carries the batch applied to what was loaded at the
\* token's revision.
RedisScriptFromBase(k) ==
    <<k, "write">> \in scripts /\ req[k].op = "commit" =>
        /\ base[k] \in Redis!Snapshots
        /\ base[k].version = req[k].expected
        /\ next[k] = Redis!Written(base[k].content, req[k])
        /\ next[k] # Rejected

RedisCallOK(k) ==
    /\ RedisCallWellFormed(k)
    /\ RedisScriptsBehind(k)
    /\ RedisEffectKnown(k)
    /\ RedisTokenIssued(k)
    /\ RedisBaseOfRevision(k)
    /\ RedisScriptFromBase(k)

\* The conjunction that every step preserves.
RedisInv == RedisTypeOK /\ RedisKeysConsistent /\ \A k \in Calls : RedisCallOK(k)

-----------------------------------------------------------------------------
(* Requests, payloads and revisions *)

\* A request that is not a write is a load, and writes carry a token.
LEMMA RedisRequestKinds ==
    ASSUME NEW r \in Redis!Requests
    PROVE  /\ r.op \in {"load", "commit", "clear"}
           /\ r.op = "load" <=> ~Redis!IsWrite(r)
           /\ Redis!IsWrite(r) => r.expected \in Redis!Versions
BY TokensAssumption
DEF Versions, Redis!Versions, Redis!Requests, Redis!LoadRequests, Redis!CommitRequests,
    Redis!ClearRequests, Redis!IsWrite

\* Advancing a revision that is not the last one stays within the revisions.
LEMMA RedisNextVersionType ==
    ASSUME NEW v \in Redis!Versions, ~Redis!Exhausted(v)
    PROVE  Redis!NextConversationVersion(v) \in Redis!Versions /\ Redis!NextConversationVersion(v) > v
BY MaxVersionAssumption DEF Redis!Versions, Redis!Exhausted, Redis!NextConversationVersion

\* A write that is not rejected publishes a content.
LEMMA RedisWrittenType ==
    ASSUME NEW c \in Contents, NEW r \in Redis!Requests, Redis!IsWrite(r),
           Redis!Written(c, r) # Rejected
    PROVE  Redis!Written(c, r) \in Contents
<1>1. CASE r \in Redis!CommitRequests
  BY <1>1, EmptyContentAssumption, ApplyBatchAssumption DEF Redis!Written, Redis!CommitRequests
<1>2. CASE r \in Redis!ClearRequests
  BY <1>2, EmptyContentAssumption DEF Redis!Written, Redis!ClearRequests
<1>3. CASE r \in Redis!LoadRequests
  BY <1>3 DEF Redis!LoadRequests, Redis!IsWrite
<1> QED
  BY <1>1, <1>2, <1>3 DEF Redis!Requests

\* The three payloads are told apart and decode as they should.
LEMMA RedisPayloadKinds ==
    /\ Redis!NoPayload \in RedisPayloads /\ Redis!Decode(Redis!NoPayload) = EmptyContent
    /\ Redis!Tombstone \in RedisPayloads /\ Redis!Decode(Redis!Tombstone) = EmptyContent
    /\ Redis!Tombstone # Redis!NoPayload
    /\ \A c \in Contents : /\ Redis!Payload(c) \in RedisPayloads
                           /\ Redis!Decode(Redis!Payload(c)) = c
                           /\ Redis!Payload(c) # Redis!NoPayload
                           /\ Redis!Payload(c).kind = "content"
    /\ \A d \in RedisPayloads : Redis!Decode(d) \in Contents
    /\ \A d \in RedisPayloads : d.kind = "content" => d # Redis!NoPayload
<1> USE EmptyContentAssumption DEF Redis!NoPayload, Redis!Tombstone, Redis!Payload, Redis!Decode
<1>1. /\ Redis!NoPayload \in RedisPayloads /\ Redis!Decode(Redis!NoPayload) = EmptyContent
      /\ Redis!Tombstone \in RedisPayloads /\ Redis!Decode(Redis!Tombstone) = EmptyContent
  BY DEF RedisPayloads
<1>2. Redis!Tombstone.kind # Redis!NoPayload.kind
  OBVIOUS
<1>3. ASSUME NEW c \in Contents
      PROVE  /\ Redis!Payload(c) \in RedisPayloads
             /\ Redis!Decode(Redis!Payload(c)) = c
             /\ Redis!Payload(c).kind = "content"
  BY DEF RedisPayloads
<1>4. ASSUME NEW d \in RedisPayloads
      PROVE  /\ Redis!Decode(d) \in Contents
             /\ d.kind = "content" => d # Redis!NoPayload
  BY <1>1, <1>3 DEF RedisPayloads
<1>5. \A c \in Contents : Redis!Payload(c) # Redis!NoPayload
  BY <1>3, <1>4
<1> QED
  BY <1>1, <1>2, <1>3, <1>4, <1>5

\* The abstract revision and content are of their types.
LEMMA RedisMappedType ==
    ASSUME RedisInv
    PROVE  Redis!Version \in Redis!Versions /\ Redis!Content \in Contents
BY RedisNextVersionType, RedisPayloadKinds DEF RedisInv, RedisTypeOK, Redis!Version, Redis!Content

-----------------------------------------------------------------------------
(* What the scripts do to the keys *)

\* The abstract revision grows or the abstract content stays.
RedisAdvances ==
    \/ Redis!Version' > Redis!Version
    \/ Redis!Version' = Redis!Version /\ Redis!Content' = Redis!Content

\* The keys a script goes on with, once luaState has let it, are the keys the
\* mapping already counts on.
LEMMA RedisPreludeMapped ==
    ASSUME RedisInv, NEW m, ~Redis!StateError(m)
    PROVE  /\ Redis!StateVer = Redis!Version
           /\ Redis!Decode(Redis!StateData) = Redis!Content
           /\ Redis!StateVer \in Redis!Versions
           /\ Redis!StateData \in RedisPayloads
           /\ Redis!StateTtl \in {"none", "running"}
           /\ Redis!StateVer = 0 => Redis!StateData = Redis!NoPayload
           /\ Redis!StateTtl = "running" => Redis!StateData.kind = "content"
           /\ Redis!StateVer # 0 => Redis!StateData # Redis!NoPayload
BY RedisPayloadKinds, RedisNextVersionType, RedisMappedType
DEF RedisInv, RedisTypeOK, RedisKeysConsistent, Redis!StateError, Redis!StateVer, Redis!StateData, Redis!StateTtl, Redis!Missing, Redis!Version, Redis!Content, Redis!Versions,
    Redis!NextConversationVersion

\* A script that only leaves the prelude's keys changes nothing the mapping sees.
LEMMA RedisPreludeWritten ==
    ASSUME RedisInv, NEW m, ~Redis!StateError(m), Redis!SetKeys(Redis!StateVer, Redis!StateData, Redis!StateTtl)
    PROVE  /\ Redis!Version' = Redis!Version /\ Redis!Content' = Redis!Content
           /\ ver' \in Redis!Versions /\ data' \in RedisPayloads /\ ttl' \in {"none", "running"}
           /\ RedisKeysConsistent'
<1> USE RedisPreludeMapped DEF Redis!SetKeys
<1>1. ~Redis!Missing'
  BY DEF Redis!Missing
<1> QED
  BY <1>1 DEF Redis!Version, Redis!Content, RedisKeysConsistent

\* A write that goes through advances the revision and leaves its payload.
LEMMA RedisWriteMapped ==
    ASSUME RedisInv, NEW d \in RedisPayloads, d # Redis!NoPayload, ~Redis!Exhausted(Redis!Version),
           NEW t \in {"none", "running"}, t = "running" => d.kind = "content",
           Redis!SetKeys(Redis!NextConversationVersion(Redis!Version), d, t)
    PROVE  /\ Redis!Version' = Redis!NextConversationVersion(Redis!Version) /\ Redis!Content' = Redis!Decode(d)
           /\ ver' \in Redis!Versions /\ data' \in RedisPayloads /\ ttl' \in {"none", "running"}
           /\ RedisKeysConsistent'
           /\ Redis!Version' > Redis!Version
<1> USE DEF Redis!SetKeys
<1>1. ver' \in Redis!Versions /\ ver' > Redis!Version /\ Redis!Version \in Redis!Versions
  BY RedisMappedType, RedisNextVersionType
<1>2. ~Redis!Missing' /\ ver' # 0
  BY <1>1 DEF Redis!Missing, Redis!Versions
<1> QED
  BY <1>1, <1>2 DEF Redis!Version, Redis!Content, RedisKeysConsistent

-----------------------------------------------------------------------------
(* Every step preserves the invariant *)

\* A call that a step leaves alone stays as it should be while the store
\* advances.
LEMMA RedisOtherCall ==
    ASSUME RedisInv, NEW j \in Calls,
           RedisAdvances, Redis!Version' \in Redis!Versions,
           pc'[j] = pc[j], req'[j] = req[j], base'[j] = base[j],
           next'[j] = next[j], seen'[j] = seen[j],
           \A kind \in Redis!ScriptKinds : <<j, kind>> \in scripts' => <<j, kind>> \in scripts,
           j \in published' <=> j \in published,
           j \in invented' <=> j \in invented
    PROVE  RedisCallOK(j)'
<1>1. Redis!Version \in Redis!Versions
  BY RedisMappedType
<1>2. pc[j] # "unused" /\ Redis!IsWrite(req[j]) => req[j].expected \in Redis!Versions
  BY RedisRequestKinds DEF RedisInv, RedisCallOK, RedisCallWellFormed
<1>3. base[j] \in Redis!Snapshots => base[j].version \in Redis!Versions
  BY DEF Redis!Snapshots
<1>4. RedisCallWellFormed(j)' /\ RedisScriptsBehind(j)' /\ RedisScriptFromBase(j)'
  BY DEF RedisInv, RedisCallOK, RedisCallWellFormed, RedisScriptsBehind, RedisScriptFromBase, Redis!ScriptKinds
<1>5. RedisEffectKnown(j)' /\ RedisTokenIssued(j)'
  BY <1>1, <1>2 DEF RedisInv, RedisCallOK, RedisEffectKnown, RedisTokenIssued, RedisAdvances, Redis!Versions
<1>6. RedisBaseOfRevision(j)'
  BY <1>1, <1>2, <1>3 DEF RedisInv, RedisCallOK, RedisBaseOfRevision, RedisAdvances, Redis!Versions
<1> QED
  BY <1>4, <1>5, <1>6 DEF RedisCallOK

LEMMA RedisInitInv == Redis!Init => RedisInv
<1> SUFFICES ASSUME Redis!Init PROVE RedisInv
  OBVIOUS
<1>1. RedisTypeOK /\ RedisKeysConsistent
  BY RedisPayloadKinds, EmptyContentAssumption, MaxVersionAssumption
  DEF Redis!Init, RedisTypeOK, RedisKeysConsistent, Redis!Versions, RedisStages, Redis!Done
<1>2. Redis!NoSnapshot \notin Redis!Snapshots
  BY DEF Redis!NoSnapshot, Redis!Snapshots, Redis!Versions
<1>3. ASSUME NEW k \in Calls PROVE RedisCallOK(k)
  BY <1>2
  DEF Redis!Init, RedisCallOK, RedisCallWellFormed, RedisScriptsBehind, RedisEffectKnown,
      RedisTokenIssued, RedisBaseOfRevision, RedisScriptFromBase
<1> QED
  BY <1>1, <1>3 DEF RedisInv

LEMMA RedisExpiresInv ==
    ASSUME RedisInv, Redis!PayloadExpires
    PROVE  RedisInv' /\ RedisAdvances
<1> USE DEF RedisInv, Redis!PayloadExpires
<1>1. RedisTypeOK' /\ RedisKeysConsistent'
  BY RedisPayloadKinds DEF RedisTypeOK, RedisKeysConsistent
<1>2. ~Redis!Missing /\ Redis!Missing'
  BY RedisPayloadKinds DEF RedisTypeOK, RedisKeysConsistent, Redis!Missing
<1>3. RedisAdvances /\ Redis!Version' \in Redis!Versions
  BY <1>2, RedisPayloadKinds, RedisNextVersionType DEF RedisTypeOK, RedisAdvances, Redis!Version, Redis!Content
<1>4. \A k \in Calls : RedisCallOK(k)'
  BY <1>3, RedisOtherCall
<1> QED
  BY <1>1, <1>3, <1>4

\* A reply moves its own call at most, and takes its own script away at most.
LEMMA RedisReplyEffect ==
    ASSUME RedisTypeOK, NEW k \in Calls, NEW kind \in Redis!ScriptKinds, NEW stage \in RedisStages, Redis!Reply(k, kind, stage)
    PROVE  /\ pc' \in [Calls -> RedisStages]
           /\ scripts' \in SUBSET (Calls \X Redis!ScriptKinds)
           /\ scripts' \subseteq scripts
           /\ \A j \in Calls \ {k} : pc'[j] = pc[j]
           /\ pc'[k] # pc[k] => /\ pc'[k] = stage
                                /\ pc[k] = IF kind = "load" THEN "loading" ELSE "writing"
           /\ pc'[k] = pc[k] => pc' = pc
           /\ pc'[k] # pc[k] => pc' = [pc EXCEPT ![k] = stage]
BY DEF RedisTypeOK, Redis!Reply

\* A script that tells its caller of an error, or tells it nothing, keeps the
\* invariant: nothing is said of calls that returned an error.
LEMMA RedisErrorReplyInv ==
    ASSUME RedisInv, NEW k \in Calls, NEW kind \in Redis!ScriptKinds, NEW stage \in {"conflict", "failed"},
           Redis!Reply(k, kind, stage), Redis!Version' = Redis!Version, Redis!Content' = Redis!Content,
           ver' \in Redis!Versions, data' \in RedisPayloads, ttl' \in {"none", "running"}, RedisKeysConsistent',
           UNCHANGED <<req, mode, base, next, seen, Redis!ghosts>>
    PROVE  RedisInv'
<1> USE DEF RedisInv, Redis!ghosts
<1>1. stage \in RedisStages
  BY DEF RedisStages, Redis!Done
<1>2. RedisTypeOK'
  BY <1>1, RedisReplyEffect DEF RedisTypeOK
<1>3. ASSUME NEW j \in Calls, j # k \/ pc'[k] = pc[k]
      PROVE  RedisCallOK(j)'
  BY <1>1, <1>3, RedisReplyEffect, RedisOtherCall, RedisMappedType DEF RedisAdvances
<1>4. CASE pc'[k] # pc[k]
  <2>1. /\ pc'[k] = stage /\ pc[k] \in {"loading", "writing"}
        /\ scripts' \subseteq scripts
    BY <1>1, <1>4, RedisReplyEffect
  <2>2. RedisCallOK(k)'
    BY <2>1
    DEF RedisCallOK, RedisCallWellFormed, RedisScriptsBehind, RedisEffectKnown, RedisTokenIssued,
        RedisBaseOfRevision, RedisScriptFromBase
  <2> QED
    BY <1>2, <1>3, <2>2
<1> QED
  BY <1>2, <1>3, <1>4

LEMMA RedisScriptFailsInv ==
    ASSUME RedisInv, NEW k \in Calls, NEW kind \in Redis!ScriptKinds, Redis!ScriptFails(k, kind)
    PROVE  RedisInv'
<1>1. Redis!Version' = Redis!Version /\ Redis!Content' = Redis!Content /\ RedisKeysConsistent'
  BY DEF RedisInv, Redis!ScriptFails, Redis!keys, Redis!ghosts, Redis!Version, Redis!Content,
         Redis!Missing, RedisKeysConsistent
<1> QED
  BY <1>1, RedisErrorReplyInv DEF Redis!ScriptFails, Redis!keys, RedisInv, RedisTypeOK

LEMMA RedisRunConflictInv ==
    ASSUME RedisInv, NEW k \in Calls, Redis!RunConflict(k) \/ Redis!RunExhausted(k)
    PROVE  RedisInv'
BY RedisPreludeWritten, RedisErrorReplyInv DEF Redis!RunConflict, Redis!RunExhausted, Redis!ScriptKinds

\* The answer of a load is the store's revision and content, and a token that
\* was issued is no newer.
LEMMA RedisRunLoadInv ==
    ASSUME RedisInv, NEW k \in Calls, Redis!RunLoad(k)
    PROVE  RedisInv'
<1> DEFINE answer == [version |-> Redis!StateVer, content |-> Redis!Decode(Redis!StateData)]
           stage == IF req[k].op = "commit" THEN "loaded" ELSE "observed"
<1> USE DEF RedisInv, Redis!ghosts
<1>1. /\ Redis!Version' = Redis!Version /\ Redis!Content' = Redis!Content /\ RedisKeysConsistent'
      /\ ver' \in Redis!Versions /\ data' \in RedisPayloads /\ ttl' \in {"none", "running"}
  BY RedisPreludeWritten DEF Redis!RunLoad
<1>2. answer \in Redis!Snapshots /\ answer.version = Redis!Version /\ answer.content = Redis!Content
  BY RedisPreludeMapped, RedisMappedType DEF Redis!RunLoad, Redis!Snapshots
<1>3. Redis!Reply(k, "load", stage) /\ stage \in RedisStages /\ "load" \in Redis!ScriptKinds
  BY DEF Redis!RunLoad, RedisStages, Redis!ScriptKinds
<1> HIDE DEF answer, stage
<1>4. /\ base' = IF req[k].op = "commit" /\ pc'[k] # pc[k] THEN [base EXCEPT ![k] = answer] ELSE base
      /\ seen' = IF req[k].op # "commit" /\ pc'[k] # pc[k] THEN [seen EXCEPT ![k] = answer] ELSE seen
  BY DEF Redis!RunLoad, answer
<1>5. RedisTypeOK'
  BY <1>1, <1>2, <1>3, <1>4, RedisReplyEffect DEF RedisTypeOK, Redis!RunLoad
<1>6. ASSUME NEW j \in Calls, j # k \/ pc'[k] = pc[k]
      PROVE  RedisCallOK(j)'
  <2>1. pc'[j] = pc[j] /\ scripts' \subseteq scripts
    BY <1>3, <1>6, RedisReplyEffect
  <2>2. base'[j] = base[j] /\ seen'[j] = seen[j]
    BY <1>4, <1>6 DEF RedisTypeOK
  <2> QED
    BY <1>1, <2>1, <2>2, RedisOtherCall, RedisMappedType DEF RedisAdvances, Redis!RunLoad
<1>7. CASE pc'[k] # pc[k]
  <2>1. /\ pc'[k] = stage /\ pc[k] = "loading" /\ scripts' \subseteq scripts
    BY <1>3, <1>7, RedisReplyEffect
  <2>2. <<k, "write">> \notin scripts' /\ k \notin published /\ req[k] \in Redis!Requests /\ seen[k] = Redis!NoSnapshot
    BY <2>1, RedisRequestKinds, RedisMappedType
    DEF RedisCallOK, RedisCallWellFormed, RedisScriptsBehind, RedisEffectKnown
  <2>3. ASSUME req[k].op = "commit" PROVE RedisCallOK(k)'
    <3>1. base'[k] = answer /\ seen'[k] = seen[k] /\ pc'[k] = "loaded"
      BY <1>4, <1>7, <2>1, <2>3 DEF RedisTypeOK, stage
    <3>2. RedisCallWellFormed(k)' /\ RedisScriptsBehind(k)' /\ RedisEffectKnown(k)' /\ RedisTokenIssued(k)' /\ RedisScriptFromBase(k)'
      BY <1>1, <1>2, <2>1, <2>2, <2>3, <3>1
     
      DEF Redis!RunLoad, RedisCallOK, RedisCallWellFormed, RedisScriptsBehind, RedisEffectKnown,
          RedisTokenIssued, RedisScriptFromBase, RedisStages
    <3>3. RedisBaseOfRevision(k)'
      BY <1>1, <1>2, <2>1, <3>1, RedisMappedType
      DEF Redis!RunLoad, RedisCallOK, RedisTokenIssued, RedisBaseOfRevision, Redis!Versions
    <3> QED
      BY <3>2, <3>3 DEF RedisCallOK
  <2>4. ASSUME req[k].op # "commit" PROVE RedisCallOK(k)'
    <3>1. base'[k] = base[k] /\ seen'[k] = answer /\ pc'[k] = "observed"
      BY <1>4, <1>7, <2>1, <2>4 DEF RedisTypeOK, stage
    <3>2. req[k].op = "load" /\ ~Redis!IsWrite(req[k])
      BY <2>1, <2>2, <2>4, RedisRequestKinds DEF RedisCallOK, RedisCallWellFormed
    <3>3. answer # Redis!NoSnapshot
      BY <1>2 DEF Redis!NoSnapshot, Redis!Snapshots, Redis!Versions
    <3>4. RedisCallWellFormed(k)' /\ RedisScriptsBehind(k)' /\ RedisEffectKnown(k)' /\ RedisTokenIssued(k)' /\ RedisScriptFromBase(k)'
      BY <1>1, <2>1, <2>2, <3>1, <3>2, <3>3
     
      DEF Redis!RunLoad, RedisCallOK, RedisCallWellFormed, RedisScriptsBehind, RedisEffectKnown,
          RedisTokenIssued, RedisScriptFromBase
    <3>5. RedisBaseOfRevision(k)'
      BY <1>1, <2>1, <3>1, <3>2 DEF Redis!RunLoad, RedisCallOK, RedisBaseOfRevision
    <3> QED
      BY <3>4, <3>5 DEF RedisCallOK
  <2>5. RedisCallOK(k)'
    BY <2>3, <2>4
  <2> QED
    BY <1>1, <1>5, <1>6, <2>5
<1>8. CASE pc'[k] = pc[k]
  BY <1>1, <1>5, <1>6, <1>8
<1> QED
  BY <1>7, <1>8

\* A write that goes through had its token equal to the revision, which it
\* leaves behind; the content it carries is a content.
LEMMA RedisRunWriteInv ==
    ASSUME RedisInv, NEW k \in Calls, Redis!RunWrite(k)
    PROVE  /\ RedisInv'
           /\ Redis!Version' = Redis!NextConversationVersion(Redis!Version)
           /\ Redis!Content' = IF req[k].op = "clear" THEN EmptyContent ELSE next[k]
<1> DEFINE d == IF req[k].op = "clear" THEN Redis!Tombstone ELSE Redis!Payload(next[k])
           t == IF req[k].op # "clear" /\ mode[k] = "ttl" THEN "running" ELSE "none"
<1> USE DEF RedisInv, Redis!ghosts
<1>1. Redis!StateVer = Redis!Version /\ ~Redis!Exhausted(Redis!Version) /\ req[k].expected = Redis!Version
  BY RedisPreludeMapped DEF Redis!RunWrite
<1>2. /\ d \in RedisPayloads /\ d # Redis!NoPayload /\ t \in {"none", "running"}
      /\ t = "running" => d.kind = "content"
      /\ Redis!Decode(d) = IF req[k].op = "clear" THEN EmptyContent ELSE next[k]
  BY RedisPayloadKinds DEF RedisTypeOK
<1>3. Redis!SetKeys(Redis!NextConversationVersion(Redis!Version), d, t)
  BY <1>1 DEF Redis!RunWrite
<1> HIDE DEF d, t
<1>4. /\ Redis!Version' = Redis!NextConversationVersion(Redis!Version) /\ Redis!Content' = Redis!Decode(d)
      /\ ver' \in Redis!Versions /\ data' \in RedisPayloads /\ ttl' \in {"none", "running"}
      /\ RedisKeysConsistent' /\ Redis!Version' > Redis!Version
  BY <1>1, <1>2, <1>3, RedisWriteMapped
<1>5. Redis!Version' \in Redis!Versions /\ Redis!Version \in Redis!Versions
  BY <1>1, <1>4, RedisMappedType, RedisNextVersionType
<1>6. /\ pc' \in [Calls -> RedisStages]
      /\ scripts' \in SUBSET (Calls \X Redis!ScriptKinds)
      /\ scripts' \subseteq scripts
      /\ \A j \in Calls \ {k} : pc'[j] = pc[j]
      /\ pc'[k] # pc[k] => pc'[k] = "written" /\ pc[k] = "writing"
  BY RedisReplyEffect DEF Redis!RunWrite, RedisStages, Redis!ScriptKinds
<1>7. RedisTypeOK'
  BY <1>4, <1>6 DEF RedisTypeOK, Redis!RunWrite
<1>8. ASSUME NEW j \in Calls, j # k
      PROVE  RedisCallOK(j)'
  BY <1>4, <1>5, <1>6, <1>8, RedisOtherCall DEF RedisAdvances, Redis!RunWrite
<1>9. RedisCallOK(k)'
  <2>1. pc[k] \notin {"unused", "loading", "loaded", "observed"} /\ Redis!IsWrite(req[k])
    BY DEF Redis!RunWrite, RedisCallOK, RedisScriptsBehind
  <2>2. RedisCallWellFormed(k)' /\ RedisScriptsBehind(k)' /\ RedisEffectKnown(k)' /\ RedisTokenIssued(k)' /\ RedisScriptFromBase(k)'
    BY <1>1, <1>4, <1>5, <1>6, <2>1
   
    DEF Redis!RunWrite, RedisCallOK, RedisCallWellFormed, RedisScriptsBehind, RedisEffectKnown,
        RedisTokenIssued, RedisScriptFromBase, Redis!Versions
  <2>3. base[k] \in Redis!Snapshots => base[k].version \in Redis!Versions
    BY DEF Redis!Snapshots
  <2>4. RedisBaseOfRevision(k)'
    BY <1>4, <1>5, <1>6, <2>1, <2>3 DEF Redis!RunWrite, RedisCallOK, RedisBaseOfRevision, Redis!Versions
  <2> QED
    BY <2>2, <2>4 DEF RedisCallOK
<1>10. \A j \in Calls : RedisCallOK(j)'
  BY <1>8, <1>9
<1> QED
  BY <1>2, <1>4, <1>7, <1>10

LEMMA RedisInvokeInv ==
    ASSUME RedisInv, NEW k \in Calls, Redis!Invoke(k)
    PROVE  RedisInv'
<1> USE DEF RedisInv
<1>1. PICK r \in Redis!Requests, m \in Modes :
        /\ req' = [req EXCEPT ![k] = r]
        /\ mode' = [mode EXCEPT ![k] = m]
        /\ invented' = IF Redis!Invented(r, Redis!Version) THEN invented \cup {k} ELSE invented
        /\ IF r.op = "clear"
           THEN /\ pc' = [pc EXCEPT ![k] = "writing"]
                /\ scripts' = scripts \cup {<<k, "write">>}
           ELSE /\ pc' = [pc EXCEPT ![k] = "loading"]
                /\ scripts' = scripts \cup {<<k, "load">>}
  BY DEF Redis!Invoke
<1>2. /\ UNCHANGED <<ver, data, ttl, base, next, seen, published, lost>>
      /\ pc[k] = "unused"
  BY DEF Redis!Invoke, Redis!keys
<1>3. RedisTypeOK' /\ RedisKeysConsistent'
  BY <1>1, <1>2 DEF RedisTypeOK, RedisKeysConsistent, RedisStages, Redis!ScriptKinds
<1>4. Redis!Version' = Redis!Version /\ Redis!Content' = Redis!Content /\ Redis!Version \in Redis!Versions
  BY <1>2, RedisMappedType DEF Redis!Version, Redis!Content, Redis!Missing
<1>5. ASSUME NEW j \in Calls, j # k
      PROVE  RedisCallOK(j)'
  <2>1. \A kind \in Redis!ScriptKinds : <<j, kind>> \in scripts' => <<j, kind>> \in scripts
    BY <1>1, <1>5
  <2>2. pc'[j] = pc[j] /\ req'[j] = req[j] /\ (j \in invented' <=> j \in invented)
    BY <1>1, <1>5 DEF RedisTypeOK
  <2> QED
    BY <1>2, <1>4, <2>1, <2>2, RedisOtherCall DEF RedisAdvances
<1>6. RedisCallOK(k)'
  <2>1. req'[k] = r /\ (Redis!IsWrite(r) => r.expected \in Redis!Versions)
    BY <1>1, RedisRequestKinds DEF RedisTypeOK
  <2>2. /\ pc'[k] = IF r.op = "clear" THEN "writing" ELSE "loading"
        /\ seen[k] = Redis!NoSnapshot /\ base[k] \notin Redis!Snapshots /\ k \notin published
        /\ <<k, "load">> \notin scripts /\ <<k, "write">> \notin scripts
    BY <1>1, <1>2
    DEF RedisTypeOK, RedisCallOK, RedisCallWellFormed, RedisScriptsBehind, RedisEffectKnown,
        RedisBaseOfRevision
  <2>3. <<k, "write">> \in scripts' => r.op = "clear"
    BY <1>1, <2>2
  <2>4. RedisCallWellFormed(k)' /\ RedisScriptsBehind(k)' /\ RedisEffectKnown(k)' /\ RedisBaseOfRevision(k)' /\ RedisScriptFromBase(k)'
    BY <1>2, <2>1, <2>2, <2>3
   
    DEF RedisCallWellFormed, RedisScriptsBehind, RedisEffectKnown, RedisBaseOfRevision,
        RedisScriptFromBase, Redis!IsWrite
  <2>5. RedisTokenIssued(k)'
    BY <1>1, <1>4, <2>1 DEF RedisTokenIssued, Redis!Invented, Redis!Versions
  <2> QED
    BY <2>4, <2>5 DEF RedisCallOK
<1> QED
  BY <1>3, <1>5, <1>6

LEMMA RedisPrepareWriteInv ==
    ASSUME RedisInv, NEW k \in Calls, Redis!PrepareWrite(k)
    PROVE  RedisInv'
<1> DEFINE result == Redis!Written(base[k].content, req[k])
           sends == /\ base[k].version = req[k].expected
                    /\ result # Rejected
                    /\ next' = [next EXCEPT ![k] = result]
                    /\ pc' = [pc EXCEPT ![k] = "writing"]
                    /\ scripts' = scripts \cup {<<k, "write">>}
           stops == /\ \/ pc' = [pc EXCEPT ![k] = "conflict"]
                       \/ pc' = [pc EXCEPT ![k] = "failed"]
                    /\ UNCHANGED <<next, scripts>>
<1> USE DEF RedisInv
<1>1. /\ UNCHANGED <<ver, data, ttl, req, mode, base, seen, published, lost, invented>>
      /\ pc[k] = "loaded"
  BY DEF Redis!PrepareWrite, Redis!keys, Redis!ghosts
<1>2. sends \/ stops
  BY DEF Redis!PrepareWrite
<1>3. req[k] \in Redis!Requests /\ req[k].op = "commit" /\ Redis!IsWrite(req[k]) /\ base[k] \in Redis!Snapshots
  BY <1>1, RedisRequestKinds DEF RedisCallOK, RedisCallWellFormed, Redis!IsWrite
<1>4. sends => result \in Contents
  BY <1>3, RedisWrittenType DEF Redis!Snapshots
<1> HIDE DEF result
<1>5. RedisTypeOK' /\ RedisKeysConsistent'
  BY <1>1, <1>2, <1>4 DEF RedisTypeOK, RedisKeysConsistent, RedisStages, Redis!Done, Redis!ScriptKinds
<1>6. Redis!Version' = Redis!Version /\ Redis!Content' = Redis!Content /\ Redis!Version \in Redis!Versions
  BY <1>1, RedisMappedType DEF Redis!Version, Redis!Content, Redis!Missing
<1>7. ASSUME NEW j \in Calls, j # k
      PROVE  RedisCallOK(j)'
  <2>1. \A kind \in Redis!ScriptKinds : <<j, kind>> \in scripts' => <<j, kind>> \in scripts
    BY <1>2, <1>7
  <2>2. pc'[j] = pc[j] /\ next'[j] = next[j]
    BY <1>2, <1>7 DEF RedisTypeOK
  <2> QED
    BY <1>1, <1>6, <2>1, <2>2, RedisOtherCall DEF RedisAdvances
<1>8. RedisCallOK(k)'
  <2>1. /\ pc'[k] \in {"conflict", "failed", "writing"}
        /\ <<k, "load">> \in scripts' => <<k, "load">> \in scripts
        /\ <<k, "write">> \in scripts' => /\ base[k].version = req[k].expected
                                         /\ next'[k] = result /\ result # Rejected
    BY <1>1, <1>2 DEF RedisTypeOK, RedisCallOK, RedisScriptsBehind
  <2>2. RedisCallWellFormed(k)' /\ RedisScriptsBehind(k)' /\ RedisEffectKnown(k)' /\ RedisTokenIssued(k)' /\ RedisBaseOfRevision(k)'
    BY <1>1, <1>3, <1>6, <2>1
   
    DEF RedisCallOK, RedisCallWellFormed, RedisScriptsBehind, RedisEffectKnown, RedisTokenIssued,
        RedisBaseOfRevision
  <2>3. RedisScriptFromBase(k)'
    BY <1>1, <1>3, <2>1 DEF RedisScriptFromBase, result
  <2> QED
    BY <2>2, <2>3 DEF RedisCallOK
<1> QED
  BY <1>5, <1>7, <1>8

LEMMA RedisReturnInv ==
    ASSUME RedisInv, NEW k \in Calls, Redis!GiveUp(k) \/ Redis!ReturnOk(k)
    PROVE  RedisInv'
<1> USE DEF RedisInv
<1>1. /\ UNCHANGED <<ver, data, ttl, scripts, req, mode, base, next, seen, published, lost, invented>>
      /\ \/ pc[k] \in {"loading", "writing"} /\ pc' = [pc EXCEPT ![k] = "failed"]
         \/ pc[k] \in {"written", "observed"} /\ pc' = [pc EXCEPT ![k] = "ok"]
  BY DEF Redis!GiveUp, Redis!ReturnOk, Redis!keys, Redis!ghosts
<1>2. RedisTypeOK' /\ RedisKeysConsistent'
  BY <1>1 DEF RedisTypeOK, RedisKeysConsistent, RedisStages, Redis!Done
<1>3. Redis!Version' = Redis!Version /\ Redis!Content' = Redis!Content /\ Redis!Version \in Redis!Versions
  BY <1>1, RedisMappedType DEF Redis!Version, Redis!Content, Redis!Missing
<1>4. ASSUME NEW j \in Calls, j # k
      PROVE  RedisCallOK(j)'
  BY <1>1, <1>3, <1>4, RedisOtherCall DEF RedisAdvances, RedisTypeOK
<1>5. \/ pc[k] \in {"loading", "writing"} /\ pc'[k] = "failed"
      \/ pc[k] \in {"written", "observed"} /\ pc'[k] = "ok"
  BY <1>1 DEF RedisTypeOK
<1>6. RedisCallOK(k)'
  BY <1>1, <1>3, <1>5
 
  DEF RedisCallOK, RedisCallWellFormed, RedisScriptsBehind, RedisEffectKnown, RedisTokenIssued,
      RedisBaseOfRevision, RedisScriptFromBase
<1> QED
  BY <1>2, <1>4, <1>6

LEMMA RedisNextInv == RedisInv /\ [Redis!Next]_(Redis!vars) => RedisInv'
<1> SUFFICES ASSUME RedisInv, [Redis!Next]_(Redis!vars)
             PROVE  RedisInv'
  OBVIOUS
<1>1. CASE UNCHANGED Redis!vars
  BY <1>1
  DEF Redis!vars, RedisInv, RedisTypeOK, RedisKeysConsistent, RedisCallOK, RedisCallWellFormed,
      RedisScriptsBehind, RedisEffectKnown, RedisTokenIssued,
              RedisBaseOfRevision, RedisScriptFromBase, Redis!Version, Redis!Content, Redis!Missing
<1> QED
  BY <1>1, RedisExpiresInv, RedisScriptFailsInv, RedisRunLoadInv, RedisRunConflictInv, RedisRunWriteInv, RedisInvokeInv, RedisPrepareWriteInv,
     RedisReturnInv DEF Redis!Next

\* Every reachable state satisfies the inductive invariant.
THEOREM RedisInvHolds == Redis!Spec => []RedisInv
<1>1. Redis!Init => RedisInv
  BY RedisInitInv
<1>2. RedisInv /\ [Redis!Next]_(Redis!vars) => RedisInv'
  BY RedisNextInv
<1> QED
  BY <1>1, <1>2, PTL DEF Redis!Spec

-----------------------------------------------------------------------------
(* Every step is a step of the contract *)

\* Calls and batches mean the same in the contract.
LEMMA RedisSameData ==
    /\ Redis!Checkpoint!Requests = Redis!Requests
    /\ Redis!Checkpoint!NoRequest = Redis!NoRequest
    /\ Redis!Checkpoint!NoSnapshot = Redis!NoSnapshot
    /\ \A r : Redis!Checkpoint!IsWrite(r) <=> Redis!IsWrite(r)
    /\ \A r, v : Redis!Checkpoint!Invented(r, v) <=> Redis!Invented(r, v)
    /\ \A v : Redis!Checkpoint!Exhausted(v) <=> Redis!Exhausted(v)
    /\ \A v : Redis!Checkpoint!NextConversationVersion(v) = Redis!NextConversationVersion(v)
    /\ \A c, r : Redis!Checkpoint!Written(c, r) = Redis!Written(c, r)
BY DEF Redis!Checkpoint!Requests, Redis!Requests, Redis!Checkpoint!LoadRequests, Redis!LoadRequests,
       Redis!Checkpoint!CommitRequests, Redis!CommitRequests, Redis!Checkpoint!ClearRequests, Redis!ClearRequests,
       Redis!Checkpoint!NoRequest, Redis!NoRequest, Redis!Checkpoint!NoSnapshot, Redis!NoSnapshot,
       Redis!Checkpoint!IsWrite, Redis!IsWrite, Redis!Checkpoint!Invented, Redis!Invented, Redis!Checkpoint!Exhausted, Redis!Exhausted,
       Redis!Checkpoint!NextConversationVersion, Redis!NextConversationVersion, Redis!Checkpoint!Written, Redis!Written

RedisOpen == {"loading", "loaded", "observed", "writing", "written"}

\* The mapping does not see steps within a call.
LEMMA RedisWithinCall ==
    ASSUME RedisInv, NEW k \in Calls, pc[k] \in RedisOpen,
           NEW stage \in RedisOpen, pc' = [pc EXCEPT ![k] = stage]
    PROVE  Redis!Status' = Redis!Status
BY DEF RedisInv, RedisTypeOK, Redis!Status, RedisOpen, Redis!Done

\* A return is the contract's.
LEMMA RedisReturned ==
    ASSUME RedisInv, NEW k \in Calls, pc[k] \in RedisOpen, NEW result \in Redis!Done,
           pc' = [pc EXCEPT ![k] = result],
           Redis!Version' = Redis!Version, Redis!Content' = Redis!Content, UNCHANGED <<req, seen, published, invented>>
    PROVE  Redis!Checkpoint!Return(k, result)
<1>1. Redis!Status' = [Redis!Status EXCEPT ![k] = result] /\ Redis!Status[k] = "open"
  BY DEF RedisInv, RedisTypeOK, Redis!Status, RedisOpen, Redis!Done
<1>2. Redis!Effect' = Redis!Effect
  BY DEF Redis!Effect
<1> QED
  BY <1>1, <1>2 DEF Redis!Checkpoint!Return

\* An error reported to a waiting caller is the contract's; a lost one is not
\* seen at all.
LEMMA RedisErrorReplied ==
    ASSUME RedisInv, NEW k \in Calls, NEW kind \in Redis!ScriptKinds, NEW stage \in {"conflict", "failed"},
           Redis!Reply(k, kind, stage), Redis!Version' = Redis!Version, Redis!Content' = Redis!Content,
           UNCHANGED <<req, seen, published, invented>>
    PROVE  Redis!Checkpoint!Return(k, stage) \/ UNCHANGED Redis!Checkpoint!vars
<1>1. CASE pc' = pc
  BY <1>1 DEF Redis!Checkpoint!vars, Redis!Status, Redis!Effect
<1>2. CASE pc[k] \in RedisOpen /\ pc' = [pc EXCEPT ![k] = stage]
  BY <1>2, RedisReturned DEF Redis!Done
<1> QED
  BY <1>1, <1>2 DEF Redis!Reply, RedisOpen

LEMMA RedisExpiresImplements ==
    ASSUME RedisInv, Redis!PayloadExpires
    PROVE  Redis!Checkpoint!Expire \/ UNCHANGED Redis!Checkpoint!vars
<1> USE DEF RedisInv, Redis!PayloadExpires
<1>1. ~Redis!Missing /\ Redis!Missing' /\ ver # 0
  BY RedisPayloadKinds DEF RedisTypeOK, RedisKeysConsistent, Redis!Missing
<1>2. Redis!Status' = Redis!Status /\ Redis!Effect' = Redis!Effect
  BY DEF Redis!Status, Redis!Effect
<1>3. CASE Redis!Exhausted(ver)
  BY <1>1, <1>2, <1>3 DEF Redis!Checkpoint!vars, Redis!Version, Redis!Content
<1>4. CASE ~Redis!Exhausted(ver)
  BY <1>1, <1>2, <1>4, RedisSameData, RedisPayloadKinds
  DEF Redis!Checkpoint!Expire, Redis!Version, Redis!Content
<1> QED
  BY <1>3, <1>4

LEMMA RedisScriptFailsImplements ==
    ASSUME RedisInv, NEW k \in Calls, NEW kind \in Redis!ScriptKinds, Redis!ScriptFails(k, kind)
    PROVE  Redis!Checkpoint!ReturnFailed(k) \/ UNCHANGED Redis!Checkpoint!vars
<1>1. Redis!Version' = Redis!Version /\ Redis!Content' = Redis!Content
  BY DEF Redis!ScriptFails, Redis!keys, Redis!ghosts, Redis!Version, Redis!Content, Redis!Missing
<1> QED
  BY <1>1, RedisErrorReplied DEF Redis!ScriptFails, Redis!ghosts, Redis!Checkpoint!ReturnFailed

LEMMA RedisRunConflictImplements ==
    ASSUME RedisInv, NEW k \in Calls, Redis!RunConflict(k)
    PROVE  Redis!Checkpoint!ReturnConflict(k) \/ UNCHANGED Redis!Checkpoint!vars
<1>1. Redis!Version' = Redis!Version /\ Redis!Content' = Redis!Content
  BY RedisPreludeWritten DEF Redis!RunConflict
<1>2. Redis!IsWrite(req[k]) /\ req[k].expected # Redis!Version
  BY RedisPreludeMapped DEF Redis!RunConflict, RedisInv, RedisCallOK, RedisScriptsBehind
<1> QED
  BY <1>1, <1>2, RedisErrorReplied, RedisSameData
  DEF Redis!RunConflict, Redis!ghosts, Redis!ScriptKinds, Redis!Checkpoint!ReturnConflict

LEMMA RedisRunExhaustedImplements ==
    ASSUME RedisInv, NEW k \in Calls, Redis!RunExhausted(k)
    PROVE  Redis!Checkpoint!ReturnFailed(k) \/ UNCHANGED Redis!Checkpoint!vars
<1>1. Redis!Version' = Redis!Version /\ Redis!Content' = Redis!Content
  BY RedisPreludeWritten DEF Redis!RunExhausted
<1> QED
  BY <1>1, RedisErrorReplied
  DEF Redis!RunExhausted, Redis!ghosts, Redis!ScriptKinds, Redis!Checkpoint!ReturnFailed

\* Only the reply that a load waits for is an observation.
LEMMA RedisRunLoadImplements ==
    ASSUME RedisInv, NEW k \in Calls, Redis!RunLoad(k)
    PROVE  Redis!Checkpoint!Observe(k) \/ UNCHANGED Redis!Checkpoint!vars
<1> DEFINE answer == [version |-> Redis!StateVer, content |-> Redis!Decode(Redis!StateData)]
           stage == IF req[k].op = "commit" THEN "loaded" ELSE "observed"
<1> USE DEF RedisInv, Redis!ghosts
<1>1. /\ Redis!Version' = Redis!Version /\ Redis!Content' = Redis!Content /\ UNCHANGED <<req, published, invented>>
  BY RedisPreludeWritten DEF Redis!RunLoad
<1>2. answer = [version |-> Redis!Version, content |-> Redis!Content] /\ Redis!Version \in Redis!Versions
  BY RedisPreludeMapped, RedisMappedType DEF Redis!RunLoad
<1>3. /\ stage \in RedisOpen
      /\ pc' = pc \/ (pc[k] = "loading" /\ pc' = [pc EXCEPT ![k] = stage])
      /\ seen' = IF req[k].op # "commit" /\ pc'[k] # pc[k] THEN [seen EXCEPT ![k] = answer] ELSE seen
  BY DEF Redis!RunLoad, Redis!Reply, RedisOpen
<1> HIDE DEF answer, stage
<1>4. Redis!Status' = Redis!Status
  BY <1>3, RedisWithinCall DEF Redis!Status, RedisOpen
<1>5. CASE seen' = seen
  BY <1>1, <1>4, <1>5 DEF Redis!Checkpoint!vars, Redis!Effect
<1>6. CASE req[k].op # "commit" /\ pc[k] = "loading" /\ seen' = [seen EXCEPT ![k] = answer]
  <2>1. req[k].op = "load" /\ k \notin published /\ seen[k] = Redis!NoSnapshot /\ Redis!Status[k] = "open"
    BY <1>6, RedisRequestKinds DEF RedisCallOK, RedisCallWellFormed, RedisEffectKnown, Redis!Status, Redis!Done
  <2>2. answer # Redis!NoSnapshot
    BY <1>2 DEF Redis!NoSnapshot, Redis!Versions
  <2>3. Redis!Effect[k] = "none" /\ Redis!Effect' = [Redis!Effect EXCEPT ![k] = "observed"]
    BY <1>1, <1>6, <2>1, <2>2 DEF Redis!Effect, RedisTypeOK
  <2> QED
    BY <1>1, <1>2, <1>4, <1>6, <2>1, <2>3 DEF Redis!Checkpoint!Observe
<1> QED
  BY <1>3, <1>5, <1>6

\* The write takes effect here, whether or not its caller still waits.
LEMMA RedisRunWriteImplements ==
    ASSUME RedisInv, NEW k \in Calls, Redis!RunWrite(k)
    PROVE  Redis!Checkpoint!Publish(k)
<1> USE DEF RedisInv, Redis!ghosts
<1>1. Redis!StateVer = Redis!Version /\ ~Redis!Exhausted(Redis!Version) /\ req[k].expected = Redis!Version /\ Redis!Version \in Redis!Versions
  BY RedisPreludeMapped, RedisMappedType DEF Redis!RunWrite
<1>2. /\ pc[k] \notin {"unused", "loading", "loaded", "observed"} /\ Redis!IsWrite(req[k])
      /\ req[k] \in Redis!Requests
  BY DEF Redis!RunWrite, RedisCallOK, RedisCallWellFormed, RedisScriptsBehind
<1>3. k \notin published
  BY <1>1 DEF RedisCallOK, RedisEffectKnown, Redis!Versions
<1>4. seen[k] = Redis!NoSnapshot /\ pc[k] # "ok" /\ pc[k] # "written"
  BY <1>2, <1>3, RedisRequestKinds DEF RedisCallOK, RedisEffectKnown
<1>5. Redis!Status[k] \in {"open", "conflict", "failed"} /\ Redis!Status' = Redis!Status
  <2>1. pc[k] \in RedisOpen \cup {"conflict", "failed"}
    BY <1>2, <1>4 DEF RedisTypeOK, RedisStages, Redis!Done, RedisOpen
  <2>2. pc' = pc \/ (pc[k] = "writing" /\ pc' = [pc EXCEPT ![k] = "written"])
    BY DEF Redis!RunWrite, Redis!Reply
  <2>3. Redis!Status' = Redis!Status
    BY <2>2, RedisWithinCall DEF Redis!Status, RedisOpen
  <2> QED
    BY <2>1, <2>3 DEF Redis!Status, Redis!Done, RedisOpen
<1>6. Redis!Effect[k] = "none" /\ Redis!Effect' = [Redis!Effect EXCEPT ![k] = "published"]
  BY <1>3, <1>4 DEF Redis!Effect, Redis!RunWrite, RedisTypeOK
<1>7. Redis!Version' = Redis!NextConversationVersion(Redis!Version) /\ Redis!Content' = Redis!Written(Redis!Content, req[k])
      /\ Redis!Written(Redis!Content, req[k]) # Rejected
  <2>1. CASE req[k].op = "clear"
    BY <2>1, RedisRunWriteInv, EmptyContentAssumption, RejectedAssumption DEF Redis!Written
  <2>2. CASE req[k].op = "commit"
    <3>1. next[k] = Redis!Written(base[k].content, req[k]) /\ next[k] # Rejected /\ base[k].content = Redis!Content
      BY <1>1, <2>2 DEF Redis!RunWrite, RedisCallOK, RedisScriptFromBase, RedisBaseOfRevision
    <3> QED
      BY <2>2, <3>1, RedisRunWriteInv
  <2> QED
    BY <1>2, <2>1, <2>2 DEF Redis!IsWrite
<1> QED
  BY <1>1, <1>2, <1>5, <1>6, <1>7, RedisSameData DEF Redis!RunWrite, Redis!Checkpoint!Publish

LEMMA RedisInvokeImplements ==
    ASSUME RedisInv, NEW k \in Calls, Redis!Invoke(k)
    PROVE  Redis!Checkpoint!Invoke(k)
<1> USE DEF RedisInv, Redis!Invoke, Redis!keys
<1>1. Redis!Status[k] = "unused" /\ Redis!Status' = [Redis!Status EXCEPT ![k] = "open"]
  BY DEF RedisTypeOK, Redis!Status, Redis!Done
<1>2. Redis!Effect' = Redis!Effect /\ Redis!Version' = Redis!Version /\ Redis!Content' = Redis!Content
  BY DEF Redis!Effect, Redis!Version, Redis!Content, Redis!Missing
<1> QED
  BY <1>1, <1>2, RedisSameData DEF Redis!Checkpoint!Invoke

\* A commit stopped before its second script is told of a conflict only when
\* its token is stale or was never issued.
LEMMA RedisPrepareWriteImplements ==
    ASSUME RedisInv, NEW k \in Calls, Redis!PrepareWrite(k)
    PROVE  Redis!Checkpoint!Next \/ UNCHANGED Redis!Checkpoint!vars
<1> USE DEF RedisInv, Redis!keys, Redis!ghosts
<1>1. /\ Redis!Version' = Redis!Version /\ Redis!Content' = Redis!Content /\ pc[k] \in RedisOpen
      /\ UNCHANGED <<req, seen, published, invented>>
  BY DEF Redis!PrepareWrite, Redis!Version, Redis!Content, Redis!Missing, RedisOpen
<1>2. CASE base[k].version # req[k].expected
  <2>1. req[k] \in Redis!Requests /\ Redis!IsWrite(req[k]) /\ base[k] \in Redis!Snapshots
    BY DEF Redis!PrepareWrite, RedisCallOK, RedisCallWellFormed, Redis!IsWrite
  <2>2. req[k].expected \in Redis!Versions /\ base[k].version \in Redis!Versions /\ Redis!Version \in Redis!Versions
    BY <2>1, RedisRequestKinds, RedisMappedType DEF Redis!Snapshots
  <2>3. req[k].expected # Redis!Version \/ k \in invented
    BY <1>2, <2>1, <2>2 DEF RedisCallOK, RedisBaseOfRevision, Redis!Versions
  <2>4. Redis!Checkpoint!Return(k, "conflict")
    BY <1>1, <1>2, RedisReturned DEF Redis!PrepareWrite, Redis!Done
  <2> QED
    BY <2>1, <2>3, <2>4, RedisSameData DEF Redis!Checkpoint!Next, Redis!Checkpoint!ReturnConflict
<1>3. CASE pc' = [pc EXCEPT ![k] = "failed"]
  BY <1>1, <1>3, RedisReturned DEF Redis!Done, Redis!Checkpoint!Next, Redis!Checkpoint!ReturnFailed
<1>4. CASE pc' = [pc EXCEPT ![k] = "writing"]
  BY <1>1, <1>4, RedisWithinCall DEF RedisOpen, Redis!Checkpoint!vars, Redis!Effect
<1> QED
  BY <1>2, <1>3, <1>4 DEF Redis!PrepareWrite

LEMMA RedisReturnImplements ==
    ASSUME RedisInv, NEW k \in Calls, Redis!GiveUp(k) \/ Redis!ReturnOk(k)
    PROVE  Redis!Checkpoint!ReturnFailed(k) \/ Redis!Checkpoint!ReturnOk(k)
<1> USE DEF RedisInv, Redis!keys, Redis!ghosts
<1>1. /\ Redis!Version' = Redis!Version /\ Redis!Content' = Redis!Content /\ pc[k] \in RedisOpen
      /\ UNCHANGED <<req, seen, published, invented>>
  BY DEF Redis!GiveUp, Redis!ReturnOk, Redis!Version, Redis!Content, Redis!Missing, RedisOpen
<1>2. CASE Redis!GiveUp(k)
  BY <1>1, <1>2, RedisReturned DEF Redis!GiveUp, Redis!Done, Redis!Checkpoint!ReturnFailed
<1>3. CASE Redis!ReturnOk(k)
  <2>1. Redis!Effect[k] # "none"
    BY <1>3 DEF Redis!ReturnOk, RedisCallOK, RedisEffectKnown, Redis!Effect
  <2> QED
    BY <1>1, <1>3, <2>1, RedisReturned DEF Redis!ReturnOk, Redis!Done, Redis!Checkpoint!ReturnOk
<1> QED
  BY <1>2, <1>3

LEMMA RedisStepImplements == RedisInv /\ [Redis!Next]_(Redis!vars) => [Redis!Checkpoint!Next]_(Redis!Checkpoint!vars)
<1> SUFFICES ASSUME RedisInv, [Redis!Next]_(Redis!vars)
             PROVE  Redis!Checkpoint!Next \/ UNCHANGED Redis!Checkpoint!vars
  OBVIOUS
<1>1. CASE UNCHANGED Redis!vars
  BY <1>1
  DEF Redis!vars, Redis!Checkpoint!vars, Redis!Status, Redis!Effect, Redis!Version, Redis!Content,
      Redis!Missing
<1>2. CASE Redis!PayloadExpires
  BY <1>2, RedisExpiresImplements DEF Redis!Checkpoint!Next
<1>3. ASSUME NEW k \in Calls, NEW kind \in Redis!ScriptKinds, Redis!ScriptFails(k, kind)
      PROVE  Redis!Checkpoint!Next \/ UNCHANGED Redis!Checkpoint!vars
  BY <1>3, RedisScriptFailsImplements DEF Redis!Checkpoint!Next
<1>4. ASSUME NEW k \in Calls, Redis!RunLoad(k) \/ Redis!RunConflict(k) \/ Redis!RunExhausted(k) \/ Redis!RunWrite(k)
      PROVE  Redis!Checkpoint!Next \/ UNCHANGED Redis!Checkpoint!vars
  BY <1>4, RedisRunLoadImplements, RedisRunConflictImplements, RedisRunExhaustedImplements, RedisRunWriteImplements
  DEF Redis!Checkpoint!Next
<1>5. ASSUME NEW k \in Calls, Redis!Invoke(k) \/ Redis!GiveUp(k) \/ Redis!ReturnOk(k)
      PROVE  Redis!Checkpoint!Next
  BY <1>5, RedisInvokeImplements, RedisReturnImplements DEF Redis!Checkpoint!Next
<1> QED
  BY <1>1, <1>2, <1>3, <1>4, <1>5, RedisPrepareWriteImplements DEF Redis!Next

\* The Redis store implements the checkpoint store contract although scripts
\* run late or twice, replies are lost and payloads expire between the two
\* scripts of a commit.
THEOREM RedisStoreImplements == Redis!Spec => Redis!Implements
<1>1. Redis!Init => Redis!Checkpoint!Init
  <2> SUFFICES ASSUME Redis!Init PROVE Redis!Checkpoint!Init
    OBVIOUS
  <2>1. Redis!Version = 0 /\ Redis!Content = EmptyContent
    BY RedisPayloadKinds DEF Redis!Init, Redis!Version, Redis!Content, Redis!Missing
  <2> QED
    BY <2>1, RedisSameData DEF Redis!Init, Redis!Checkpoint!Init, Redis!Status, Redis!Effect, Redis!Done
<1>2. RedisInv /\ [Redis!Next]_(Redis!vars) => [Redis!Checkpoint!Next]_(Redis!Checkpoint!vars)
  BY RedisStepImplements
<1> QED
  BY <1>1, <1>2, RedisInvHolds, PTL DEF Redis!Spec, Redis!Implements, Redis!Checkpoint!Spec

=============================================================================
