------------------------ MODULE BlobRetentionProofs ------------------------
(***************************************************************************)
(* The retention properties of the blob store, for every number of         *)
(* goroutines, claims, checkpoints, sources and objects.                   *)
(***************************************************************************)
EXTENDS BlobRetention, TLAPS

\* A request of a known operation has that operation's fields.
LEMMA RequestTypes ==
    ASSUME NEW r \in Requests
    PROVE  /\ r.op = "put" => r \in PutRequests
           /\ r.op = "retain" => r \in RetainRequests
           /\ r.op = "commit" => r \in CommitRequests
           /\ r.op = "release" => r \in ReleaseRequests
           /\ r.op = "retire" => r \in RetireRequests
           /\ r.op = "collect" => r \in CollectRequests
           /\ r.op = "reconcile" => r \in ReconcileRequests
BY DEF Requests, PutRequests, RetainRequests, CommitRequests, ReleaseRequests,
       RetireRequests, CollectRequests, ReconcileRequests

\* An object, claim or checkpoint that is present has its fields.
LEMMA PresentRecords ==
    ASSUME TypeOK
    PROVE  /\ \A o \in Objects : Exists(o) =>
                objects[o] \in [status: {"live", "retiring"}, scope: Scopes,
                                sources: SUBSET Sources, content: Contents]
           /\ \A r \in ClaimRefs : Known(r) =>
                claims[r] \in [state: {"pending", "committed", "released"},
                               object: Objects, scope: Scopes,
                               checkpoint: Checkpoints \cup {NoCheckpoint}]
           /\ \A c \in Checkpoints : checkpoints[c].status # "absent" =>
                checkpoints[c] \in [status: {"active", "released"},
                                    claims: SUBSET ClaimRefs]
           /\ \A r \in ClaimRefs : outcome[r].kind # "none" =>
                outcome[r] \in [kind: {"held", "published", "cleanup"},
                                blob: Descriptors]
BY DEF TypeOK, Exists, Known, ObjectRecords, ClaimRecords, CheckpointRecords, Outcomes

\* The goroutine's own variables after a return.
LEMMA ReturnType ==
    ASSUME TypeOK, NEW p \in Procs, Return(p)
    PROVE  /\ pc' \in [Procs -> Stages]
           /\ req' \in [Procs -> Requests \cup {NoRequest}]
           /\ refs' \in [Procs -> SUBSET ClaimRefs]
           /\ granted' \in [Procs -> SUBSET (ClaimRefs \X Objects)]
           /\ canceled' \in SUBSET Procs
           /\ pc'[p] = "idle"
           /\ \A q \in Procs \ {p} : pc'[q] = pc[q] /\ req'[q] = req[q]
BY DEF TypeOK, Return, Stages

LEMMA InitInv == Init => Inv
<1> SUFFICES ASSUME Init
             PROVE  Inv
  OBVIOUS
<1> USE DEF Init
<1>1. TypeOK
  BY MaxSequenceAssumption
  DEF TypeOK, Stages, Objects, ObjectRecords, AbsentObject, ClaimRecords,
      AbsentClaim, CheckpointRecords, AbsentCheckpoint, Outcomes, NoOutcome
<1>2. CallsWellFormed /\ ObjectsNumbered /\ ReceiptsBound
  BY DEF CallsWellFormed, ObjectsNumbered, ReceiptsBound, Exists, AbsentObject, NoOutcome
<1>3. ActiveClaimKeepsObject /\ CheckpointOwnsItsClaims
  BY DEF ActiveClaimKeepsObject, CheckpointOwnsItsClaims, Active, AbsentClaim,
         AbsentCheckpoint
<1>4. NoLiveDerivativeOfDeletedSource /\ EveryWriteReported
  BY DEF NoLiveDerivativeOfDeletedSource, EveryWriteReported, AbsentObject
<1> QED
  BY <1>1, <1>2, <1>3, <1>4 DEF Inv

\* A step that leaves the store and the receipts alone keeps the invariant if
\* it leaves every call well formed and every receipt with its call.
LEMMA StoreUnchangedInv ==
    ASSUME Inv, UNCHANGED <<store, outcome>>, TypeOK', CallsWellFormed',
           \A q \in Procs : pc[q] = "receipt" => pc'[q] = "receipt" /\ req'[q] = req[q]
    PROVE  Inv'
<1>1. ObjectsNumbered' /\ ReceiptsBound'
  BY DEF Inv, store, ObjectsNumbered, ReceiptsBound, Exists, Known
<1>2. ActiveClaimKeepsObject' /\ CheckpointOwnsItsClaims'
  BY DEF Inv, store, ActiveClaimKeepsObject, CheckpointOwnsItsClaims, Active, Exists
<1>3. NoLiveDerivativeOfDeletedSource'
  BY DEF Inv, store, NoLiveDerivativeOfDeletedSource
<1>4. EveryWriteReported'
  BY DEF Inv, store, EveryWriteReported
<1> QED
  BY <1>1, <1>2, <1>3, <1>4 DEF Inv

\* A call that returns without having touched the store.
LEMMA PlainReturnInv ==
    ASSUME Inv, NEW p \in Procs, pc[p] # "receipt", Return(p), UNCHANGED <<store, outcome>>
    PROVE  Inv'
<1> USE DEF Inv
<1>1. TypeOK'
  BY ReturnType DEF TypeOK, store
<1>2. CallsWellFormed'
  BY ReturnType DEF CallsWellFormed, store
<1>3. \A q \in Procs : pc[q] = "receipt" => pc'[q] = "receipt" /\ req'[q] = req[q]
  BY ReturnType
<1> QED
  BY <1>1, <1>2, <1>3, StoreUnchangedInv

LEMMA InvokeInv ==
    ASSUME Inv, NEW p \in Procs, Invoke(p)
    PROVE  Inv'
<1> USE DEF Inv
<1>1. PICK r \in Requests :
        /\ req' = [req EXCEPT ![p] = r]
        /\ refs' = [refs EXCEPT ![p] = IF r.op = "commit" THEN r.refs ELSE {}]
        /\ Goto(p, FirstStage(r.op))
  BY DEF Invoke
<1>2. FirstStage(r.op) \in Stages \ {"idle", "receipt"}
  BY DEF FirstStage, Stages
<1>3. (IF r.op = "commit" THEN r.refs ELSE {}) \in SUBSET ClaimRefs
  BY RequestTypes DEF CommitRequests
<1>4. TypeOK'
  BY <1>1, <1>2, <1>3 DEF TypeOK, Invoke, Goto, store
<1>5. CallsWellFormed'
  BY <1>1, <1>2 DEF CallsWellFormed, Invoke, Goto, store, TypeOK, FirstStage
<1>6. \A q \in Procs : pc[q] = "receipt" => pc'[q] = "receipt" /\ req'[q] = req[q]
  BY <1>1 DEF Invoke, Goto, TypeOK
<1> QED
  BY <1>4, <1>5, <1>6, StoreUnchangedInv DEF Invoke

LEMMA CancelInv ==
    ASSUME Inv, NEW p \in Procs, Cancel(p)
    PROVE  Inv'
<1>1. TypeOK'
  BY DEF Inv, TypeOK, Cancel, store
<1>2. CallsWellFormed'
  BY DEF Inv, CallsWellFormed, Cancel, store
<1> QED
  BY <1>1, <1>2, StoreUnchangedInv DEF Cancel

LEMMA ReadCheckpointInv ==
    ASSUME Inv, NEW p \in Procs, ReadCheckpoint(p)
    PROVE  Inv'
<1> DEFINE saved == checkpoints[req[p].checkpoint]
<1>1. CASE saved.status = "absent"
  BY <1>1, PlainReturnInv DEF ReadCheckpoint
<1>2. CASE saved.status # "absent"
  <2>1. req[p] \in ReleaseRequests
    BY RequestTypes DEF Inv, CallsWellFormed, ReadCheckpoint
  <2>2. saved.claims \in SUBSET ClaimRefs
    BY <1>2, <2>1, PresentRecords DEF Inv, ReleaseRequests
  <2>3. TypeOK'
    BY <1>2, <2>2 DEF Inv, TypeOK, ReadCheckpoint, Goto, Stages, store
  <2>4. CallsWellFormed'
    BY <1>2, <2>1 DEF Inv, CallsWellFormed, ReadCheckpoint, Goto, store, TypeOK, ReleaseRequests
  <2>5. \A q \in Procs : pc[q] = "receipt" => pc'[q] = "receipt" /\ req'[q] = req[q]
    BY <1>2 DEF ReadCheckpoint, Goto, Inv, TypeOK
  <2> QED
    BY <2>3, <2>4, <2>5, StoreUnchangedInv DEF ReadCheckpoint
<1> QED
  BY <1>1, <1>2

LEMMA AuthorizeClaimsInv ==
    ASSUME Inv, NEW p \in Procs, AuthorizeClaims(p)
    PROVE  Inv'
<1>1. CASE \E r \in refs[p] : ~Known(r)
  BY <1>1, PlainReturnInv DEF AuthorizeClaims
<1>2. CASE \A r \in refs[p] : Known(r)
  <2>1. \A r \in refs[p] : r \in ClaimRefs /\ claims[r].object \in Objects
    BY <1>2, PresentRecords DEF Inv, TypeOK
  <2>2. {<<r, claims[r].object>> : r \in refs[p]} \in SUBSET (ClaimRefs \X Objects)
    BY <2>1
  <2>3. TypeOK'
    BY <1>2, <2>2 DEF Inv, TypeOK, AuthorizeClaims, Goto, Stages, store
  <2>4. CallsWellFormed'
    BY <1>2 DEF Inv, CallsWellFormed, AuthorizeClaims, Goto, store, TypeOK
  <2>5. \A q \in Procs : pc[q] = "receipt" => pc'[q] = "receipt" /\ req'[q] = req[q]
    BY <1>2 DEF AuthorizeClaims, Goto, Inv, TypeOK
  <2> QED
    BY <2>3, <2>4, <2>5, StoreUnchangedInv DEF AuthorizeClaims
<1> QED
  BY <1>1, <1>2

-----------------------------------------------------------------------------
(* The steps under the mutex *)

\* Put writes a fresh object, claim and receipt.
LEMMA PutLockedInv ==
    ASSUME Inv, NEW p \in Procs, pc[p] = "effect", PutLocked(p)
    PROVE  Inv'
<1> USE DEF Inv
<1> DEFINE r == req[p]
           o == sequence + 1
<1>1. r \in PutRequests
  BY RequestTypes DEF CallsWellFormed, PutLocked
<1>2. /\ o \in Objects
      /\ sequence \in Nat
      /\ ~Exists(o)
      /\ ~Known(r.ref)
      /\ outcome[r.ref].kind = "none"
      /\ r.ref \in ClaimRefs
  BY <1>1, MaxSequenceAssumption
  DEF PutLocked, PutAdmitted, TypeOK, Objects, ObjectsNumbered, ReceiptsBound, PutRequests
<1>3. TypeOK'
  <2>1. sequence' \in 0..MaxSequence
    BY <1>2, MaxSequenceAssumption DEF PutLocked, Objects
  <2>2. objects' \in [Objects -> ObjectRecords]
    BY <1>1, <1>2 DEF PutLocked, TypeOK, ObjectRecords, PutRequests
  <2>3. claims' \in [ClaimRefs -> ClaimRecords]
    BY <1>1, <1>2 DEF PutLocked, TypeOK, ClaimRecords, PutRequests
  <2>4. outcome' \in [ClaimRefs -> Outcomes]
    BY <1>1, <1>2 DEF PutLocked, TypeOK, Outcomes, Descriptors, PutRequests
  <2> QED
    BY <2>1, <2>2, <2>3, <2>4 DEF PutLocked, TypeOK, Goto, Stages
<1>4. CallsWellFormed'
  BY <1>1, <1>2 DEF CallsWellFormed, PutLocked, Goto, TypeOK
<1>5. ObjectsNumbered'
  BY <1>1, <1>2, MaxSequenceAssumption
  DEF ObjectsNumbered, PutLocked, PutAdmitted, Exists, TypeOK, Objects
<1>6. ReceiptsBound'
  <2> SUFFICES ASSUME NEW s \in ClaimRefs, outcome'[s].kind # "none"
               PROVE  /\ outcome'[s].blob.object <= sequence'
                      /\ Known(s)'
                      /\ claims'[s].object = outcome'[s].blob.object
                      /\ claims'[s].scope = outcome'[s].blob.scope
                      /\ Exists(outcome[s].blob.object)' =>
                           /\ objects'[outcome'[s].blob.object].content = outcome'[s].blob.content
                           /\ objects'[outcome'[s].blob.object].scope = outcome'[s].blob.scope
                           /\ objects'[outcome'[s].blob.object].sources = outcome'[s].blob.sources
    BY DEF ReceiptsBound
  <2>1. CASE s = r.ref
    BY <2>1, <1>2 DEF PutLocked, TypeOK, Known, Objects
  <2>2. CASE s # r.ref
    <3>1. outcome'[s] = outcome[s] /\ claims'[s] = claims[s]
      BY <2>2 DEF PutLocked, TypeOK
    <3>2. outcome[s].blob.object \in Objects /\ outcome[s].blob.object <= sequence
      BY <3>1, PresentRecords DEF ReceiptsBound, Descriptors
    <3>3. objects'[outcome[s].blob.object] = objects[outcome[s].blob.object]
      BY <3>2, <1>2, MaxSequenceAssumption DEF PutLocked, TypeOK, Objects
    <3> QED
      BY <3>1, <3>2, <3>3, <1>2, MaxSequenceAssumption
      DEF ReceiptsBound, Known, Exists, PutLocked, Objects
  <2> QED
    BY <2>1, <2>2
<1>7. ActiveClaimKeepsObject'
  BY <1>1, <1>2, PresentRecords
  DEF ActiveClaimKeepsObject, PutLocked, Active, Exists, TypeOK
<1>8. CheckpointOwnsItsClaims'
  <2>1. \A c \in Checkpoints : checkpoints[c].status # "absent" =>
          r.ref \notin checkpoints[c].claims
    BY <1>2, PresentRecords DEF CheckpointOwnsItsClaims, Known
  <2> QED
    BY <2>1, <1>2, PresentRecords
    DEF CheckpointOwnsItsClaims, PutLocked, TypeOK, CheckpointRecords
<1>9. NoLiveDerivativeOfDeletedSource'
  BY <1>2 DEF NoLiveDerivativeOfDeletedSource, PutLocked, PutAdmitted, TypeOK
<1>10. EveryWriteReported'
  <2> SUFFICES ASSUME NEW n \in 1..sequence'
               PROVE  \E s \in ClaimRefs :
                        /\ outcome'[s].kind # "none"
                        /\ outcome'[s].blob.object = n
                        /\ outcome'[s].kind = "held" =>
                             \E q \in Procs : pc'[q] = "receipt" /\ req'[q].ref = s
    BY DEF EveryWriteReported
  <2>1. CASE n = o
    BY <2>1, <1>2 DEF PutLocked, Goto, TypeOK
  <2>2. CASE n # o
    <3>1. n \in 1..sequence
      BY <2>2, <1>2 DEF PutLocked
    <3>2. PICK s \in ClaimRefs :
            /\ outcome[s].kind # "none"
            /\ outcome[s].blob.object = n
            /\ outcome[s].kind = "held" =>
                 \E q \in Procs : pc[q] = "receipt" /\ req[q].ref = s
      BY <3>1 DEF EveryWriteReported
    <3>3. outcome'[s] = outcome[s]
      BY <3>2, <1>2 DEF PutLocked, TypeOK
    <3> QED
      BY <3>2, <3>3 DEF PutLocked, Goto, TypeOK
  <2> QED
    BY <2>1, <2>2
<1> QED
  BY <1>3, <1>4, <1>5, <1>6, <1>7, <1>8, <1>9, <1>10

\* PutBlob judges the receipt.
LEMMA PutReturnsInv ==
    ASSUME Inv, NEW p \in Procs, PutReturns(p)
    PROVE  Inv'
<1> USE DEF Inv
<1> DEFINE s == req[p].ref
<1>1. req[p] \in PutRequests /\ s \in ClaimRefs /\ outcome[s].kind # "none"
  BY RequestTypes DEF CallsWellFormed, PutReturns, PutRequests
<1>2. /\ outcome'[s].kind \in {"published", "cleanup"}
      /\ outcome'[s].blob = outcome[s].blob
      /\ outcome'[s] \in Outcomes
      /\ \A t \in ClaimRefs \ {s} : outcome'[t] = outcome[t]
  BY <1>1, PresentRecords DEF PutReturns, TypeOK, Outcomes
<1>3. outcome' \in [ClaimRefs -> Outcomes]
  BY <1>1, <1>2 DEF PutReturns, TypeOK
<1>4. TypeOK'
  BY <1>3, ReturnType DEF PutReturns, TypeOK, store
<1>5. CallsWellFormed'
  <2> SUFFICES ASSUME NEW q \in Procs
               PROVE  /\ pc'[q] # "idle" => req'[q] \in Requests
                      /\ pc'[q] = "readCheckpoint" => req'[q].op = "release"
                      /\ pc'[q] = "snapshot" => req'[q].op \in {"commit", "release"}
                      /\ pc'[q] = "receipt" =>
                           req'[q].op = "put" /\ outcome'[req'[q].ref].kind # "none"
                      /\ pc'[q] \in {"snapshot", "effect"} /\ req'[q].op = "release" =>
                           checkpoints'[req'[q].checkpoint].status # "absent"
    BY DEF CallsWellFormed
  <2>1. CASE q = p
    BY <2>1, ReturnType DEF PutReturns
  <2>2. CASE q # p
    <3>1. pc'[q] = pc[q] /\ req'[q] = req[q] /\ checkpoints' = checkpoints
      BY <2>2, ReturnType DEF PutReturns, store
    <3>2. pc[q] = "receipt" => req[q].ref \in ClaimRefs
      BY RequestTypes DEF CallsWellFormed, PutRequests
    <3> QED
      BY <1>2, <3>1, <3>2 DEF CallsWellFormed
  <2> QED
    BY <2>1, <2>2
<1>6. ObjectsNumbered' /\ ActiveClaimKeepsObject' /\ CheckpointOwnsItsClaims'
  BY DEF PutReturns, store, ObjectsNumbered, ActiveClaimKeepsObject,
         CheckpointOwnsItsClaims, Exists, Active
<1>7. ReceiptsBound'
  BY <1>1, <1>2 DEF PutReturns, store, ReceiptsBound, Exists, Known
<1>8. NoLiveDerivativeOfDeletedSource'
  BY DEF PutReturns, store, NoLiveDerivativeOfDeletedSource
<1>9. EveryWriteReported'
  <2> SUFFICES ASSUME NEW n \in 1..sequence
               PROVE  \E t \in ClaimRefs :
                        /\ outcome'[t].kind # "none"
                        /\ outcome'[t].blob.object = n
                        /\ outcome'[t].kind = "held" =>
                             \E q \in Procs : pc'[q] = "receipt" /\ req'[q].ref = t
    BY DEF EveryWriteReported, PutReturns, store
  <2>1. PICK t \in ClaimRefs :
          /\ outcome[t].kind # "none"
          /\ outcome[t].blob.object = n
          /\ outcome[t].kind = "held" =>
               \E q \in Procs : pc[q] = "receipt" /\ req[q].ref = t
    BY DEF EveryWriteReported
  <2>2. CASE t = s
    BY <1>2, <2>1, <2>2
  <2>3. CASE t # s
    BY <1>2, <2>1, <2>3, ReturnType DEF PutReturns
  <2> QED
    BY <2>2, <2>3
<1> QED
  BY <1>4, <1>5, <1>6, <1>7, <1>8, <1>9

\* The other effects return at once and write no object and no receipt: what
\* is left to show for them is what they do to claims, checkpoints and objects.
LEMMA ReturningEffectInv ==
    ASSUME Inv, NEW p \in Procs, pc[p] = "effect", Return(p),
           sequence' = sequence, outcome' = outcome,
           objects' \in [Objects -> ObjectRecords],
           claims' \in [ClaimRefs -> ClaimRecords],
           checkpoints' \in [Checkpoints -> CheckpointRecords],
           deletedSources' \in SUBSET Sources,
           \A c \in Checkpoints : checkpoints[c].status # "absent" =>
             checkpoints'[c].status # "absent",
           \A r \in ClaimRefs : Known(r) =>
             /\ claims'[r].state # "absent"
             /\ claims'[r].object = claims[r].object
             /\ claims'[r].scope = claims[r].scope,
           \A o \in Objects : objects'[o].status # "absent" =>
             /\ Exists(o)
             /\ objects'[o].content = objects[o].content
             /\ objects'[o].scope = objects[o].scope
             /\ objects'[o].sources = objects[o].sources,
           ActiveClaimKeepsObject', CheckpointOwnsItsClaims',
           NoLiveDerivativeOfDeletedSource'
    PROVE  Inv'
<1> USE DEF Inv
<1>1. TypeOK'
  BY ReturnType DEF TypeOK
<1>2. CallsWellFormed'
  <2>1. \A q \in Procs : pc[q] # "idle" /\ req[q].op = "release" =>
          req[q].checkpoint \in Checkpoints
    BY RequestTypes DEF CallsWellFormed, ReleaseRequests
  <2> QED
    BY <2>1, ReturnType DEF CallsWellFormed
<1>3. ObjectsNumbered'
  BY DEF ObjectsNumbered, Exists
<1>4. ReceiptsBound'
  <2>1. \A r \in ClaimRefs : outcome[r].kind # "none" => outcome[r].blob.object \in Objects
    BY PresentRecords DEF Descriptors
  <2> QED
    BY <2>1 DEF ReceiptsBound, Exists, Known
<1>5. EveryWriteReported'
  BY ReturnType DEF EveryWriteReported
<1> QED
  BY <1>1, <1>2, <1>3, <1>4, <1>5

\* Retain adds a claim on an object that is live.
LEMMA RetainLockedInv ==
    ASSUME Inv, NEW p \in Procs, pc[p] = "effect", RetainLocked(p)
    PROVE  Inv'
<1> USE DEF Inv
<1> DEFINE r == req[p]
<1>1. r \in RetainRequests /\ r.ref \in ClaimRefs /\ r.object \in Objects
  BY RequestTypes DEF CallsWellFormed, RetainLocked, RetainRequests
<1>2. Exists(r.object) /\ ~Known(r.ref)
  BY DEF RetainLocked, RetainAdmitted, Exists
<1>3. claims' \in [ClaimRefs -> ClaimRecords]
  BY <1>1, <1>2, PresentRecords DEF RetainLocked, TypeOK, ClaimRecords
<1>4. ActiveClaimKeepsObject'
  BY <1>1, <1>2 DEF ActiveClaimKeepsObject, RetainLocked, Active, Exists, TypeOK
<1>5. CheckpointOwnsItsClaims'
  <2>1. \A c \in Checkpoints : checkpoints[c].status # "absent" =>
          r.ref \notin checkpoints[c].claims
    BY <1>1, <1>2, PresentRecords DEF CheckpointOwnsItsClaims, Known
  <2> QED
    BY <2>1, <1>1, PresentRecords
    DEF CheckpointOwnsItsClaims, RetainLocked, TypeOK, CheckpointRecords
<1>6. NoLiveDerivativeOfDeletedSource'
  BY DEF NoLiveDerivativeOfDeletedSource, RetainLocked
<1>7. \A s \in ClaimRefs : Known(s) => claims'[s] = claims[s]
  BY <1>2 DEF RetainLocked, TypeOK
<1> QED
  BY <1>3, <1>4, <1>5, <1>6, <1>7, ReturningEffectInv
  DEF RetainLocked, TypeOK, Exists, Known

\* CommitCheckpoint turns pending claims, which no checkpoint owns, into the
\* claims of a new checkpoint.
LEMMA CommitLockedInv ==
    ASSUME Inv, NEW p \in Procs, pc[p] = "effect", CommitLocked(p)
    PROVE  Inv'
<1> USE DEF Inv
<1> DEFINE r == req[p]
<1>1. r \in CommitRequests /\ r.checkpoint \in Checkpoints /\ r.refs \in SUBSET ClaimRefs
  BY RequestTypes DEF CallsWellFormed, CommitLocked, CommitRequests
<1>2. CASE CommitRetry(r)
  <2>1. UNCHANGED <<store, outcome>> /\ Return(p)
    BY <1>2 DEF CommitLocked, store
  <2> QED
    BY <2>1, PlainReturnInv
<1>3. CASE ~CommitRetry(r)
  <2>1. /\ checkpoints[r.checkpoint].status = "absent"
        /\ \A c \in r.refs : claims[c].state = "pending"
    BY <1>3 DEF CommitLocked, CommitAdmitted
  <2>2. /\ \A c \in r.refs : claims'[c] =
             [state |-> "committed", object |-> claims[c].object,
              scope |-> claims[c].scope, checkpoint |-> r.checkpoint]
        /\ \A c \in ClaimRefs \ r.refs : claims'[c] = claims[c]
        /\ checkpoints' = [checkpoints EXCEPT ![r.checkpoint] =
                             [status |-> "active", claims |-> r.refs]]
    BY <1>1, <1>3 DEF CommitLocked
  <2>3. \A c \in r.refs :
          claims[c] \in [state: {"pending", "committed", "released"}, object: Objects,
                         scope: Scopes, checkpoint: Checkpoints \cup {NoCheckpoint}]
    BY <1>1, <2>1, PresentRecords DEF Known
  <2>4. \A c \in r.refs : /\ claims'[c] \in ClaimRecords
                          /\ claims'[c].state = "committed"
                          /\ claims'[c].checkpoint = r.checkpoint
                          /\ claims'[c].object = claims[c].object
                          /\ claims'[c].scope = claims[c].scope
    <3> SUFFICES ASSUME NEW c \in r.refs
                 PROVE  /\ claims'[c] \in ClaimRecords
                        /\ claims'[c].state = "committed"
                        /\ claims'[c].checkpoint = r.checkpoint
                        /\ claims'[c].object = claims[c].object
                        /\ claims'[c].scope = claims[c].scope
      OBVIOUS
    <3>1. claims'[c] = [state |-> "committed", object |-> claims[c].object,
                        scope |-> claims[c].scope, checkpoint |-> r.checkpoint]
      BY <2>2
    <3>2. claims[c].object \in Objects /\ claims[c].scope \in Scopes
      BY <2>3
    <3> HIDE DEF r
    <3>3. claims'[c] \in ClaimRecords
      BY <3>1, <3>2, <1>1 DEF ClaimRecords
    <3> QED
      BY <3>1, <3>3
  <2>5. claims' \in [ClaimRefs -> ClaimRecords]
    <3>1. \A c \in ClaimRefs : claims'[c] \in ClaimRecords
      BY <2>2, <2>4 DEF TypeOK
    <3>2. claims' = [c \in ClaimRefs |-> claims'[c]]
      BY <1>3 DEF CommitLocked
    <3> QED
      BY <3>1, <3>2
  <2>6. checkpoints' \in [Checkpoints -> CheckpointRecords]
    BY <1>1, <2>2 DEF TypeOK, CheckpointRecords
  <2>7. ActiveClaimKeepsObject'
    BY <1>1, <2>1, <2>2, <2>4 DEF ActiveClaimKeepsObject, CommitLocked, Active, Exists
  <2>8. \A c \in r.refs, k \in Checkpoints : checkpoints[k].status # "absent" =>
          c \notin checkpoints[k].claims
    BY <1>1, <2>1, PresentRecords DEF CheckpointOwnsItsClaims
  <2>9. CheckpointOwnsItsClaims'
    <3>1. \A s \in ClaimRefs, k \in Checkpoints :
            checkpoints'[k].status = "active" =>
              (s \in checkpoints'[k].claims
                 <=> claims'[s].state = "committed" /\ claims'[s].checkpoint = k)
      <4> SUFFICES ASSUME NEW s \in ClaimRefs, NEW k \in Checkpoints,
                          checkpoints'[k].status = "active"
                   PROVE  s \in checkpoints'[k].claims
                            <=> claims'[s].state = "committed" /\ claims'[s].checkpoint = k
        OBVIOUS
      <4>1. CASE k = r.checkpoint /\ s \in r.refs
        BY <4>1, <1>1, <2>2, <2>4 DEF TypeOK
      <4>2. CASE k = r.checkpoint /\ s \notin r.refs
        <5>1. claims'[s] = claims[s]
          BY <4>2, <2>2
        <5>2. ~(claims[s].state = "committed" /\ claims[s].checkpoint = k)
          BY <4>2, <2>1 DEF CheckpointOwnsItsClaims
        <5> QED
          BY <4>2, <5>1, <5>2, <1>1, <2>2 DEF TypeOK
      <4>3. CASE k # r.checkpoint /\ s \in r.refs
        BY <4>3, <2>2, <2>4, <2>8 DEF TypeOK
      <4>4. CASE k # r.checkpoint /\ s \notin r.refs
        BY <4>4, <2>2 DEF CheckpointOwnsItsClaims, TypeOK
      <4> QED
        BY <4>1, <4>2, <4>3, <4>4
    <3>2. \A s \in ClaimRefs : claims'[s].state = "committed" =>
            \E k \in Checkpoints : /\ claims'[s].checkpoint = k
                                   /\ checkpoints'[k].status = "active"
      <4> SUFFICES ASSUME NEW s \in ClaimRefs, claims'[s].state = "committed"
                   PROVE  \E k \in Checkpoints : /\ claims'[s].checkpoint = k
                                                 /\ checkpoints'[k].status = "active"
        OBVIOUS
      <4>1. CASE s \in r.refs
        BY <4>1, <1>1, <2>2, <2>4 DEF TypeOK
      <4>2. CASE s \notin r.refs
        <5>1. claims'[s] = claims[s]
          BY <4>2, <2>2
        <5>2. PICK k \in Checkpoints : claims[s].checkpoint = k
                                       /\ checkpoints[k].status = "active"
          BY <5>1 DEF CheckpointOwnsItsClaims
        <5> QED
          BY <5>1, <5>2, <2>1, <2>2 DEF TypeOK
      <4> QED
        BY <4>1, <4>2
    <3>3. \A k \in Checkpoints : checkpoints'[k].status = "released" =>
            \A s \in checkpoints'[k].claims : claims'[s].state = "released"
      <4> SUFFICES ASSUME NEW k \in Checkpoints, checkpoints'[k].status = "released",
                          NEW s \in checkpoints'[k].claims
                   PROVE  claims'[s].state = "released"
        OBVIOUS
      <4>1. k # r.checkpoint /\ checkpoints'[k] = checkpoints[k]
        BY <1>1, <2>2 DEF TypeOK
      <4>2. s \in ClaimRefs \ r.refs
        BY <4>1, <2>8, PresentRecords
      <4> QED
        BY <4>1, <4>2, <2>2 DEF CheckpointOwnsItsClaims
    <3> QED
      BY <3>1, <3>2, <3>3 DEF CheckpointOwnsItsClaims
  <2>10. NoLiveDerivativeOfDeletedSource'
    BY DEF NoLiveDerivativeOfDeletedSource, CommitLocked
  <2>11. \A s \in ClaimRefs : Known(s) => /\ claims'[s].state # "absent"
                                          /\ claims'[s].object = claims[s].object
                                          /\ claims'[s].scope = claims[s].scope
    BY <2>2, <2>4 DEF Known
  <2>12. \A k \in Checkpoints : checkpoints[k].status # "absent" =>
           checkpoints'[k].status # "absent"
    BY <2>1, <2>2 DEF TypeOK
  <2> QED
    BY <2>5, <2>6, <2>7, <2>9, <2>10, <2>11, <2>12, ReturningEffectInv
    DEF CommitLocked, TypeOK, Exists
<1> QED
  BY <1>2, <1>3

\* ReleaseCheckpoint ends exactly the claims of its checkpoint.
LEMMA ReleaseLockedInv ==
    ASSUME Inv, NEW p \in Procs, pc[p] = "effect", ReleaseLocked(p)
    PROVE  Inv'
<1> USE DEF Inv
<1> DEFINE x == req[p].checkpoint
           saved == checkpoints[x]
<1>1. x \in Checkpoints /\ saved.status # "absent"
  BY RequestTypes DEF CallsWellFormed, ReleaseLocked, ReleaseRequests
<1>2. saved \in [status: {"active", "released"}, claims: SUBSET ClaimRefs]
  BY <1>1, PresentRecords
<1>3. /\ \A s \in saved.claims : claims'[s] = [claims[s] EXCEPT !.state = "released"]
      /\ \A s \in ClaimRefs \ saved.claims : claims'[s] = claims[s]
      /\ claims' = [s \in ClaimRefs |-> claims'[s]]
      /\ checkpoints' = [checkpoints EXCEPT ![x] =
                           [status |-> "released", claims |-> saved.claims]]
  BY <1>2 DEF ReleaseLocked
<1>4. \A s \in saved.claims : Known(s)
  BY <1>1, <1>2 DEF CheckpointOwnsItsClaims, Known
<1>5. \A s \in saved.claims : /\ claims'[s] \in ClaimRecords
                              /\ claims'[s].state = "released"
                              /\ claims'[s].object = claims[s].object
                              /\ claims'[s].scope = claims[s].scope
                              /\ claims'[s].checkpoint = claims[s].checkpoint
  <2> SUFFICES ASSUME NEW s \in saved.claims
               PROVE  /\ claims'[s] \in ClaimRecords
                      /\ claims'[s].state = "released"
                      /\ claims'[s].object = claims[s].object
                      /\ claims'[s].scope = claims[s].scope
                      /\ claims'[s].checkpoint = claims[s].checkpoint
    OBVIOUS
  <2>1. claims'[s] = [claims[s] EXCEPT !.state = "released"]
    BY <1>3
  <2>2. claims[s] \in [state: {"pending", "committed", "released"}, object: Objects,
                       scope: Scopes, checkpoint: Checkpoints \cup {NoCheckpoint}]
    BY <1>2, <1>4, PresentRecords
  <2> QED
    BY <2>1, <2>2 DEF ClaimRecords
<1>6. claims' \in [ClaimRefs -> ClaimRecords]
  <2>1. \A s \in ClaimRefs : claims'[s] \in ClaimRecords
    BY <1>3, <1>5 DEF TypeOK
  <2> QED
    BY <2>1, <1>3
<1>7. /\ checkpoints' \in [Checkpoints -> CheckpointRecords]
      /\ checkpoints'[x].status = "released"
      /\ checkpoints'[x].claims = saved.claims
      /\ \A k \in Checkpoints \ {x} : checkpoints'[k] = checkpoints[k]
  BY <1>1, <1>2, <1>3 DEF TypeOK, CheckpointRecords
<1>8. ActiveClaimKeepsObject'
  BY <1>2, <1>3, <1>5 DEF ActiveClaimKeepsObject, ReleaseLocked, Active, Exists
<1>9. \A s \in saved.claims, k \in Checkpoints \ {x} :
        checkpoints[k].status = "active" => s \notin checkpoints[k].claims
  BY <1>1, <1>2 DEF CheckpointOwnsItsClaims
<1>10. CheckpointOwnsItsClaims'
  <2>1. \A s \in ClaimRefs, k \in Checkpoints :
          checkpoints'[k].status = "active" =>
            (s \in checkpoints'[k].claims
               <=> claims'[s].state = "committed" /\ claims'[s].checkpoint = k)
    BY <1>3, <1>5, <1>7, <1>9 DEF CheckpointOwnsItsClaims
  <2>2. \A s \in ClaimRefs : claims'[s].state = "committed" =>
          \E k \in Checkpoints : /\ claims'[s].checkpoint = k
                                 /\ checkpoints'[k].status = "active"
    <3> SUFFICES ASSUME NEW s \in ClaimRefs, claims'[s].state = "committed"
                 PROVE  \E k \in Checkpoints : /\ claims'[s].checkpoint = k
                                               /\ checkpoints'[k].status = "active"
      OBVIOUS
    <3>1. s \notin saved.claims /\ claims'[s] = claims[s]
      BY <1>3, <1>5
    <3>2. PICK k \in Checkpoints : claims[s].checkpoint = k
                                   /\ checkpoints[k].status = "active"
      BY <3>1 DEF CheckpointOwnsItsClaims
    <3>3. k # x
      BY <3>1, <3>2 DEF CheckpointOwnsItsClaims
    <3> QED
      BY <3>1, <3>2, <3>3, <1>7
  <2>3. \A k \in Checkpoints : checkpoints'[k].status = "released" =>
          \A s \in checkpoints'[k].claims : claims'[s].state = "released"
    <3> SUFFICES ASSUME NEW k \in Checkpoints, checkpoints'[k].status = "released",
                        NEW s \in checkpoints'[k].claims
                 PROVE  claims'[s].state = "released"
      OBVIOUS
    <3>1. CASE k = x
      BY <3>1, <1>5, <1>7
    <3>2. CASE k # x
      <4>1. claims[s].state = "released" /\ s \in ClaimRefs
        BY <3>2, <1>7, PresentRecords DEF CheckpointOwnsItsClaims
      <4> QED
        BY <4>1, <1>3, <1>5
    <3> QED
      BY <3>1, <3>2
  <2> QED
    BY <2>1, <2>2, <2>3 DEF CheckpointOwnsItsClaims
<1>11. NoLiveDerivativeOfDeletedSource'
  BY DEF NoLiveDerivativeOfDeletedSource, ReleaseLocked
<1>12. \A s \in ClaimRefs : Known(s) => /\ claims'[s].state # "absent"
                                        /\ claims'[s].object = claims[s].object
                                        /\ claims'[s].scope = claims[s].scope
  BY <1>3, <1>5 DEF Known
<1>13. \A k \in Checkpoints : checkpoints[k].status # "absent" =>
         checkpoints'[k].status # "absent"
  BY <1>7
<1> QED
  BY <1>6, <1>7, <1>8, <1>10, <1>11, <1>12, <1>13, ReturningEffectInv
  DEF ReleaseLocked, TypeOK, Exists

\* RetireSource makes every present derivative of the source retiring.
LEMMA RetireLockedInv ==
    ASSUME Inv, NEW p \in Procs, pc[p] = "effect", RetireLocked(p)
    PROVE  Inv'
<1> USE DEF Inv
<1> DEFINE source == req[p].source
<1>1. source \in Sources
  BY RequestTypes DEF CallsWellFormed, RetireLocked, RetireRequests
<1>2. ASSUME NEW o \in Objects
      PROVE  /\ objects'[o] \in ObjectRecords
             /\ Exists(o)' <=> Exists(o)
             /\ Exists(o) => /\ objects'[o].content = objects[o].content
                             /\ objects'[o].scope = objects[o].scope
                             /\ objects'[o].sources = objects[o].sources
             /\ Exists(o) /\ source \in objects[o].sources => objects'[o].status = "retiring"
             /\ ~(Exists(o) /\ source \in objects[o].sources) => objects'[o] = objects[o]
  <2>1. CASE Exists(o) /\ source \in objects[o].sources
    <3>1. objects'[o] = [objects[o] EXCEPT !.status = "retiring"]
      BY <2>1 DEF RetireLocked
    <3>2. objects[o] \in [status: {"live", "retiring"}, scope: Scopes,
                          sources: SUBSET Sources, content: Contents]
      BY <2>1, PresentRecords
    <3> QED
      BY <2>1, <3>1, <3>2 DEF ObjectRecords, Exists
  <2>2. CASE ~(Exists(o) /\ source \in objects[o].sources)
    <3>1. objects'[o] = objects[o]
      BY <2>2 DEF RetireLocked
    <3> QED
      BY <2>2, <3>1 DEF TypeOK, Exists
  <2> QED
    BY <2>1, <2>2
<1>3. objects' \in [Objects -> ObjectRecords]
  <2>1. objects' = [o \in Objects |-> objects'[o]]
    BY DEF RetireLocked
  <2> QED
    BY <1>2, <2>1
<1>4. ActiveClaimKeepsObject'
  <2>1. claims' = claims
    BY DEF RetireLocked
  <2> SUFFICES ASSUME NEW r \in ClaimRefs, Active(r)
               PROVE  /\ objects'[claims[r].object].status # "absent"
                      /\ objects'[claims[r].object].scope = claims[r].scope
    BY <2>1 DEF ActiveClaimKeepsObject, Active, Exists
  <2>2. claims[r].object \in Objects
    BY PresentRecords DEF Active, Known
  <2>3. Exists(claims[r].object) /\ objects[claims[r].object].scope = claims[r].scope
    BY DEF ActiveClaimKeepsObject
  <2> QED
    BY <1>2, <2>2, <2>3 DEF Exists
<1>5. CheckpointOwnsItsClaims'
  BY DEF CheckpointOwnsItsClaims, RetireLocked
<1>6. NoLiveDerivativeOfDeletedSource'
  <2> SUFFICES ASSUME NEW o \in Objects, objects'[o].status = "live"
               PROVE  objects'[o].sources \cap deletedSources' = {}
    BY DEF NoLiveDerivativeOfDeletedSource
  <2>1. objects'[o] = objects[o] /\ ~(Exists(o) /\ source \in objects[o].sources)
    BY <1>2
  <2>2. Exists(o)
    BY <2>1 DEF Exists
  <2> QED
    BY <2>1, <2>2 DEF NoLiveDerivativeOfDeletedSource, RetireLocked
<1>7. deletedSources' \in SUBSET Sources
  BY <1>1 DEF RetireLocked, TypeOK
<1>8. \A o \in Objects : objects'[o].status # "absent" =>
        /\ Exists(o)
        /\ objects'[o].content = objects[o].content
        /\ objects'[o].scope = objects[o].scope
        /\ objects'[o].sources = objects[o].sources
  BY <1>2 DEF Exists
<1> QED
  BY <1>3, <1>4, <1>5, <1>6, <1>7, <1>8, ReturningEffectInv
  DEF RetireLocked, TypeOK, Known

\* Collect deletes an object only when no active claim is on it.
LEMMA CollectLockedInv ==
    ASSUME Inv, NEW p \in Procs, pc[p] = "effect", CollectLocked(p)
    PROVE  Inv'
<1> USE DEF Inv
<1> DEFINE x == req[p].object
<1>1. x \in Objects
  BY RequestTypes DEF CallsWellFormed, CollectLocked, CollectRequests
<1>2. /\ objects' \in [Objects -> ObjectRecords]
      /\ objects'[x].status = "absent"
      /\ \A o \in Objects \ {x} : objects'[o] = objects[o]
  <2>1. AbsentObject \in ObjectRecords /\ AbsentObject.status = "absent"
    BY DEF AbsentObject, ObjectRecords
  <2>2. objects' = [objects EXCEPT ![x] = AbsentObject]
    BY DEF CollectLocked
  <2>3. objects \in [Objects -> ObjectRecords]
    BY DEF TypeOK
  <2> HIDE DEF x
  <2> QED
    BY <1>1, <2>1, <2>2, <2>3
<1>3. \A r \in ClaimRefs : Active(r) => claims[r].object # x
  <2>1. CASE ~Exists(x)
    BY <2>1 DEF ActiveClaimKeepsObject
  <2>2. CASE Exists(x)
    BY <2>2 DEF CollectLocked, Collectable, Active
  <2> QED
    BY <2>1, <2>2
<1>4. ActiveClaimKeepsObject'
  <2>1. \A r \in ClaimRefs : Active(r) => claims[r].object \in Objects
    BY PresentRecords DEF Active, Known
  <2>2. claims' = claims
    BY DEF CollectLocked
  <2> QED
    BY <1>2, <1>3, <2>1, <2>2 DEF ActiveClaimKeepsObject, Active, Exists
<1>5. CheckpointOwnsItsClaims'
  BY DEF CheckpointOwnsItsClaims, CollectLocked
<1>6. NoLiveDerivativeOfDeletedSource'
  BY <1>2 DEF NoLiveDerivativeOfDeletedSource, CollectLocked, Exists
<1>7. \A o \in Objects : objects'[o].status # "absent" => objects'[o] = objects[o] /\ Exists(o)
  BY <1>2 DEF Exists
<1> QED
  BY <1>2, <1>4, <1>5, <1>6, <1>7, ReturningEffectInv
  DEF CollectLocked, TypeOK, Known

\* ReconcileCleanup ends a claim that is not committed and may delete its
\* object, but only if no other claim on it is active.
LEMMA ReconcileLockedInv ==
    ASSUME Inv, NEW p \in Procs, pc[p] = "effect", ReconcileLocked(p)
    PROVE  Inv'
<1> USE DEF Inv
<1> DEFINE s == req[p].ref
           x == req[p].object
<1>1. s \in ClaimRefs /\ x \in Objects
  BY RequestTypes DEF CallsWellFormed, ReconcileLocked, ReconcileRequests
<1>2. Known(s) /\ claims[s].object = x /\ claims[s].state # "committed"
  BY DEF ReconcileLocked, ReconcileAdmitted
<1>3. claims[s] \in [state: {"pending", "committed", "released"}, object: Objects,
                     scope: Scopes, checkpoint: Checkpoints \cup {NoCheckpoint}]
  BY <1>1, <1>2, PresentRecords
<1>4. /\ claims'[s] = [claims[s] EXCEPT !.state = "released"]
      /\ \A t \in ClaimRefs \ {s} : claims'[t] = claims[t]
  BY <1>1 DEF ReconcileLocked, TypeOK
<1>5. /\ claims'[s] \in ClaimRecords
      /\ claims'[s].state = "released"
      /\ claims'[s].object = x
      /\ claims'[s].scope = claims[s].scope
  BY <1>2, <1>3, <1>4 DEF ClaimRecords
<1>6. claims' \in [ClaimRefs -> ClaimRecords]
  BY <1>1, <1>5 DEF ReconcileLocked, TypeOK
<1>7. \A o \in Objects \ {x} : objects'[o] = objects[o]
  BY DEF ReconcileLocked, TypeOK
<1>8. CASE ~Exists(x) \/ Collectable(x, "retiring", claims')
  <2>1. objects'[x] = AbsentObject
    BY <1>1, <1>8 DEF ReconcileLocked, TypeOK
  <2>2. objects' \in [Objects -> ObjectRecords]
    BY <1>1, <1>7, <2>1 DEF ReconcileLocked, TypeOK, ObjectRecords, AbsentObject
  <2>3. \A t \in ClaimRefs : claims'[t].state \in {"pending", "committed"} =>
          claims'[t].object # x
    <3>1. CASE ~Exists(x)
      BY <3>1, <1>4, <1>5 DEF ActiveClaimKeepsObject, Active
    <3>2. CASE Collectable(x, "retiring", claims')
      BY <3>2 DEF Collectable
    <3> QED
      BY <1>8, <3>1, <3>2
  <2>4. \A t \in ClaimRefs : Active(t) => claims[t].object \in Objects
    BY PresentRecords DEF Active, Known
  <2>5. ActiveClaimKeepsObject'
    <3> SUFFICES ASSUME NEW t \in ClaimRefs, claims'[t].state \in {"pending", "committed"}
                 PROVE  /\ objects'[claims'[t].object].status # "absent"
                        /\ objects'[claims'[t].object].scope = claims'[t].scope
      BY DEF ActiveClaimKeepsObject, Active, Exists
    <3>1. claims'[t] = claims[t] /\ Active(t) /\ claims[t].object # x
      BY <1>4, <1>5, <2>3 DEF Active
    <3>2. objects'[claims[t].object] = objects[claims[t].object]
      BY <1>7, <2>4, <3>1
    <3> QED
      BY <3>1, <3>2 DEF ActiveClaimKeepsObject, Exists
  <2>6. \A o \in Objects : objects'[o].status # "absent" => objects'[o] = objects[o] /\ Exists(o)
    BY <1>7, <2>1 DEF AbsentObject, Exists
  <2>7. NoLiveDerivativeOfDeletedSource'
    BY <1>7, <2>1 DEF NoLiveDerivativeOfDeletedSource, ReconcileLocked, AbsentObject
  <2>8. CheckpointOwnsItsClaims'
    BY <1>1, <1>2, <1>4, <1>5 DEF CheckpointOwnsItsClaims, ReconcileLocked
  <2>9. \A t \in ClaimRefs : Known(t) => /\ claims'[t].state # "absent"
                                         /\ claims'[t].object = claims[t].object
                                         /\ claims'[t].scope = claims[t].scope
    BY <1>2, <1>4, <1>5 DEF Known
  <2> QED
    BY <1>6, <2>2, <2>5, <2>6, <2>7, <2>8, <2>9, ReturningEffectInv
    DEF ReconcileLocked, TypeOK
<1>9. CASE Exists(x) /\ ~Collectable(x, "retiring", claims')
  <2>1. objects'[x] = [objects[x] EXCEPT !.status = "retiring"]
    BY <1>1, <1>9 DEF ReconcileLocked, TypeOK
  <2>2. objects[x] \in [status: {"live", "retiring"}, scope: Scopes,
                        sources: SUBSET Sources, content: Contents]
    BY <1>1, <1>9, PresentRecords
  <2>3. /\ objects'[x] \in ObjectRecords
        /\ objects'[x].status = "retiring"
        /\ objects'[x].content = objects[x].content
        /\ objects'[x].scope = objects[x].scope
        /\ objects'[x].sources = objects[x].sources
    BY <2>1, <2>2 DEF ObjectRecords
  <2>4. objects' \in [Objects -> ObjectRecords]
    BY <1>1, <2>3 DEF ReconcileLocked, TypeOK
  <2>5. \A t \in ClaimRefs : Active(t) => claims[t].object \in Objects
    BY PresentRecords DEF Active, Known
  <2>6. ActiveClaimKeepsObject'
    <3> SUFFICES ASSUME NEW t \in ClaimRefs, claims'[t].state \in {"pending", "committed"}
                 PROVE  /\ objects'[claims'[t].object].status # "absent"
                        /\ objects'[claims'[t].object].scope = claims'[t].scope
      BY DEF ActiveClaimKeepsObject, Active, Exists
    <3>1. claims'[t] = claims[t] /\ Active(t)
      BY <1>4, <1>5 DEF Active
    <3>2. CASE claims[t].object = x
      BY <2>3, <3>1, <3>2 DEF ActiveClaimKeepsObject
    <3>3. CASE claims[t].object # x
      <4>1. objects'[claims[t].object] = objects[claims[t].object]
        BY <1>7, <2>5, <3>1, <3>3
      <4> QED
        BY <3>1, <4>1 DEF ActiveClaimKeepsObject, Exists
    <3> QED
      BY <3>2, <3>3
  <2>7. \A o \in Objects : objects'[o].status # "absent" =>
          /\ Exists(o)
          /\ objects'[o].content = objects[o].content
          /\ objects'[o].scope = objects[o].scope
          /\ objects'[o].sources = objects[o].sources
    BY <1>7, <1>9, <2>3 DEF Exists
  <2>8. NoLiveDerivativeOfDeletedSource'
    BY <1>7, <2>3 DEF NoLiveDerivativeOfDeletedSource, ReconcileLocked
  <2>9. CheckpointOwnsItsClaims'
    BY <1>1, <1>2, <1>4, <1>5 DEF CheckpointOwnsItsClaims, ReconcileLocked
  <2>10. \A t \in ClaimRefs : Known(t) => /\ claims'[t].state # "absent"
                                          /\ claims'[t].object = claims[t].object
                                          /\ claims'[t].scope = claims[t].scope
    BY <1>2, <1>4, <1>5 DEF Known
  <2> QED
    BY <1>6, <2>4, <2>6, <2>7, <2>8, <2>9, <2>10, ReturningEffectInv
    DEF ReconcileLocked, TypeOK
<1> QED
  BY <1>8, <1>9

LEMMA NextInv == Inv /\ [Next]_vars => Inv'
<1> SUFFICES ASSUME Inv, [Next]_vars
             PROVE  Inv'
  OBVIOUS
<1>1. ASSUME NEW p \in Procs, Invoke(p) \/ Cancel(p)
      PROVE  Inv'
  BY <1>1, InvokeInv, CancelInv
<1>2. ASSUME NEW p \in Procs, AuthorizeFails(p) \/ EffectRefused(p)
      PROVE  Inv'
  BY <1>2, PlainReturnInv DEF AuthorizeFails, EffectRefused
<1>3. ASSUME NEW p \in Procs, ReadCheckpoint(p) \/ AuthorizeClaims(p)
      PROVE  Inv'
  BY <1>3, ReadCheckpointInv, AuthorizeClaimsInv
<1>4. ASSUME NEW p \in Procs, Effect(p)
      PROVE  Inv'
  BY <1>4, PutLockedInv, RetainLockedInv, CommitLockedInv, ReleaseLockedInv,
     RetireLockedInv, CollectLockedInv, ReconcileLockedInv DEF Effect
<1>5. ASSUME NEW p \in Procs, PutReturns(p)
      PROVE  Inv'
  BY <1>5, PutReturnsInv
<1>6. CASE UNCHANGED vars
  <2>1. UNCHANGED <<store, outcome, pc, req, refs, granted, canceled>>
    BY <1>6 DEF vars, store
  <2>2. TypeOK' /\ CallsWellFormed'
    BY <2>1 DEF Inv, TypeOK, CallsWellFormed, store
  <2> QED
    BY <2>1, <2>2, StoreUnchangedInv
<1> QED
  BY <1>1, <1>2, <1>3, <1>4, <1>5, <1>6 DEF Next, Step

-----------------------------------------------------------------------------
\* Every reachable state satisfies the inductive invariant.
THEOREM InvHolds == Spec => []Inv
<1>1. Init => Inv
  BY InitInv
<1>2. Inv /\ [Next]_vars => Inv'
  BY NextInv
<1> QED
  BY <1>1, <1>2, PTL DEF Spec

\* Type correctness of the blob store.
THEOREM TypeCorrect == Spec => []TypeOK
<1>1. Inv => TypeOK
  BY DEF Inv
<1> QED
  BY <1>1, InvHolds, PTL

\* Provisional and committed claims prevent deletion, whatever interleaving of
\* puts, retirements, cleanups and collections.
THEOREM ClaimsPreventDeletion == Spec => []ActiveClaimKeepsObject
<1>1. Inv => ActiveClaimKeepsObject
  BY DEF Inv
<1> QED
  BY <1>1, InvHolds, PTL

\* A claim is committed exactly as a member of its one active checkpoint.
THEOREM ClaimSetsAtomic == Spec => []CheckpointOwnsItsClaims
<1>1. Inv => CheckpointOwnsItsClaims
  BY DEF Inv
<1> QED
  BY <1>1, InvHolds, PTL

\* A retired source has no live derivative, even one whose Put was authorised
\* before the retirement.
THEOREM RetirementComplete == Spec => []NoLiveDerivativeOfDeletedSource
<1>1. Inv => NoLiveDerivativeOfDeletedSource
  BY DEF Inv
<1> QED
  BY <1>1, InvHolds, PTL

\* Every write is published, reported for cleanup, or still with its caller.
THEOREM NoWriteForgotten == Spec => []EveryWriteReported
<1>1. Inv => EveryWriteReported
  BY DEF Inv
<1> QED
  BY <1>1, InvHolds, PTL

\* A receipt stays good while its claim is active.
THEOREM ReceiptsGood == Spec => []ReceiptStaysGood
<1>1. Inv => ReceiptStaysGood
  <2> SUFFICES ASSUME Inv, NEW r \in ClaimRefs, outcome[r].kind # "none", Active(r)
               PROVE  /\ CheckBlob(outcome[r].blob, r) = "ok"
                      /\ Get(outcome[r].blob.object, MaxObjectBytes)
                           = [error |-> "none", content |-> outcome[r].blob.content]
    BY DEF ReceiptStaysGood
  <2> DEFINE b == outcome[r].blob
  <2>1. b.object \in Objects /\ b.content \in Contents
    BY PresentRecords DEF Inv, Descriptors
  <2>2. /\ Known(r)
        /\ claims[r].object = b.object
        /\ claims[r].scope = b.scope
        /\ Exists(b.object)
    BY DEF Inv, ReceiptsBound, ActiveClaimKeepsObject
  <2>3. /\ objects[b.object].content = b.content
        /\ objects[b.object].scope = b.scope
        /\ objects[b.object].sources = b.sources
    BY <2>2 DEF Inv, ReceiptsBound
  <2>4. CheckBlob(b, r) = "ok"
    BY <2>2, <2>3 DEF CheckBlob
  <2>5. ~(objects[b.object].content > MaxObjectBytes)
    <3>1. objects[b.object].content <= MaxObjectBytes
      BY <2>1, <2>2 DEF Inv, ObjectsNumbered
    <3>2. objects[b.object].content \in Nat
      BY <2>1, <2>3, ContentsAssumption
    <3> QED
      BY <3>1, <3>2, MaxObjectBytesAssumption
  <2>6. Get(b.object, MaxObjectBytes) = [error |-> "none", content |-> b.content]
    BY <2>2, <2>3, <2>5 DEF Get
  <2> QED
    BY <2>4, <2>6
<1> QED
  BY <1>1, InvHolds, PTL

-----------------------------------------------------------------------------
(* What a step may never do *)

\* An object, claim or checkpoint that is not in its map is the absent one.
LEMMA AbsentRecords ==
    ASSUME TypeOK, NEW o \in Objects, ~Exists(o)
    PROVE  objects[o] = AbsentObject
<1>1. objects[o] \in ObjectRecords /\ objects[o].status = "absent"
  BY DEF TypeOK, Exists
<1>2. objects[o] \in [status: {"absent"}]
  BY <1>1 DEF ObjectRecords
<1> QED
  BY <1>2 DEF AbsentObject

\* A method's arguments are of its kind when it takes effect.
LEMMA EffectRequests ==
    ASSUME Inv, NEW p \in Procs, pc[p] = "effect"
    PROVE  /\ req[p] \in Requests
           /\ req[p].op = "put" => req[p] \in PutRequests
           /\ req[p].op = "retain" => req[p] \in RetainRequests
           /\ req[p].op = "commit" => req[p] \in CommitRequests
           /\ req[p].op = "release" => req[p] \in ReleaseRequests
           /\ req[p].op = "collect" => req[p] \in CollectRequests
           /\ req[p].op = "reconcile" => req[p] \in ReconcileRequests
BY RequestTypes DEF Inv, CallsWellFormed

LEMMA PutUndoesNothing ==
    ASSUME Inv, NEW p \in Procs, pc[p] = "effect", PutLocked(p)
    PROVE  IdentitiesNeverReused /\ RetiringFrozen
<1> DEFINE r == req[p]
           o == sequence + 1
<1> USE DEF Inv
<1>1. r.ref \in ClaimRefs /\ ~Known(r.ref) /\ sequence \in Nat
  BY EffectRequests DEF PutLocked, PutAdmitted, PutRequests, TypeOK
<1>2. \A n \in Objects : n <= sequence => objects'[n] = objects[n]
  BY <1>1 DEF PutLocked, TypeOK, Objects
<1>3. /\ \A s \in ClaimRefs \ {r.ref} : claims'[s] = claims[s]
      /\ claims'[r.ref].object = o
      /\ checkpoints' = checkpoints
  BY <1>1 DEF PutLocked, TypeOK
<1>4. IdentitiesNeverReused
  BY <1>1, <1>2, <1>3 DEF IdentitiesNeverReused, Known
<1>5. \A n \in Objects : objects[n].status = "retiring" => n <= sequence /\ n # o
  BY <1>1 DEF ObjectsNumbered, Exists, Objects
<1>6. RetiringFrozen
  BY <1>2, <1>3, <1>5 DEF RetiringFrozen
<1> QED
  BY <1>4, <1>6

LEMMA RetainUndoesNothing ==
    ASSUME Inv, NEW p \in Procs, pc[p] = "effect", RetainLocked(p)
    PROVE  IdentitiesNeverReused /\ RetiringFrozen
<1> DEFINE r == req[p]
<1> USE DEF Inv
<1>1. r.ref \in ClaimRefs /\ ~Known(r.ref) /\ objects[r.object].status = "live"
  BY EffectRequests DEF RetainLocked, RetainAdmitted, RetainRequests
<1>2. /\ \A s \in ClaimRefs \ {r.ref} : claims'[s] = claims[s]
      /\ claims'[r.ref].object = r.object
      /\ UNCHANGED <<objects, checkpoints>>
  BY <1>1 DEF RetainLocked, TypeOK
<1> QED
  BY <1>1, <1>2 DEF IdentitiesNeverReused, RetiringFrozen, Known

LEMMA CommitUndoesNothing ==
    ASSUME Inv, NEW p \in Procs, pc[p] = "effect", CommitLocked(p)
    PROVE  IdentitiesNeverReused /\ RetiringFrozen
<1> DEFINE r == req[p]
<1> USE DEF Inv
<1>1. r.checkpoint \in Checkpoints /\ r.refs \in SUBSET ClaimRefs /\ objects' = objects
  BY EffectRequests DEF CommitLocked, CommitRequests
<1>2. CASE CommitRetry(r)
  BY <1>1, <1>2 DEF CommitLocked, IdentitiesNeverReused, RetiringFrozen, Known
<1>3. CASE ~CommitRetry(r)
  <2>1. /\ checkpoints[r.checkpoint].status = "absent"
        /\ \A c \in r.refs : claims[c].state = "pending" /\ objects[claims[c].object].status = "live"
    BY <1>3 DEF CommitLocked, CommitAdmitted
  <2>2. /\ \A c \in r.refs : /\ claims'[c].state = "committed"
                             /\ claims'[c].object = claims[c].object
                             /\ claims'[c].scope = claims[c].scope
        /\ \A c \in ClaimRefs \ r.refs : claims'[c] = claims[c]
        /\ \A c \in Checkpoints \ {r.checkpoint} : checkpoints'[c] = checkpoints[c]
    BY <1>1, <1>3 DEF CommitLocked, TypeOK
  <2>3. IdentitiesNeverReused
    BY <1>1, <2>1, <2>2 DEF IdentitiesNeverReused, Known
  <2>4. RetiringFrozen
    BY <1>1, <2>1, <2>2 DEF RetiringFrozen
  <2> QED
    BY <2>3, <2>4
<1> QED
  BY <1>2, <1>3

\* What a release does to the claims and checkpoints.
LEMMA ReleaseEffect ==
    ASSUME Inv, NEW p \in Procs, pc[p] = "effect", ReleaseLocked(p)
    PROVE  /\ req[p].checkpoint \in Checkpoints
           /\ checkpoints[req[p].checkpoint].status # "absent"
           /\ checkpoints[req[p].checkpoint].claims \in SUBSET ClaimRefs
           /\ \A c \in checkpoints[req[p].checkpoint].claims :
                /\ claims'[c].state = "released"
                /\ Known(c) => claims'[c].object = claims[c].object /\ claims'[c].scope = claims[c].scope
           /\ \A c \in ClaimRefs \ checkpoints[req[p].checkpoint].claims : claims'[c] = claims[c]
           /\ \A c \in Checkpoints \ {req[p].checkpoint} : checkpoints'[c] = checkpoints[c]
           /\ checkpoints'[req[p].checkpoint].status = "released"
           /\ checkpoints'[req[p].checkpoint].claims = checkpoints[req[p].checkpoint].claims
<1> DEFINE k == req[p].checkpoint
           saved == checkpoints[k]
<1> USE DEF Inv
<1>1. k \in Checkpoints /\ saved.status # "absent"
  BY EffectRequests DEF ReleaseLocked, ReleaseRequests, CallsWellFormed
<1>2. saved.claims \in SUBSET ClaimRefs
  BY <1>1, PresentRecords
<1>3. ASSUME NEW c \in saved.claims
      PROVE  /\ claims'[c].state = "released"
             /\ Known(c) => claims'[c].object = claims[c].object /\ claims'[c].scope = claims[c].scope
  <2>1. claims'[c] = [claims[c] EXCEPT !.state = "released"] /\ c \in ClaimRefs
    BY <1>2, <1>3 DEF ReleaseLocked
  <2>2. claims[c] \in ClaimRecords
    BY <2>1 DEF TypeOK
  <2>3. claims'[c].state = "released"
    BY <2>1, <2>2 DEF ClaimRecords
  <2>4. Known(c) => claims'[c].object = claims[c].object /\ claims'[c].scope = claims[c].scope
    BY <2>1, PresentRecords
  <2> QED
    BY <2>3, <2>4
<1>4. \A c \in ClaimRefs \ saved.claims : claims'[c] = claims[c]
  BY <1>2 DEF ReleaseLocked
<1>5. /\ \A c \in Checkpoints \ {k} : checkpoints'[c] = checkpoints[c]
      /\ checkpoints'[k].status = "released" /\ checkpoints'[k].claims = saved.claims
  BY <1>1 DEF ReleaseLocked, TypeOK
<1> QED
  BY <1>1, <1>2, <1>3, <1>4, <1>5

LEMMA ReleaseUndoesNothing ==
    ASSUME Inv, NEW p \in Procs, pc[p] = "effect", ReleaseLocked(p)
    PROVE  IdentitiesNeverReused /\ RetiringFrozen
<1>1. objects' = objects
  BY DEF ReleaseLocked
<1>2. IdentitiesNeverReused
  BY <1>1, ReleaseEffect DEF IdentitiesNeverReused, Known
<1>3. RetiringFrozen
  BY <1>1, ReleaseEffect DEF RetiringFrozen
<1> QED
  BY <1>2, <1>3

LEMMA RetireUndoesNothing ==
    ASSUME Inv, NEW p \in Procs, pc[p] = "effect", RetireLocked(p)
    PROVE  IdentitiesNeverReused /\ RetiringFrozen
<1>1. UNCHANGED <<claims, checkpoints>>
  BY DEF RetireLocked
<1>2. ASSUME NEW o \in Objects
      PROVE  /\ ~Exists(o) => objects'[o] = objects[o]
             /\ objects[o].status = "retiring" => objects'[o].status = "retiring"
  BY PresentRecords DEF Inv, RetireLocked, Exists
<1> QED
  BY <1>1, <1>2 DEF IdentitiesNeverReused, RetiringFrozen, Known

LEMMA CollectUndoesNothing ==
    ASSUME Inv, NEW p \in Procs, pc[p] = "effect", CollectLocked(p)
    PROVE  IdentitiesNeverReused /\ RetiringFrozen
<1> USE DEF Inv
<1>1. UNCHANGED <<claims, checkpoints>> /\ req[p].object \in Objects
  BY EffectRequests DEF CollectLocked, CollectRequests
<1>2. ASSUME NEW o \in Objects
      PROVE  objects'[o] = objects[o] \/ objects'[o] = AbsentObject
  BY DEF CollectLocked, TypeOK
<1>3. ASSUME NEW o \in Objects, ~Exists(o)
      PROVE  objects'[o] = objects[o]
  BY <1>2, <1>3, AbsentRecords
<1>4. \A o \in Objects : objects[o].status = "retiring" => objects'[o].status # "live"
  BY <1>2 DEF AbsentObject
<1> QED
  BY <1>1, <1>3, <1>4 DEF IdentitiesNeverReused, RetiringFrozen, Known

LEMMA ReconcileUndoesNothing ==
    ASSUME Inv, NEW p \in Procs, pc[p] = "effect", ReconcileLocked(p)
    PROVE  IdentitiesNeverReused /\ RetiringFrozen
<1> DEFINE r == req[p]
<1> USE DEF Inv
<1>1. r.ref \in ClaimRefs /\ r.object \in Objects /\ Known(r.ref) /\ checkpoints' = checkpoints
  BY EffectRequests DEF ReconcileLocked, ReconcileAdmitted, ReconcileRequests
<1>2. /\ \A s \in ClaimRefs \ {r.ref} : claims'[s] = claims[s]
      /\ claims'[r.ref].state = "released"
      /\ claims'[r.ref].object = claims[r.ref].object
      /\ claims'[r.ref].scope = claims[r.ref].scope
  BY <1>1, PresentRecords DEF ReconcileLocked, TypeOK
<1>3. ASSUME NEW o \in Objects
      PROVE  \/ objects'[o] = objects[o]
             \/ objects'[o] = AbsentObject
             \/ Exists(o) /\ objects'[o].status = "retiring"
  BY <1>1, PresentRecords DEF ReconcileLocked, TypeOK
<1>4. ASSUME NEW o \in Objects, ~Exists(o)
      PROVE  objects'[o] = objects[o]
  BY <1>3, <1>4, AbsentRecords
<1>5. \A o \in Objects : objects[o].status = "retiring" => objects'[o].status # "live"
  BY <1>3 DEF AbsentObject
<1>6. IdentitiesNeverReused
  BY <1>1, <1>2, <1>4 DEF IdentitiesNeverReused, Known
<1>7. RetiringFrozen
  BY <1>2, <1>5 DEF RetiringFrozen
<1> QED
  BY <1>6, <1>7

LEMMA StepUndoesNothing == Inv /\ [Next]_vars => IdentitiesNeverReused /\ RetiringFrozen
<1> SUFFICES ASSUME Inv, [Next]_vars
             PROVE  IdentitiesNeverReused /\ RetiringFrozen
  OBVIOUS
<1>1. CASE UNCHANGED store
  BY <1>1 DEF store, IdentitiesNeverReused, RetiringFrozen, Known
<1>2. ASSUME NEW p \in Procs, Effect(p)
      PROVE  IdentitiesNeverReused /\ RetiringFrozen
  BY <1>2, PutUndoesNothing, RetainUndoesNothing, CommitUndoesNothing, ReleaseUndoesNothing,
     RetireUndoesNothing, CollectUndoesNothing, ReconcileUndoesNothing DEF Effect
<1>3. ASSUME NEW p \in Procs,
             \/ Invoke(p) \/ Cancel(p) \/ AuthorizeFails(p) \/ ReadCheckpoint(p)
             \/ AuthorizeClaims(p) \/ EffectRefused(p) \/ PutReturns(p)
      PROVE  UNCHANGED store
  BY <1>3 DEF Invoke, Cancel, AuthorizeFails, ReadCheckpoint, AuthorizeClaims, EffectRefused, PutReturns
<1>4. CASE UNCHANGED vars
  BY <1>1, <1>4 DEF vars, store
<1> QED
  BY <1>1, <1>2, <1>3, <1>4 DEF Next, Step

\* No identity is ever bound anew and no retirement is undone, whatever calls
\* were under way.
THEOREM DecisionsFinal == Spec => NothingUndone
<1>1. Inv /\ [Next]_vars => [IdentitiesNeverReused /\ RetiringFrozen]_vars
  BY StepUndoesNothing
<1> QED
  BY <1>1, InvHolds, PTL DEF Spec, NothingUndone

-----------------------------------------------------------------------------
(* Authorisation and effect of CommitCheckpoint and ReleaseCheckpoint are in *)
(* different critical sections.  What ties them together is that a claim     *)
(* never changes its object and a checkpoint never changes its set: what was *)
(* authorised is still what the second section acts on.                      *)

\* The claims a commit or a release will act on.
ClaimsActedOn(p) ==
    IF req[p].op = "commit" THEN req[p].refs ELSE checkpoints[req[p].checkpoint].claims

\* A call between its sections works on the claims it will act on, and once
\* it has been authorised it holds a grant for each one's present object.
GrantsOf(p) ==
    /\ pc[p] = "snapshot" => refs[p] = ClaimsActedOn(p)
    /\ pc[p] = "effect" /\ req[p].op \in {"commit", "release"} =>
         \A r \in ClaimsActedOn(p) :
             Known(r) /\ <<r, claims[r].object>> \in granted[p]

GrantsCover == \A p \in Procs : GrantsOf(p)

\* A goroutine that does not move keeps its grants good, whatever step of
\* another one is taken.
LEMMA OthersGrantsKept ==
    ASSUME Inv, [Next]_vars, NEW q \in Procs, GrantsOf(q),
           pc'[q] = pc[q], req'[q] = req[q], refs'[q] = refs[q], granted'[q] = granted[q]
    PROVE  GrantsOf(q)'
<1> USE DEF Inv
<1>1. IdentitiesNeverReused
  BY StepUndoesNothing
<1>2. ASSUME pc[q] \in {"snapshot", "effect"}, req[q].op \in {"commit", "release"}
      PROVE  ClaimsActedOn(q)' = ClaimsActedOn(q) /\ ClaimsActedOn(q) \subseteq ClaimRefs
  <2>1. CASE req[q].op = "commit"
    <3>1. req[q] \in CommitRequests
      BY <1>2, <2>1, RequestTypes DEF CallsWellFormed
    <3> QED
      BY <2>1, <3>1 DEF ClaimsActedOn, CommitRequests
  <2>2. CASE req[q].op = "release"
    <3>1. req[q] \in ReleaseRequests /\ checkpoints[req[q].checkpoint].status # "absent"
      BY <1>2, <2>2, RequestTypes DEF CallsWellFormed
    <3>2. req[q].checkpoint \in Checkpoints
      BY <3>1 DEF ReleaseRequests
    <3>3. checkpoints'[req[q].checkpoint].claims = checkpoints[req[q].checkpoint].claims
      BY <1>1, <3>1, <3>2 DEF IdentitiesNeverReused
    <3>4. checkpoints[req[q].checkpoint].claims \subseteq ClaimRefs
      BY <3>1, <3>2, PresentRecords
    <3> QED
      BY <2>2, <3>3, <3>4 DEF ClaimsActedOn
  <2> QED
    BY <1>2, <2>1, <2>2
<1>3. pc[q] = "snapshot" => req[q].op \in {"commit", "release"}
  BY DEF CallsWellFormed
<1>4. \A r \in ClaimRefs : Known(r) => Known(r)' /\ claims'[r].object = claims[r].object
  BY <1>1 DEF IdentitiesNeverReused, Known
<1> QED
  BY <1>2, <1>3, <1>4 DEF GrantsOf

LEMMA NextGrants == Inv /\ GrantsCover /\ [Next]_vars => GrantsCover'
<1> SUFFICES ASSUME Inv, GrantsCover, [Next]_vars, NEW q \in Procs
             PROVE  GrantsOf(q)'
  BY DEF GrantsCover
<1> USE DEF Inv
<1>0. GrantsOf(q)
  BY DEF GrantsCover
<1>1. CASE pc'[q] = pc[q] /\ req'[q] = req[q] /\ refs'[q] = refs[q] /\ granted'[q] = granted[q]
  BY <1>0, <1>1, OthersGrantsKept
<1>2. CASE pc'[q] \in {"idle", "readCheckpoint", "receipt"}
  BY <1>2 DEF GrantsOf
<1>3. ASSUME NEW p \in Procs, p # q, Invoke(p) \/ Cancel(p) \/ Step(p)
      PROVE  pc'[q] = pc[q] /\ req'[q] = req[q] /\ refs'[q] = refs[q] /\ granted'[q] = granted[q]
  <2> USE <1>3
  <2>1. CASE Return(p)
    BY <2>1 DEF Return, TypeOK
  <2>2. CASE Invoke(p) \/ Cancel(p) \/ ReadCheckpoint(p) \/ AuthorizeClaims(p) \/ PutLocked(p)
    BY <2>1, <2>2 DEF Invoke, Cancel, ReadCheckpoint, AuthorizeClaims, PutLocked, Goto, TypeOK
  <2>3. CASE AuthorizeFails(p) \/ Effect(p) \/ EffectRefused(p) \/ PutReturns(p)
    BY <2>1, <2>2, <2>3
    DEF AuthorizeFails, Effect, EffectRefused, PutReturns, RetainLocked, CommitLocked,
        ReleaseLocked, RetireLocked, CollectLocked, ReconcileLocked
  <2> QED
    BY <2>2, <2>3 DEF Step
<1>4. CASE Invoke(q)
  <2>1. PICK r \in Requests :
          /\ req' = [req EXCEPT ![q] = r]
          /\ refs' = [refs EXCEPT ![q] = IF r.op = "commit" THEN r.refs ELSE {}]
          /\ Goto(q, FirstStage(r.op))
    BY <1>4 DEF Invoke
  <2>2. req'[q] = r /\ pc'[q] = FirstStage(r.op)
    BY <2>1 DEF Goto, TypeOK
  <2>3. CASE r.op = "commit"
    BY <2>1, <2>2, <2>3 DEF FirstStage, GrantsOf, ClaimsActedOn, TypeOK
  <2>4. CASE r.op # "commit"
    BY <2>2, <2>4 DEF FirstStage, GrantsOf
  <2> QED
    BY <2>3, <2>4
<1>5. CASE Cancel(q)
  BY <1>1, <1>5 DEF Cancel
<1>6. CASE Return(q)
  BY <1>2, <1>6, ReturnType
<1>7. CASE ReadCheckpoint(q) /\ ~Return(q)
  <2>1. req[q].op = "release"
    BY <1>7 DEF ReadCheckpoint, CallsWellFormed
  <2>2. /\ refs'[q] = checkpoints[req[q].checkpoint].claims
        /\ pc'[q] = "snapshot"
        /\ UNCHANGED <<req, checkpoints>>
    BY <1>7 DEF ReadCheckpoint, Goto, store, TypeOK
  <2> QED
    BY <2>1, <2>2 DEF GrantsOf, ClaimsActedOn
<1>8. CASE AuthorizeClaims(q) /\ ~Return(q)
  <2>1. /\ \A r \in refs[q] : Known(r)
        /\ granted'[q] = {<<r, claims[r].object>> : r \in refs[q]}
        /\ pc'[q] = "effect"
        /\ UNCHANGED <<req, checkpoints, claims>>
    BY <1>8 DEF AuthorizeClaims, Goto, store, TypeOK
  <2>2. refs[q] = ClaimsActedOn(q)
    BY <1>0, <1>8 DEF GrantsOf, AuthorizeClaims
  <2>3. ClaimsActedOn(q)' = ClaimsActedOn(q)
    BY <2>1 DEF ClaimsActedOn
  <2> QED
    BY <2>1, <2>2, <2>3 DEF GrantsOf, Known
<1>9. CASE PutLocked(q)
  BY <1>2, <1>9 DEF PutLocked, Goto, TypeOK
<1>10. CASE Step(q)
  BY <1>6, <1>7, <1>8, <1>9, <1>10
  DEF Step, AuthorizeFails, Effect, EffectRefused, PutReturns, RetainLocked, CommitLocked,
      ReleaseLocked, RetireLocked, CollectLocked, ReconcileLocked
<1>11. CASE UNCHANGED vars
  BY <1>1, <1>11 DEF vars
<1> QED
  BY <1>1, <1>3, <1>4, <1>5, <1>10, <1>11 DEF Next

\* A commit turns pending claims of its own set into committed ones and
\* leaves every other claim alone.
LEMMA CommitEffect ==
    ASSUME Inv, NEW p \in Procs, pc[p] = "effect", CommitLocked(p), NEW r \in ClaimRefs,
           claims'[r] # claims[r]
    PROVE  r \in req[p].refs
<1>1. CASE CommitRetry(req[p])
  BY <1>1 DEF CommitLocked
<1>2. CASE ~CommitRetry(req[p])
  BY <1>2 DEF CommitLocked
<1> QED
  BY <1>1, <1>2

LEMMA EffectAuthorized ==
    ASSUME Inv, GrantsCover, NEW p \in Procs, Effect(p), NEW r \in ClaimRefs,
           claims'[r] # claims[r], "committed" \in {claims[r].state, claims'[r].state}
    PROVE  pc'[p] = "idle" /\ <<r, claims[r].object>> \in granted[p]
<1> USE DEF Inv
<1>1. pc[p] = "effect" /\ GrantsOf(p)
  BY DEF Effect, GrantsCover
<1>2. CASE CommitLocked(p)
  <2>1. r \in ClaimsActedOn(p) /\ req[p].op = "commit"
    BY <1>1, <1>2, CommitEffect DEF ClaimsActedOn, CommitLocked
  <2> QED
    BY <1>1, <1>2, <2>1, ReturnType DEF GrantsOf, CommitLocked
<1>3. CASE ReleaseLocked(p)
  <2>1. r \in checkpoints[req[p].checkpoint].claims /\ req[p].op = "release"
    BY <1>1, <1>3, ReleaseEffect DEF ReleaseLocked
  <2>2. r \in ClaimsActedOn(p)
    BY <2>1 DEF ClaimsActedOn
  <2> QED
    BY <1>1, <1>3, <2>1, <2>2, ReturnType DEF GrantsOf, ReleaseLocked
<1>4. CASE PutLocked(p) \/ RetainLocked(p)
  <2>1. req[p].ref \in ClaimRefs /\ ~Known(req[p].ref)
    BY <1>1, <1>4, EffectRequests
    DEF PutLocked, RetainLocked, PutAdmitted, RetainAdmitted, PutRequests, RetainRequests
  <2>2. claims'[req[p].ref].state = "pending"
    BY <1>4, <2>1 DEF PutLocked, RetainLocked, TypeOK
  <2>3. \A s \in ClaimRefs \ {req[p].ref} : claims'[s] = claims[s]
    BY <1>4 DEF PutLocked, RetainLocked, TypeOK
  <2> QED
    BY <2>1, <2>2, <2>3 DEF Known
<1>5. CASE RetireLocked(p) \/ CollectLocked(p)
  BY <1>5 DEF RetireLocked, CollectLocked
<1>6. CASE ReconcileLocked(p)
  <2>1. req[p].ref \in ClaimRefs /\ claims[req[p].ref].state # "committed" /\ Known(req[p].ref)
    BY <1>1, <1>6, EffectRequests DEF ReconcileLocked, ReconcileAdmitted, ReconcileRequests
  <2>2. claims'[req[p].ref].state = "released"
    BY <1>6, <2>1, PresentRecords DEF ReconcileLocked, TypeOK
  <2>3. \A s \in ClaimRefs \ {req[p].ref} : claims'[s] = claims[s]
    BY <1>6 DEF ReconcileLocked, TypeOK
  <2> QED
    BY <2>1, <2>2, <2>3
<1> QED
  BY <1>2, <1>3, <1>4, <1>5, <1>6 DEF Effect

LEMMA StepAuthorized == Inv /\ GrantsCover /\ [Next]_vars => ClaimChangeAuthorized
<1> SUFFICES ASSUME Inv, GrantsCover, [Next]_vars, NEW r \in ClaimRefs,
                    claims'[r] # claims[r],
                    "committed" \in {claims[r].state, claims'[r].state}
             PROVE  \E p \in Procs : /\ pc[p] = "effect"
                                     /\ pc'[p] = "idle"
                                     /\ p \notin canceled
                                     /\ <<r, claims[r].object>> \in granted[p]
  BY DEF ClaimChangeAuthorized
<1>1. ASSUME NEW p \in Procs,
             \/ Invoke(p) \/ Cancel(p) \/ AuthorizeFails(p) \/ ReadCheckpoint(p)
             \/ AuthorizeClaims(p) \/ EffectRefused(p) \/ PutReturns(p)
      PROVE  claims' = claims
  BY <1>1
  DEF Invoke, Cancel, AuthorizeFails, ReadCheckpoint, AuthorizeClaims, EffectRefused, PutReturns, store
<1>2. PICK p \in Procs : Effect(p)
  BY <1>1 DEF Next, Step, vars
<1>3. pc[p] = "effect" /\ p \notin canceled
  BY <1>2 DEF Effect
<1>4. pc'[p] = "idle" /\ <<r, claims[r].object>> \in granted[p]
  BY <1>2, EffectAuthorized
<1> QED
  BY <1>3, <1>4

\* No claim becomes committed, and no committed claim is released, except by a
\* call that is not canceled and has had that claim's object authorised, even
\* though the mutex is given up between the authorisation and the effect.
THEOREM CommitsAuthorized == Spec => ClaimChangesAuthorized
<1>1. Init => GrantsCover
  BY DEF Init, GrantsCover, GrantsOf
<1>2. Inv /\ GrantsCover /\ [Next]_vars => GrantsCover'
  BY NextGrants
<1>3. Inv /\ GrantsCover /\ [Next]_vars => [ClaimChangeAuthorized]_vars
  BY StepAuthorized
<1> QED
  BY <1>1, <1>2, <1>3, InvHolds, PTL DEF Spec, ClaimChangesAuthorized

=============================================================================
