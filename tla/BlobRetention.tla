---------------------------- MODULE BlobRetention ----------------------------
(***************************************************************************)
(* The blob store of adapters/blob/memory as its concurrent callers see    *)
(* it.  One mutex protects objects, claims, checkpoints and deleted        *)
(* sources, so what a method does while holding it is one step here.  The  *)
(* application's Authorize callback runs OUTSIDE the mutex: CommitCheckpoint*)
(* and ReleaseCheckpoint snapshot state under the lock, give it back, have *)
(* what they saw authorised and lock again to act on it.                   *)
(*                                                                         *)
(* Abstractions.  An object's identity is the sequence number it is built  *)
(* from.  A payload is the number of its bytes, so its length is itself and*)
(* digest and MIME type are equal exactly when payloads are.  Authorize is *)
(* the application's: it may allow or deny any access at any time, so the  *)
(* caller's scope argument, which only reaches the callback, is left out;  *)
(* a scope here is the one frozen into a descriptor.  Calls whose          *)
(* arguments fail validation return before they read any state.            *)
(***************************************************************************)
EXTENDS Integers, FiniteSets

CONSTANTS
    Procs,           \* goroutines calling the store
    ClaimRefs,       \* retention references callers may use
    Checkpoints,     \* checkpoint identities
    Sources,         \* content references blobs derive from
    Scopes,          \* scopes written into descriptors
    Contents,        \* payloads, each the number of its bytes
    MaxObjectBytes,  \* Config.MaxObjectBytes
    MaxSequence      \* math.MaxUint64 in the code: the last object number

ASSUME ContentsAssumption == Contents \subseteq Nat
ASSUME MaxObjectBytesAssumption == MaxObjectBytes \in Nat
ASSUME MaxSequenceAssumption == MaxSequence \in Nat

VARIABLES
    sequence,        \* Store.sequence
    objects,         \* Store.objects, "absent" where the map has no entry
    claims,          \* Store.claims, "absent" where the map has no entry
    checkpoints,     \* Store.checkpoints, "absent" where it has no entry
    deletedSources,  \* Store.deletedSources
    pc,              \* where each goroutine is in its call
    req,             \* the arguments of its call
    refs,            \* the claim references the call works on
    granted,         \* <<ref, object>> pairs Authorize allowed in this call
    canceled,        \* goroutines whose context is canceled
    outcome          \* what PutBlob told the host about each write

store == <<sequence, objects, claims, checkpoints, deletedSources>>
vars == <<sequence, objects, claims, checkpoints, deletedSources,
          pc, req, refs, granted, canceled, outcome>>

-----------------------------------------------------------------------------
(* Values *)

Objects == 1..MaxSequence
NoCheckpoint == "no checkpoint"

Descriptors == [object: Objects, scope: Scopes, sources: SUBSET Sources,
                content: Contents]

\* object: present and not retiring, present and retiring, or not in the map.
ObjectRecords ==
    [status: {"live", "retiring"}, scope: Scopes, sources: SUBSET Sources,
     content: Contents]
        \cup [status: {"absent"}]

AbsentObject == [status |-> "absent"]

ClaimRecords ==
    [state: {"pending", "committed", "released"}, object: Objects,
     scope: Scopes, checkpoint: Checkpoints \cup {NoCheckpoint}]
        \cup [state: {"absent"}]

AbsentClaim == [state |-> "absent"]

CheckpointRecords ==
    [status: {"active", "released"}, claims: SUBSET ClaimRefs]
        \cup [status: {"absent"}]

AbsentCheckpoint == [status |-> "absent"]

PutRequests == [op: {"put"}, ref: ClaimRefs, scope: Scopes,
                sources: SUBSET Sources, content: Contents]

RetainRequests == [op: {"retain"}, object: Objects, ref: ClaimRefs]
\* normalizeClaims refuses an empty list and a repeated reference, and sorts
\* the rest: what goes on is a nonempty set.
CommitRequests == [op: {"commit"}, checkpoint: Checkpoints,
                   refs: (SUBSET ClaimRefs) \ {{}}]

ReleaseRequests == [op: {"release"}, checkpoint: Checkpoints]
RetireRequests == [op: {"retire"}, source: Sources]
CollectRequests == [op: {"collect"}, object: Objects]
ReconcileRequests == [op: {"reconcile"}, object: Objects, ref: ClaimRefs,
                      scope: Scopes]

NoRequest == [op |-> "none"]

Requests == PutRequests \cup RetainRequests \cup CommitRequests
            \cup ReleaseRequests \cup RetireRequests \cup CollectRequests
            \cup ReconcileRequests

\* "held": the store has returned a receipt PutBlob has not yet judged.
Outcomes == [kind: {"held", "published", "cleanup"}, blob: Descriptors]
            \cup [kind: {"none"}]

NoOutcome == [kind |-> "none"]

\* Where a goroutine can be: outside, before one of the sections of its method
\* that take the mutex, or back in PutBlob with the store's receipt.
Stages == {"idle", "readCheckpoint", "snapshot", "effect", "receipt"}

-----------------------------------------------------------------------------
(* What the store answers, as functions of its state *)

Exists(o) == objects[o].status # "absent"
Known(r) == claims[r].state # "absent"
Active(r) == claims[r].state \in {"pending", "committed"}

\* Store.Get for an object the callback allows: the payload or why not.
Get(o, maxBytes) ==
    IF ~Exists(o) THEN [error |-> "missing"]
    ELSE IF objects[o].content > maxBytes THEN [error |-> "size"]
    ELSE [error |-> "none", content |-> objects[o].content]

\* Store.CheckBlob for a descriptor d presented under retention reference r.
CheckBlob(d, r) ==
    IF ~Exists(d.object) THEN "missing"
    ELSE IF \/ ~Known(r)
            \/ claims[r].object # d.object
            \/ claims[r].scope # d.scope
            \/ objects[d.object].content # d.content
            \/ objects[d.object].scope # d.scope
            \/ objects[d.object].sources # d.sources
    THEN "mismatch"
    ELSE "ok"

-----------------------------------------------------------------------------
(* The steps of a call before its effect.  Authorize reads nothing of the    *)
(* store, so its callbacks are not steps of their own: a goroutine waits for *)
(* the mutex in a stage, and until it has it may return because a callback   *)
(* denied the access or a context check around it found it canceled.         *)

Return(p) ==
    /\ pc' = [pc EXCEPT ![p] = "idle"]
    /\ req' = [req EXCEPT ![p] = NoRequest]
    /\ refs' = [refs EXCEPT ![p] = {}]
    /\ granted' = [granted EXCEPT ![p] = {}]
    /\ canceled' = canceled \ {p}

Goto(p, stage) == pc' = [pc EXCEPT ![p] = stage]

\* The first section of the method that needs the mutex.
FirstStage(op) ==
    CASE op = "commit" -> "snapshot"
      [] op = "release" -> "readCheckpoint"
      [] OTHER -> "effect"

\* A goroutine calls a method with a fresh context.  Put refuses an oversized
\* payload before it authorises anything.
Invoke(p) ==
    /\ pc[p] = "idle"
    /\ \E r \in Requests :
        /\ r.op = "put" => r.content <= MaxObjectBytes
        /\ req' = [req EXCEPT ![p] = r]
        /\ refs' = [refs EXCEPT ![p] = IF r.op = "commit" THEN r.refs ELSE {}]
        /\ Goto(p, FirstStage(r.op))
    /\ UNCHANGED <<store, granted, canceled, outcome>>

\* authorize fails: denied by the callback, or canceled before or after it.
AuthorizeFails(p) ==
    /\ pc[p] \in {"readCheckpoint", "snapshot", "effect"}
    /\ Return(p)
    /\ UNCHANGED <<store, outcome>>

\* The context is canceled once the last authorize of the call is over.
Cancel(p) ==
    /\ pc[p] \in {"effect", "receipt"}
    /\ p \notin canceled
    /\ canceled' = canceled \cup {p}
    /\ UNCHANGED <<store, pc, req, refs, granted, outcome>>

\* ReleaseCheckpoint reads the checkpoint's references under the lock and
\* gives the lock back.
ReadCheckpoint(p) ==
    /\ pc[p] = "readCheckpoint"
    /\ LET saved == checkpoints[req[p].checkpoint]
       IN  \/ /\ saved.status = "absent"
              /\ Return(p)
           \/ /\ saved.status # "absent"
              /\ refs' = [refs EXCEPT ![p] = saved.claims]
              /\ Goto(p, "snapshot")
              /\ UNCHANGED <<req, granted, canceled>>
    /\ UNCHANGED <<store, outcome>>

\* authorizeClaims reads under the lock which object each reference is bound
\* to, gives the lock back, and has every one of those accesses authorised.
AuthorizeClaims(p) ==
    /\ pc[p] = "snapshot"
    /\ \/ /\ \E r \in refs[p] : ~Known(r)
          /\ Return(p)
       \/ /\ \A r \in refs[p] : Known(r)
          /\ granted' = [granted EXCEPT
                           ![p] = {<<r, claims[r].object>> : r \in refs[p]}]
          /\ Goto(p, "effect")
          /\ UNCHANGED <<req, refs, canceled>>
    /\ UNCHANGED <<store, outcome>>

-----------------------------------------------------------------------------
(* What the methods do under the mutex.  Each XAdmitted is the conjunction  *)
(* of the conditions under which the locked part does not return an error. *)

\* Defect of putLocked: no second look at the deleted sources after Authorize.
PutAdmittedAfterRetirement(r) ==
    /\ r.content <= MaxObjectBytes
    /\ ~Known(r.ref)
    /\ sequence # MaxSequence

PutAdmitted(r) ==
    /\ r.content <= MaxObjectBytes
    /\ ~Known(r.ref)
    /\ sequence # MaxSequence
    /\ r.sources \cap deletedSources = {}

PutLocked(p) ==
    LET r == req[p]
        o == sequence + 1
    IN  /\ r.op = "put"
        /\ PutAdmitted(r)
        /\ sequence' = o
        /\ objects' = [objects EXCEPT ![o] =
             [status |-> "live", scope |-> r.scope, sources |-> r.sources,
              content |-> r.content]]
        /\ claims' = [claims EXCEPT ![r.ref] =
             [state |-> "pending", object |-> o, scope |-> r.scope,
              checkpoint |-> NoCheckpoint]]
        /\ outcome' = [outcome EXCEPT ![r.ref] =
             [kind |-> "held",
              blob |-> [object |-> o, scope |-> r.scope, sources |-> r.sources,
                        content |-> r.content]]]
        /\ Goto(p, "receipt")
        /\ UNCHANGED <<checkpoints, deletedSources, req, refs, granted, canceled>>

\* Defect of PutBlob: a late cancellation drops the receipt.
PutReturnsWithoutIntent(p) ==
    /\ pc[p] = "receipt"
    /\ outcome' = [outcome EXCEPT ![req[p].ref] =
         IF p \in canceled THEN NoOutcome ELSE [kind |-> "published", blob |-> @.blob]]
    /\ Return(p)
    /\ UNCHANGED store

\* PutBlob judges the receipt: a context canceled meanwhile turns the write
\* into a cleanup intent, otherwise the descriptor is published.
PutReturns(p) ==
    /\ pc[p] = "receipt"
    /\ outcome' = [outcome EXCEPT ![req[p].ref] =
         [kind |-> IF p \in canceled THEN "cleanup" ELSE "published",
          blob |-> @.blob]]
    /\ Return(p)
    /\ UNCHANGED store

\* Defect of Retain: a retiring object is taken as present.
RetainAdmittedRetiring(r) == Exists(r.object) /\ ~Known(r.ref)

RetainAdmitted(r) ==
    /\ objects[r.object].status = "live"
    /\ ~Known(r.ref)

RetainLocked(p) ==
    LET r == req[p]
    IN  /\ r.op = "retain"
        /\ RetainAdmitted(r)
        /\ claims' = [claims EXCEPT ![r.ref] =
             [state |-> "pending", object |-> r.object,
              scope |-> objects[r.object].scope, checkpoint |-> NoCheckpoint]]
        /\ Return(p)
        /\ UNCHANGED <<sequence, objects, checkpoints, deletedSources, outcome>>

\* An existing checkpoint accepts only the exact retry of its own commit.
CommitRetry(r) ==
    /\ checkpoints[r.checkpoint].status = "active"
    /\ checkpoints[r.checkpoint].claims = r.refs

CommitAdmitted(r) ==
    \/ CommitRetry(r)
    \/ /\ checkpoints[r.checkpoint].status = "absent"
       /\ \A c \in r.refs :
            /\ claims[c].state = "pending"
            /\ objects[claims[c].object].status = "live"

CommitLocked(p) ==
    LET r == req[p]
    IN  /\ r.op = "commit"
        /\ CommitAdmitted(r)
        /\ \/ /\ CommitRetry(r)
              /\ UNCHANGED <<claims, checkpoints>>
           \/ /\ ~CommitRetry(r)
              /\ claims' = [c \in ClaimRefs |->
                   IF c \in r.refs
                   THEN [state |-> "committed", object |-> claims[c].object,
                         scope |-> claims[c].scope, checkpoint |-> r.checkpoint]
                   ELSE claims[c]]
              /\ checkpoints' = [checkpoints EXCEPT ![r.checkpoint] =
                   [status |-> "active", claims |-> r.refs]]
        /\ Return(p)
        /\ UNCHANGED <<sequence, objects, deletedSources, outcome>>

\* The second locked part of ReleaseCheckpoint reads the checkpoint again; it
\* has existed since the first.
ReleaseLocked(p) ==
    LET r == req[p]
        saved == checkpoints[r.checkpoint]
    IN  /\ r.op = "release"
        /\ claims' = [c \in ClaimRefs |->
             IF c \in saved.claims
             THEN [claims[c] EXCEPT !.state = "released"]
             ELSE claims[c]]
        /\ checkpoints' = [checkpoints EXCEPT ![r.checkpoint] =
             [status |-> "released", claims |-> saved.claims]]
        /\ Return(p)
        /\ UNCHANGED <<sequence, objects, deletedSources, outcome>>

RetireLocked(p) ==
    LET r == req[p]
    IN  /\ r.op = "retire"
        /\ deletedSources' = deletedSources \cup {r.source}
        /\ objects' = [o \in Objects |->
             IF Exists(o) /\ r.source \in objects[o].sources
             THEN [objects[o] EXCEPT !.status = "retiring"]
             ELSE objects[o]]
        /\ Return(p)
        /\ UNCHANGED <<sequence, claims, checkpoints, outcome>>

\* Defect of collectLocked: only committed claims keep an object.
CollectableDespitePending(o, status, current) ==
    /\ status = "retiring"
    /\ \A c \in ClaimRefs :
         current[c].state = "committed" => current[c].object # o

\* collectLocked, given the claims as they stand when it runs.
Collectable(o, status, current) ==
    /\ status = "retiring"
    /\ \A c \in ClaimRefs :
         current[c].state \in {"pending", "committed"} => current[c].object # o

\* A missing object is success without an effect.
CollectLocked(p) ==
    LET o == req[p].object
    IN  /\ req[p].op = "collect"
        /\ ~Exists(o) \/ Collectable(o, objects[o].status, claims)
        /\ objects' = [objects EXCEPT ![o] = AbsentObject]
        /\ Return(p)
        /\ UNCHANGED <<sequence, claims, checkpoints, deletedSources, outcome>>

ReconcileAdmitted(r) ==
    /\ Known(r.ref)
    /\ claims[r.ref].object = r.object
    /\ claims[r.ref].scope = r.scope
    /\ claims[r.ref].state # "committed"

\* The claim is released and its object retired whether or not collectLocked
\* then deletes the object or reports another active claim.
ReconcileLocked(p) ==
    LET r == req[p]
    IN  /\ r.op = "reconcile"
        /\ ReconcileAdmitted(r)
        /\ claims' = [claims EXCEPT ![r.ref].state = "released"]
        /\ objects' = [objects EXCEPT ![r.object] =
             IF ~Exists(r.object) \/ Collectable(r.object, "retiring", claims')
             THEN AbsentObject
             ELSE [@ EXCEPT !.status = "retiring"]]
        /\ Return(p)
        /\ UNCHANGED <<sequence, checkpoints, deletedSources, outcome>>

Admitted(r) ==
    CASE r.op = "put" -> PutAdmitted(r)
      [] r.op = "retain" -> RetainAdmitted(r)
      [] r.op = "commit" -> CommitAdmitted(r)
      [] r.op = "collect" ->
           ~Exists(r.object) \/ Collectable(r.object, objects[r.object].status, claims)
      [] r.op = "reconcile" -> ReconcileAdmitted(r)
      [] OTHER -> TRUE

\* Defect: the context is not looked at again under the mutex.
EffectDespiteCancel(p) ==
    /\ pc[p] = "effect"
    /\ \/ PutLocked(p)
       \/ RetainLocked(p)
       \/ CommitLocked(p)
       \/ ReleaseLocked(p)
       \/ RetireLocked(p)
       \/ CollectLocked(p)
       \/ ReconcileLocked(p)

Effect(p) ==
    /\ pc[p] = "effect"
    /\ p \notin canceled
    /\ \/ PutLocked(p)
       \/ RetainLocked(p)
       \/ CommitLocked(p)
       \/ ReleaseLocked(p)
       \/ RetireLocked(p)
       \/ CollectLocked(p)
       \/ ReconcileLocked(p)

\* The locked part finds the context canceled or a condition false: it returns
\* the error and changes nothing.
EffectRefused(p) ==
    /\ pc[p] = "effect"
    /\ p \in canceled \/ ~Admitted(req[p])
    /\ Return(p)
    /\ UNCHANGED <<store, outcome>>

-----------------------------------------------------------------------------
Init ==
    /\ sequence = 0
    /\ objects = [o \in Objects |-> AbsentObject]
    /\ claims = [r \in ClaimRefs |-> AbsentClaim]
    /\ checkpoints = [c \in Checkpoints |-> AbsentCheckpoint]
    /\ deletedSources = {}
    /\ pc = [p \in Procs |-> "idle"]
    /\ req = [p \in Procs |-> NoRequest]
    /\ refs = [p \in Procs |-> {}]
    /\ granted = [p \in Procs |-> {}]
    /\ canceled = {}
    /\ outcome = [r \in ClaimRefs |-> NoOutcome]

Step(p) ==
    \/ AuthorizeFails(p)
    \/ ReadCheckpoint(p)
    \/ AuthorizeClaims(p)
    \/ Effect(p)
    \/ EffectRefused(p)
    \/ PutReturns(p)

Next == \E p \in Procs : Invoke(p) \/ Cancel(p) \/ Step(p)

Spec == Init /\ [][Next]_vars

-----------------------------------------------------------------------------
(* Properties *)

\* Type correctness of the store's maps and of every goroutine's call.
TypeOK ==
    /\ sequence \in 0..MaxSequence
    /\ objects \in [Objects -> ObjectRecords]
    /\ claims \in [ClaimRefs -> ClaimRecords]
    /\ checkpoints \in [Checkpoints -> CheckpointRecords]
    /\ deletedSources \in SUBSET Sources
    /\ pc \in [Procs -> Stages]
    /\ req \in [Procs -> Requests \cup {NoRequest}]
    /\ refs \in [Procs -> SUBSET ClaimRefs]
    /\ granted \in [Procs -> SUBSET (ClaimRefs \X Objects)]
    /\ canceled \in SUBSET Procs
    /\ outcome \in [ClaimRefs -> Outcomes]

\* "Both provisional and committed claims prevent deletion": while a claim is
\* active its object is in the store with the scope the claim was given.
ActiveClaimKeepsObject ==
    \A r \in ClaimRefs :
        Active(r) => /\ Exists(claims[r].object)
                     /\ objects[claims[r].object].scope = claims[r].scope

\* "A claim belongs to exactly one checkpoint" and "the entire claim set
\* commits atomically": a claim is committed exactly when it is in the set of
\* the one checkpoint it names and that checkpoint is active, and the claims
\* of a released checkpoint are all released.
CheckpointOwnsItsClaims ==
    /\ \A r \in ClaimRefs, c \in Checkpoints :
         checkpoints[c].status = "active" =>
           (r \in checkpoints[c].claims
              <=> claims[r].state = "committed" /\ claims[r].checkpoint = c)
    /\ \A r \in ClaimRefs :
         claims[r].state = "committed" =>
           \E c \in Checkpoints : /\ claims[r].checkpoint = c
                                  /\ checkpoints[c].status = "active"
    /\ \A c \in Checkpoints :
         checkpoints[c].status = "released" =>
           \A r \in checkpoints[c].claims : claims[r].state = "released"

\* RetireSource leaves no derivative behind: an object written from a deleted
\* source, even by a Put that was authorised before the retirement, is never
\* live.
NoLiveDerivativeOfDeletedSource ==
    \A o \in Objects :
        objects[o].status = "live" => objects[o].sources \cap deletedSources = {}

\* A descriptor PutBlob handed out stays good for as long as its claim is
\* active, whatever other callers do: CheckBlob confirms it and Get returns
\* the bytes that were written.
ReceiptStaysGood ==
    \A r \in ClaimRefs :
        outcome[r].kind # "none" /\ Active(r) =>
            /\ CheckBlob(outcome[r].blob, r) = "ok"
            /\ Get(outcome[r].blob.object, MaxObjectBytes)
                 = [error |-> "none", content |-> outcome[r].blob.content]

\* No write is lost track of: every object the store ever numbered was
\* reported by PutBlob as published or as a cleanup intent, or is still in the
\* hands of the call that wrote it.
EveryWriteReported ==
    \A o \in 1..sequence : \E r \in ClaimRefs :
        /\ outcome[r].kind # "none"
        /\ outcome[r].blob.object = o
        /\ outcome[r].kind = "held" =>
             \E p \in Procs : pc[p] = "receipt" /\ req[p].ref = r

\* "Object/claim/checkpoint identities are never reused, including after
\* cleanup": a deleted object's number is not given out again, a claim keeps
\* its object and scope and never leaves "released", and a checkpoint keeps
\* its set and never leaves "released".
IdentitiesNeverReused ==
    /\ \A o \in Objects : o <= sequence /\ ~Exists(o) => objects'[o] = objects[o]
    /\ \A r \in ClaimRefs : Known(r) =>
         /\ claims'[r].state # "absent"
         /\ claims'[r].object = claims[r].object
         /\ claims'[r].scope = claims[r].scope
         /\ claims[r].state = "released" => claims'[r].state = "released"
    /\ \A c \in Checkpoints : checkpoints[c].status # "absent" =>
         /\ checkpoints'[c].status # "absent"
         /\ checkpoints'[c].claims = checkpoints[c].claims
         /\ checkpoints[c].status = "released" => checkpoints'[c].status = "released"

\* "New claims/commits and new writes derived from this source are rejected":
\* from the moment an object is retiring, no claim on it starts, none becomes
\* committed, and it never becomes live again.
RetiringFrozen ==
    \A o \in Objects : objects[o].status = "retiring" =>
        /\ objects'[o].status # "live"
        /\ \A r \in ClaimRefs :
             claims'[r].state \in {"pending", "committed"} /\ claims'[r].object = o
               => claims[r] = claims'[r]

\* What is decided stays decided: no identity is ever bound anew and no
\* retirement is undone, whatever calls were under way.
NothingUndone == [][IdentitiesNeverReused /\ RetiringFrozen]_vars

\* "Commit/release authorize both checkpoint and actual bound objects, then
\* recheck state and context cancellation under the mutex": a claim becomes
\* committed, or leaves "committed", only in the step of a call whose context
\* is not canceled and which has had that very claim's object authorised.
ClaimChangeAuthorized ==
    \A r \in ClaimRefs :
        /\ claims'[r] # claims[r]
        /\ "committed" \in {claims[r].state, claims'[r].state}
        => \E p \in Procs : /\ pc[p] = "effect"
                            /\ pc'[p] = "idle"
                            /\ p \notin canceled
                            /\ <<r, claims[r].object>> \in granted[p]

ClaimChangesAuthorized == [][ClaimChangeAuthorized]_vars

-----------------------------------------------------------------------------
(* The inductive invariant: besides the properties above, where a call can  *)
(* be, that object numbers come from the sequence, and what a receipt says. *)

CallsWellFormed ==
    \A p \in Procs :
        /\ pc[p] # "idle" => req[p] \in Requests
        /\ pc[p] = "readCheckpoint" => req[p].op = "release"
        /\ pc[p] = "snapshot" => req[p].op \in {"commit", "release"}
        /\ pc[p] = "receipt" =>
             req[p].op = "put" /\ outcome[req[p].ref].kind # "none"
        /\ pc[p] \in {"snapshot", "effect"} /\ req[p].op = "release" =>
             checkpoints[req[p].checkpoint].status # "absent"

ObjectsNumbered ==
    \A o \in Objects :
        Exists(o) => o <= sequence /\ objects[o].content <= MaxObjectBytes

ReceiptsBound ==
    \A r \in ClaimRefs : outcome[r].kind # "none" =>
        LET blob == outcome[r].blob
        IN  /\ blob.object <= sequence
            /\ Known(r)
            /\ claims[r].object = blob.object
            /\ claims[r].scope = blob.scope
            /\ Exists(blob.object) =>
                 /\ objects[blob.object].content = blob.content
                 /\ objects[blob.object].scope = blob.scope
                 /\ objects[blob.object].sources = blob.sources

Inv == /\ TypeOK
       /\ CallsWellFormed
       /\ ObjectsNumbered
       /\ ReceiptsBound
       /\ ActiveClaimKeepsObject
       /\ CheckpointOwnsItsClaims
       /\ NoLiveDerivativeOfDeletedSource
       /\ EveryWriteReported

=============================================================================
