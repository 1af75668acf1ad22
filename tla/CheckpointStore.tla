-------------------------- MODULE CheckpointStore --------------------------
(***************************************************************************)
(* What ConversationStateStore promises (conversation_delta.go,            *)
(* docs/checkpoint-store.md): an optimistic-concurrency register holding a *)
(* revision and a content.  A write takes effect at most once, at one      *)
(* instant, only while its expected revision is current, and advances the  *)
(* revision by one.  A load returns revision and content of one instant.   *)
(* A call that failed may still take effect later ("a network error during *)
(* mutation may occur after the backend committed").  A payload may expire,*)
(* which advances the revision too.  The memory, Redis and Postgres stores *)
(* are shown to implement this module.                                     *)
(***************************************************************************)
EXTENDS CheckpointData

VARIABLES
    version,   \* the current revision, 0 before the first write
    content,   \* the content at that revision
    req,       \* the arguments of each call
    status,    \* how far its caller is: not made, open, or how it returned
    effect,    \* whether it has taken effect on the store
    seen,      \* what each load observed
    invented   \* calls whose token had not been issued when they were made

vars == <<version, content, req, status, effect, seen, invented>>

Statuses == {"unused", "open", "ok", "conflict", "failed"}

Init ==
    /\ version = 0
    /\ content = EmptyContent
    /\ req = [k \in Calls |-> NoRequest]
    /\ status = [k \in Calls |-> "unused"]
    /\ effect = [k \in Calls |-> "none"]
    /\ seen = [k \in Calls |-> NoSnapshot]
    /\ invented = {}

Invoke(k) ==
    /\ status[k] = "unused"
    /\ \E r \in Requests :
        /\ req' = [req EXCEPT ![k] = r]
        /\ invented' = IF Invented(r, version) THEN invented \cup {k} ELSE invented
    /\ status' = [status EXCEPT ![k] = "open"]
    /\ UNCHANGED <<version, content, effect, seen>>

\* Defect: the token is not compared.
PublishUnconditionally(k) ==
    /\ status[k] \in {"open", "conflict", "failed"}
    /\ effect[k] = "none"
    /\ IsWrite(req[k])
    /\ ~Exhausted(version)
    /\ Written(content, req[k]) # Rejected
    /\ version' = NextConversationVersion(version)
    /\ content' = Written(content, req[k])
    /\ effect' = [effect EXCEPT ![k] = "published"]
    /\ UNCHANGED <<req, status, seen, invented>>

\* The write takes effect, possibly after its caller was told of a failure.
Publish(k) ==
    /\ status[k] \in {"open", "conflict", "failed"}
    /\ effect[k] = "none"
    /\ IsWrite(req[k])
    /\ req[k].expected = version
    /\ ~Exhausted(version)
    /\ Written(content, req[k]) # Rejected
    /\ version' = NextConversationVersion(version)
    /\ content' = Written(content, req[k])
    /\ effect' = [effect EXCEPT ![k] = "published"]
    /\ UNCHANGED <<req, status, seen, invented>>

\* Defect: the revision is read but the payload is taken for missing.
ObserveRevisionOnly(k) ==
    /\ status[k] = "open"
    /\ req[k].op = "load"
    /\ effect[k] = "none"
    /\ seen' = [seen EXCEPT ![k] = [version |-> version, content |-> EmptyContent]]
    /\ effect' = [effect EXCEPT ![k] = "observed"]
    /\ UNCHANGED <<version, content, req, status, invented>>

\* The load observes the store.
Observe(k) ==
    /\ status[k] = "open"
    /\ req[k].op = "load"
    /\ effect[k] = "none"
    /\ seen' = [seen EXCEPT ![k] = [version |-> version, content |-> content]]
    /\ effect' = [effect EXCEPT ![k] = "observed"]
    /\ UNCHANGED <<version, content, req, status, invented>>

\* The payload's time to live passes: an empty tombstone at the next revision.
Expire ==
    /\ version # 0
    /\ ~Exhausted(version)
    /\ version' = NextConversationVersion(version)
    /\ content' = EmptyContent
    /\ UNCHANGED <<req, status, effect, seen, invented>>

Return(k, s) ==
    /\ status[k] = "open"
    /\ status' = [status EXCEPT ![k] = s]
    /\ UNCHANGED <<version, content, req, effect, seen, invented>>

ReturnOk(k) == effect[k] # "none" /\ Return(k, "ok")
\* A caller is told of a conflict only if the token it got from an earlier
\* load is no longer current, or was never issued at all.
ReturnConflict(k) ==
    /\ IsWrite(req[k])
    /\ req[k].expected # version \/ k \in invented
    /\ Return(k, "conflict")
ReturnFailed(k) == Return(k, "failed")

Next ==
    \/ Expire
    \/ \E k \in Calls : \/ Invoke(k) \/ Publish(k) \/ Observe(k)
                        \/ ReturnOk(k) \/ ReturnConflict(k) \/ ReturnFailed(k)

Spec == Init /\ [][Next]_vars

-----------------------------------------------------------------------------
(* Properties *)

\* Type correctness.
TypeOK ==
    /\ version \in Versions
    /\ content \in Contents
    /\ req \in [Calls -> Requests \cup {NoRequest}]
    /\ status \in [Calls -> Statuses]
    /\ effect \in [Calls -> {"none", "published", "observed"}]
    /\ seen \in [Calls -> Snapshots \cup {NoSnapshot}]
    /\ invented \in SUBSET Calls

\* "Concurrent writers with the same token produce one success": of the calls
\* that expected one revision at most one ever takes effect.
OneWinnerPerToken ==
    \A j, k \in Calls :
        /\ effect[j] = "published"
        /\ effect[k] = "published"
        /\ req[j].expected = req[k].expected
        => j = k

\* A revision names a content: two loads that return the same revision return
\* the same content, and a load that returns the current revision returns the
\* current content, so a batch committed against a loaded revision is applied
\* to exactly what was loaded.
LoadsAgree ==
    /\ \A j, k \in Calls :
         effect[j] = "observed" /\ effect[k] = "observed"
           /\ seen[j].version = seen[k].version => seen[j] = seen[k]
    /\ \A k \in Calls :
         effect[k] = "observed" /\ seen[k].version = version
           => seen[k].content = content

\* Tokens are never reissued: the revision only grows, by one, and the content
\* never changes under an unchanged revision (clear and expiry included).
RevisionAdvances ==
    [][/\ version' \in {version, version + 1}
       /\ version' = version => content' = content]_vars

-----------------------------------------------------------------------------
(* The inductive invariant behind the three: what has taken effect lies      *)
(* below the current revision and no call changes its arguments afterwards.  *)

EffectsOfCallsMade ==
    \A k \in Calls :
        /\ status[k] = "unused" => effect[k] = "none"
        /\ effect[k] = "published" => IsWrite(req[k]) /\ req[k].expected < version
        /\ effect[k] = "observed" => seen[k] \in Snapshots /\ seen[k].version <= version

\* The conjunction that every step preserves.
Inv == TypeOK /\ EffectsOfCallsMade /\ OneWinnerPerToken /\ LoadsAgree

=============================================================================
