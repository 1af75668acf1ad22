------------------------------ MODULE RedisStore ------------------------------
(***************************************************************************)
(* adapters/store/redis: a revision key that never expires and a payload   *)
(* key that may, changed only by Lua scripts that the server runs one at a *)
(* time.  CommitState is two scripts with the deltas applied by the client *)
(* in between.  The network and the client library are not under src/: a   *)
(* script may run late, even after its caller gave up, its reply may be    *)
(* lost, and the library may send it again (go-redis repeats a command     *)
(* whose reply it did not get).                                            *)
(***************************************************************************)
EXTENDS CheckpointData

CONSTANT
    Modes       \* how the Stores in use are configured: "ttl", "persist" or both

ASSUME ModesAssumption == Modes \subseteq {"persist", "ttl"} /\ Modes # {}

VARIABLES
    ver,        \* the revision key, 0 when it is missing
    data,       \* the payload key
    ttl,        \* whether the payload key has a time to live
    scripts,    \* <<call, kind>> of the scripts that may still reach the server
    pc,         \* where each call is
    req,        \* its arguments
    mode,       \* whether its Store was configured with a TTL
    base,       \* the snapshot a commit has loaded
    next,       \* the content it sends
    seen,       \* what each load returns
    published,  \* history: the calls whose write the server has applied
    lost,       \* history: the payload that expired last
    invented    \* history: calls whose token was not yet issued when made

keys == <<ver, data, ttl>>
ghosts == <<published, lost, invented>>
vars == <<ver, data, ttl, scripts, pc, req, mode, base, next, seen,
          published, lost, invented>>

\* The payload key: missing, the empty string, or an encoded content.
NoPayload == [kind |-> "missing"]
Tombstone == [kind |-> "tombstone"]
Payload(c) == [kind |-> "content", content |-> c]

\* luaLoad answers the empty string for a missing payload, and LoadState turns
\* the empty string into the empty snapshot.
Decode(d) == IF d.kind = "content" THEN d.content ELSE EmptyContent

Done == {"ok", "conflict", "failed"}
NoMode == "none"
ScriptKinds == {"load", "write"}

Init ==
    /\ ver = 0
    /\ data = NoPayload
    /\ ttl = "none"
    /\ scripts = {}
    /\ pc = [k \in Calls |-> "unused"]
    /\ req = [k \in Calls |-> NoRequest]
    /\ mode = [k \in Calls |-> NoMode]
    /\ base = [k \in Calls |-> NoSnapshot]
    /\ next = [k \in Calls |-> EmptyContent]
    /\ seen = [k \in Calls |-> NoSnapshot]
    /\ published = {}
    /\ lost = EmptyContent
    /\ invented = {}

\* A payload is gone and the revision does not yet say so.
Missing == ver # 0 /\ data = NoPayload

-----------------------------------------------------------------------------
(* The refinement mapping: an expired payload counts as the tombstone the   *)
(* next script will write, unless the revision cannot be advanced any more. *)

Version == IF Missing /\ ~Exhausted(ver) THEN NextConversationVersion(ver) ELSE ver
Content == IF Missing /\ Exhausted(ver) THEN lost ELSE Decode(data)
Status == [k \in Calls |-> IF pc[k] \in Done \cup {"unused"} THEN pc[k] ELSE "open"]
Effect == [k \in Calls |-> IF k \in published THEN "published"
                           ELSE IF seen[k] # NoSnapshot THEN "observed"
                           ELSE "none"]

Checkpoint == INSTANCE CheckpointStore
              WITH version <- Version, content <- Content,
                   status <- Status, effect <- Effect

-----------------------------------------------------------------------------
(* The server *)

\* The payload key's time to live passes.
PayloadExpires ==
    /\ ttl = "running"
    /\ data' = NoPayload
    /\ ttl' = "none"
    /\ lost' = Decode(data)
    /\ UNCHANGED <<ver, scripts, pc, req, mode, base, next, seen, published, invented>>

\* luaState answers an error for a payload without a revision, and for a missing
\* payload it may not, or cannot, turn into a tombstone.
StateError(m) ==
    \/ ver = 0 /\ data # NoPayload
    \/ Missing /\ (m = "persist" \/ Exhausted(ver))

\* Defect: the tombstone is written at the revision of the payload it replaces.
StateVerKept == ver

\* Otherwise it goes on with these keys: a missing payload becomes a tombstone
\* at the next revision, and MSET leaves no time to live on it.
StateVer == IF Missing THEN NextConversationVersion(ver) ELSE ver
StateData == IF Missing THEN Tombstone ELSE data
StateTtl == IF Missing THEN "none" ELSE ttl

SetKeys(v, d, t) == ver' = v /\ data' = d /\ ttl' = t

\* The reply moves its caller on, unless it is lost or nobody waits for it; and
\* the script is done with, unless another copy of it is under way.
Reply(k, kind, stage) ==
    /\ \/ /\ pc[k] = IF kind = "load" THEN "loading" ELSE "writing"
          /\ pc' = [pc EXCEPT ![k] = stage]
       \/ UNCHANGED pc
    /\ \/ scripts' = scripts \ {<<k, kind>>}
       \/ UNCHANGED scripts

\* A permission preflight or the state prelude fails the script; it has
\* written nothing.
ScriptFails(k, kind) ==
    /\ <<k, kind>> \in scripts
    /\ Reply(k, kind, "failed")
    /\ UNCHANGED <<keys, req, mode, base, next, seen, ghosts>>

\* luaLoad, and what LoadState does with its answer: return it, or hand it to
\* the commit that asked.
RunLoad(k) ==
    /\ <<k, "load">> \in scripts
    /\ ~StateError(mode[k])
    /\ SetKeys(StateVer, StateData, StateTtl)
    /\ LET answer == [version |-> StateVer, content |-> Decode(StateData)]
           commit == req[k].op = "commit"
       IN  /\ Reply(k, "load", IF commit THEN "loaded" ELSE "observed")
           /\ base' = IF commit /\ pc'[k] # pc[k]
                      THEN [base EXCEPT ![k] = answer] ELSE base
           /\ seen' = IF ~commit /\ pc'[k] # pc[k]
                      THEN [seen EXCEPT ![k] = answer] ELSE seen
    /\ UNCHANGED <<req, mode, next, ghosts>>

\* luaMutate and luaClear when the token does not match: the tombstone of an
\* expired payload stays.
RunConflict(k) ==
    /\ <<k, "write">> \in scripts
    /\ ~StateError(mode[k])
    /\ StateVer # req[k].expected
    /\ SetKeys(StateVer, StateData, StateTtl)
    /\ Reply(k, "write", "conflict")
    /\ UNCHANGED <<req, mode, base, next, seen, ghosts>>

\* ... when it does but the revision is the last one ...
RunExhausted(k) ==
    /\ <<k, "write">> \in scripts
    /\ ~StateError(mode[k])
    /\ StateVer = req[k].expected
    /\ Exhausted(StateVer)
    /\ SetKeys(StateVer, StateData, StateTtl)
    /\ Reply(k, "write", "failed")
    /\ UNCHANGED <<req, mode, base, next, seen, ghosts>>

\* ... and when the write goes through: MSET of revision and payload, which
\* drops an old time to live, and PEXPIRE for a store with a TTL.
RunWrite(k) ==
    /\ <<k, "write">> \in scripts
    /\ ~StateError(mode[k])
    /\ StateVer = req[k].expected
    /\ ~Exhausted(StateVer)
    /\ LET clear == req[k].op = "clear"
       IN  SetKeys(NextConversationVersion(StateVer),
                   IF clear THEN Tombstone ELSE Payload(next[k]),
                   IF ~clear /\ mode[k] = "ttl" THEN "running" ELSE "none")
    /\ Reply(k, "write", "written")
    /\ published' = published \cup {k}
    /\ UNCHANGED <<req, mode, base, next, seen, lost, invented>>

-----------------------------------------------------------------------------
(* The clients *)

\* LoadState and CommitState send luaLoad first, ClearState sends luaClear.
Invoke(k) ==
    /\ pc[k] = "unused"
    /\ \E r \in Requests, m \in Modes :
        /\ req' = [req EXCEPT ![k] = r]
        /\ mode' = [mode EXCEPT ![k] = m]
        /\ invented' = IF Invented(r, Version) THEN invented \cup {k} ELSE invented
        /\ IF r.op = "clear"
           THEN /\ pc' = [pc EXCEPT ![k] = "writing"]
                /\ scripts' = scripts \cup {<<k, "write">>}
           ELSE /\ pc' = [pc EXCEPT ![k] = "loading"]
                /\ scripts' = scripts \cup {<<k, "load">>}
    /\ UNCHANGED <<keys, base, next, seen, published, lost>>

\* mutate compares the token with what it loaded, applies the batch to that
\* and sends luaMutate.
PrepareWrite(k) ==
    /\ pc[k] = "loaded"
    /\ LET result == Written(base[k].content, req[k])
           refused == result = Rejected \/ Exhausted(req[k].expected)
       IN  \/ /\ base[k].version # req[k].expected
              /\ pc' = [pc EXCEPT ![k] = "conflict"]
              /\ UNCHANGED <<next, scripts>>
           \/ /\ base[k].version = req[k].expected
              /\ refused
              /\ pc' = [pc EXCEPT ![k] = "failed"]
              /\ UNCHANGED <<next, scripts>>
           \/ /\ base[k].version = req[k].expected
              /\ ~refused
              /\ next' = [next EXCEPT ![k] = result]
              /\ pc' = [pc EXCEPT ![k] = "writing"]
              /\ scripts' = scripts \cup {<<k, "write">>}
    /\ UNCHANGED <<keys, req, mode, base, seen, ghosts>>

\* The context ends or the library reports a network error while the call
\* waits for a reply; the script may still be on its way.
GiveUp(k) ==
    /\ pc[k] \in {"loading", "writing"}
    /\ pc' = [pc EXCEPT ![k] = "failed"]
    /\ UNCHANGED <<keys, scripts, req, mode, base, next, seen, ghosts>>

ReturnOk(k) ==
    /\ pc[k] \in {"written", "observed"}
    /\ pc' = [pc EXCEPT ![k] = "ok"]
    /\ UNCHANGED <<keys, scripts, req, mode, base, next, seen, ghosts>>

Next ==
    \/ PayloadExpires
    \/ \E k \in Calls :
         \/ \E kind \in ScriptKinds : ScriptFails(k, kind)
         \/ RunLoad(k) \/ RunConflict(k) \/ RunExhausted(k) \/ RunWrite(k)
         \/ Invoke(k) \/ PrepareWrite(k) \/ GiveUp(k) \/ ReturnOk(k)

Spec == Init /\ [][Next]_vars

-----------------------------------------------------------------------------
(* Properties *)

\* The Redis store implements the checkpoint store contract although scripts
\* run late or twice, replies are lost and payloads expire between the two
\* scripts of a commit: no update is lost or applied twice, and no token is
\* issued for two contents.
Implements == Checkpoint!Spec

=============================================================================
