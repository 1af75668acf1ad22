---------------------------- MODULE PostgresStore ----------------------------
(***************************************************************************)
(* adapters/store/postgres: one row per conversation, absent at revision 0.*)
(* A write is a transaction: SELECT ... FOR UPDATE, the batch applied by   *)
(* the client, INSERT or UPDATE, COMMIT.  The server's locking (READ       *)
(* COMMITTED) is not under src/: a row lock is held to the end of the      *)
(* transaction, SELECT does not see an uncommitted insert, and a second    *)
(* INSERT of the same key waits for the first transaction to end.  A call  *)
(* may lose its connection at any point; the server then rolls its         *)
(* transaction back, except that a COMMIT already sent may still succeed.  *)
(***************************************************************************)
EXTENDS CheckpointData, FiniteSets

VARIABLES
    version,    \* the committed row's version, 0 when there is no row
    content,    \* its segments
    holder,     \* the transaction holding the row, or inserting it: none or one
    tx,         \* each call's transaction on the server
    pc,         \* where the call is
    req,        \* its arguments
    base,       \* the snapshot loadLocked returned to it
    next,       \* the content prepareMutation encoded
    seen,       \* what each load returns
    published,  \* history: the calls whose transaction committed
    invented    \* history: calls whose token was not yet issued when made

row == <<version, content>>
vars == <<version, content, holder, tx, pc, req, base, next, seen, published, invented>>

\* "unknown": an error of tx.Commit; "failed": any earlier error.
Done == {"ok", "conflict", "failed", "unknown"}
Stages == Done \cup {"unused", "called", "begun", "locked", "prepared",
                     "persisted", "committing", "committed", "observed"}

Init ==
    /\ version = 0
    /\ content = EmptyContent
    /\ holder = {}
    /\ tx = [k \in Calls |-> "none"]
    /\ pc = [k \in Calls |-> "unused"]
    /\ req = [k \in Calls |-> NoRequest]
    /\ base = [k \in Calls |-> NoSnapshot]
    /\ next = [k \in Calls |-> EmptyContent]
    /\ seen = [k \in Calls |-> NoSnapshot]
    /\ published = {}
    /\ invented = {}

Goto(k, stage) == pc' = [pc EXCEPT ![k] = stage]

\* Defect: the transaction is left without a rollback and keeps its lock.
EndTxLeaking(k) ==
    /\ tx' = [tx EXCEPT ![k] = "none"]
    /\ UNCHANGED holder

\* The transaction ends on the server and its lock is free.
EndTx(k) ==
    /\ tx' = [tx EXCEPT ![k] = "none"]
    /\ holder' = holder \ {k}

Invoke(k) ==
    /\ pc[k] = "unused"
    /\ \E r \in Requests :
        /\ req' = [req EXCEPT ![k] = r]
        /\ invented' = IF Invented(r, version) THEN invented \cup {k} ELSE invented
    /\ Goto(k, "called")
    /\ UNCHANGED <<row, holder, tx, base, next, seen, published>>

\* LoadState reads the committed row in one statement.
Load(k) ==
    /\ pc[k] = "called"
    /\ req[k].op = "load"
    /\ seen' = [seen EXCEPT ![k] = [version |-> version, content |-> content]]
    /\ Goto(k, "observed")
    /\ UNCHANGED <<row, holder, tx, req, base, next, published, invented>>

Begin(k) ==
    /\ pc[k] = "called"
    /\ IsWrite(req[k])
    /\ tx' = [tx EXCEPT ![k] = "open"]
    /\ Goto(k, "begun")
    /\ UNCHANGED <<row, holder, req, base, next, seen, published, invented>>

\* SELECT ... FOR UPDATE waits for the row's lock, if there is a row, and sees
\* what its last holder committed; without a row it returns at once.
LoadLocked(k) ==
    /\ pc[k] = "begun"
    /\ version # 0 => holder = {}
    /\ \/ /\ version # req[k].expected
          /\ Goto(k, "conflict")
          /\ EndTx(k)
          /\ UNCHANGED base
       \/ /\ version = req[k].expected
          /\ base' = [base EXCEPT ![k] = [version |-> version, content |-> content]]
          /\ holder' = IF version # 0 THEN {k} ELSE holder
          /\ Goto(k, "locked")
          /\ UNCHANGED tx
    /\ UNCHANGED <<row, req, next, seen, published, invented>>

PrepareMutation(k) ==
    /\ pc[k] = "locked"
    /\ LET result == Written(base[k].content, req[k])
           refused == result = Rejected \/ Exhausted(base[k].version)
       IN  \/ /\ refused
              /\ Goto(k, "failed")
              /\ EndTx(k)
              /\ UNCHANGED next
           \/ /\ ~refused
              /\ next' = [next EXCEPT ![k] = result]
              /\ Goto(k, "prepared")
              /\ UNCHANGED <<holder, tx>>
    /\ UNCHANGED <<row, req, base, seen, published, invented>>

\* The row was there: UPDATE ... WHERE version = expected.
PersistUpdate(k) ==
    /\ pc[k] = "prepared"
    /\ base[k].version # 0
    /\ \/ /\ version = req[k].expected
          /\ Goto(k, "persisted")
          /\ UNCHANGED <<holder, tx>>
       \/ /\ version # req[k].expected
          /\ Goto(k, "conflict")
          /\ EndTx(k)
    /\ UNCHANGED <<row, req, base, next, seen, published, invented>>

\* Defect: the insert replaces a row that is already there.
PersistInsertReplacing(k) ==
    /\ pc[k] = "prepared"
    /\ base[k].version = 0
    /\ holder = {}
    /\ holder' = {k}
    /\ Goto(k, "persisted")
    /\ UNCHANGED <<row, tx, req, base, next, seen, published, invented>>

\* It was not: INSERT waits for another insert of the key to end and fails on
\* the unique index if that one, or any earlier one, committed.
PersistInsert(k) ==
    /\ pc[k] = "prepared"
    /\ base[k].version = 0
    /\ holder = {}
    /\ \/ /\ version = 0
          /\ holder' = {k}
          /\ Goto(k, "persisted")
          /\ UNCHANGED tx
       \/ /\ version # 0
          /\ Goto(k, "conflict")
          /\ EndTx(k)
    /\ UNCHANGED <<row, req, base, next, seen, published, invented>>

SendCommit(k) ==
    /\ pc[k] = "persisted"
    /\ tx' = [tx EXCEPT ![k] = "committing"]
    /\ Goto(k, "committing")
    /\ UNCHANGED <<row, holder, req, base, next, seen, published, invented>>

\* The server commits, whether or not the client is still there to learn it.
ServerCommits(k) ==
    /\ tx[k] = "committing"
    /\ version' = NextConversationVersion(base[k].version)
    /\ content' = next[k]
    /\ published' = published \cup {k}
    /\ EndTx(k)
    /\ IF pc[k] = "committing" THEN Goto(k, "committed") ELSE UNCHANGED pc
    /\ UNCHANGED <<req, base, next, seen, invented>>

\* The server rolls back: COMMIT fails, or the client is gone.
ServerAborts(k) ==
    /\ \/ tx[k] = "committing"
       \/ tx[k] = "open" /\ pc[k] \in Done
    /\ EndTx(k)
    /\ IF pc[k] = "committing" THEN Goto(k, "unknown") ELSE UNCHANGED pc
    /\ UNCHANGED <<row, req, base, next, seen, published, invented>>

\* Defect: an error of COMMIT is reported like any other.
ConnectionLostDefinite(k) ==
    /\ pc[k] \in Stages \ (Done \cup {"unused", "observed"})
    /\ Goto(k, "failed")
    /\ UNCHANGED <<row, holder, tx, req, base, next, seen, published, invented>>

\* The context ends or the connection breaks: the call returns an error and
\* leaves its transaction to the server.  An answer to COMMIT may be lost too.
ConnectionLost(k) ==
    /\ pc[k] \in Stages \ (Done \cup {"unused", "observed"})
    /\ Goto(k, IF pc[k] \in {"committing", "committed"} THEN "unknown" ELSE "failed")
    /\ UNCHANGED <<row, holder, tx, req, base, next, seen, published, invented>>

ReturnOk(k) ==
    /\ pc[k] \in {"committed", "observed"}
    /\ Goto(k, "ok")
    /\ UNCHANGED <<row, holder, tx, req, base, next, seen, published, invented>>

Lock(k) == LoadLocked(k) \/ PersistInsert(k)
Step(k) == \/ Load(k) \/ Begin(k) \/ PrepareMutation(k) \/ PersistUpdate(k)
           \/ SendCommit(k) \/ ReturnOk(k)

Server(k) == ServerCommits(k) \/ ServerAborts(k)

Next == \E k \in Calls : \/ Invoke(k) \/ Lock(k) \/ Step(k) \/ Server(k)
                         \/ ConnectionLost(k)

\* A running call goes on, the server ends every transaction it was told to or
\* whose client is gone, and its lock queues are first come, first served.
Fairness == \A k \in Calls : WF_vars(Step(k)) /\ WF_vars(Server(k)) /\ SF_vars(Lock(k))

Spec == Init /\ [][Next]_vars
FairSpec == Spec /\ Fairness

-----------------------------------------------------------------------------
(* Properties *)

Status == [k \in Calls |-> IF pc[k] = "unknown" THEN "failed"
                           ELSE IF pc[k] \in Done \cup {"unused"} THEN pc[k]
                           ELSE "open"]

Effect == [k \in Calls |-> IF k \in published THEN "published"
                           ELSE IF seen[k] # NoSnapshot THEN "observed"
                           ELSE "none"]

Checkpoint == INSTANCE CheckpointStore WITH status <- Status, effect <- Effect

\* The Postgres store implements the checkpoint store contract, the race of two
\* first writers and transactions that commit after their caller gave up
\* included.
Implements == Checkpoint!Spec

\* "Stale/exhausted tokens still fail without publication": only an error of
\* COMMIT leaves the outcome open.  A call that reported a conflict or failed
\* earlier has not taken effect and never will.
EarlyErrorsDefinite ==
    \A k \in Calls :
        pc[k] \in {"conflict", "failed"} => k \notin published /\ tx[k] # "committing"

\* Transactions never wait for each other forever: every call returns.  As each
\* is made once, in the end all that were made are done.
CallsReturn == <>[](\A k \in Calls : pc[k] \in Done \cup {"unused"})

=============================================================================
