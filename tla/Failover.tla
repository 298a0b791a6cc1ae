------------------------------- MODULE Failover -------------------------------
(***************************************************************************)
(* The data of a cluster under the roles of Cluster: every node's nodes       *)
(* bucket, its ID allocator and its own WAL, writers that pass the write guard   *)
(* and commit later, and followers that apply the WAL of the leader they are      *)
(* connected to.                                                           *)
(*                                                                         *)
(* Only AddNode is here: Applier and GraphStore have the other operations, and    *)
(* ReplClient the concurrency inside one client.  A commit and its append to the  *)
(* WAL are one step, and entries are applied one at a time in order.              *)
(***************************************************************************)
EXTENDS Cluster

CONSTANT MaxWrites    \* bound: calls of AddNode

ASSUME FailoverAssumption == MaxWrites \in Nat

VARIABLES
    db,          \* node -> its nodes bucket: id -> the write that put it
    nextNodeID,  \* node -> its allocator
    wal,         \* node -> the entries it logged, [id, val]
    appliedLSN,  \* node -> Applier.appliedLSN
    writer,      \* node -> the call of AddNode under way, [id, val], or NoWrite
    writes,      \* AddNode calls so far, which number the values written
    replicated,  \* history: nodes that applied an entry since they opened
    got          \* history: node -> the writes its bucket has received

dataVars == <<db, nextNodeID, wal, appliedLSN, writer, writes, replicated, got>>
allVars == <<vars, dataVars>>

NoWrite == [id |-> 0, val |-> 0]

\* The largest key of a bucket, 0 if it is empty.
LastKey(bucket) == CHOOSE m \in DOMAIN bucket \cup {0} : \A k \in DOMAIN bucket : k <= m

Put(bucket, e) == [k \in DOMAIN bucket \cup {e.id} |-> IF k = e.id THEN e.val ELSE bucket[k]]

(***************************************************************************)
(* Opening a database.                                                      *)
(***************************************************************************)

\* Mutant: the persisted counter is believed.
loadCounters_trusting(persisted, bucket) == persisted

\* The allocator after openShard: what the meta bucket holds, or one more than the
\* last key when that is stale.
loadCounters(persisted, bucket) ==
    IF DOMAIN bucket # {} /\ LastKey(bucket) >= persisted THEN LastKey(bucket) + 1 ELSE persisted

\* A new process: the meta bucket has what the last Close of the database left
\* there, which after a crash is an older value, or none.
Reopen(n) ==
    /\ Restart(n)
    /\ \E persisted \in 0 .. nextNodeID[n] :
         nextNodeID' = [nextNodeID EXCEPT ![n] = loadCounters(persisted, db[n])]
    /\ appliedLSN' = [appliedLSN EXCEPT ![n] = 0]
    /\ writer' = [writer EXCEPT ![n] = NoWrite]
    /\ replicated' = replicated \ {n}
    /\ UNCHANGED <<db, wal, writes, got>>

(***************************************************************************)
(* Writes.                                                                 *)
(***************************************************************************)

\* AddNode: writeGuard, then the ID.
AddNode(n) ==
    /\ role[n] # "follower"
    /\ writer[n] = NoWrite
    /\ writes < MaxWrites
    /\ writes' = writes + 1
    /\ nextNodeID' = [nextNodeID EXCEPT ![n] = @ + 1]
    /\ writer' = [writer EXCEPT ![n] = [id |-> nextNodeID'[n], val |-> writes']]
    /\ UNCHANGED <<vars, db, wal, appliedLSN, replicated, got>>

\* The transaction and walAppend.  The role is not looked at again.
Commit(n) ==
    /\ writer[n] # NoWrite
    /\ db' = [db EXCEPT ![n] = Put(@, writer[n])]
    /\ wal' = [wal EXCEPT ![n] = Append(@, writer[n])]
    /\ writer' = [writer EXCEPT ![n] = NoWrite]
    /\ got' = [got EXCEPT ![n] = @ \cup {writer[n].val}]
    /\ UNCHANGED <<vars, nextNodeID, appliedLSN, writes, replicated>>

(***************************************************************************)
(* Replication.                                                            *)
(***************************************************************************)

\* Mutant: the position is reset to the first LSN, as if it were the next to ask for.
ResetLSN_toFirst(n) == IF view[n] = NoOne THEN appliedLSN ELSE [appliedLSN EXCEPT ![n] = 1]

\* becomeFollower restarts the applier when it has found a leader.
ResetLSN(n) == IF view[n] = NoOne THEN appliedLSN ELSE [appliedLSN EXCEPT ![n] = 0]

Rediscover(n) ==
    /\ Discover(n)
    /\ appliedLSN' = ResetLSN(n)
    /\ UNCHANGED <<db, nextNodeID, wal, writer, writes, replicated, got>>

\* The next entry of the leader's WAL, applied with the leader's ID.  The
\* follower's own allocator is not told.
Apply(n) ==
    /\ client[n] # NoOne /\ serving[client[n]]
    /\ appliedLSN[n] < Len(wal[client[n]])
    /\ db' = [db EXCEPT ![n] = Put(@, wal[client[n]][appliedLSN[n] + 1])]
    /\ appliedLSN' = [appliedLSN EXCEPT ![n] = @ + 1]
    /\ replicated' = replicated \cup {n}
    /\ got' = [got EXCEPT ![n] = @ \cup {wal[client[n]][appliedLSN[n] + 1].val}]
    /\ UNCHANGED <<vars, nextNodeID, wal, writer, writes>>

(***************************************************************************)
(* The specification.                                                       *)
(***************************************************************************)

FInit ==
    /\ Init
    /\ db = [n \in Nodes |-> << >>]
    /\ nextNodeID = [n \in Nodes |-> 0]
    /\ wal = [n \in Nodes |-> << >>]
    /\ appliedLSN = [n \in Nodes |-> 0]
    /\ writer = [n \in Nodes |-> NoWrite]
    /\ writes = 0
    /\ replicated = {}
    /\ got = [n \in Nodes |-> {}]

\* Raft's steps and the steps of the watcher that touch no data.
RoleStep(n) ==
    /\ \/ Raft(n) \/ Observe(n) \/ StopClient(n) \/ Promote(n) \/ Serve(n) \/ Demote(n)
       \/ StopAll(n) \/ Close(n) \/ WatchEnds(n)
    /\ UNCHANGED dataVars

FNext == \E n \in Nodes : RoleStep(n) \/ Rediscover(n) \/ Reopen(n) \/ AddNode(n) \/ Commit(n)
                            \/ Apply(n)

\* The watcher as in Cluster; a writer's goroutine commits; a client that is
\* connected goes on applying.
FFairness ==
    \A n \in Nodes :
        /\ WF_allVars((RoleStep(n) /\ Watcher(n)) \/ Rediscover(n))
        /\ WF_allVars(Commit(n))
        /\ WF_allVars(Apply(n))

FSpec == FInit /\ [][FNext]_allVars /\ FFairness

(***************************************************************************)
(* Properties.                                                             *)
(***************************************************************************)

\* Only replication can leave the allocator behind the data: an allocator that
\* has seen every write of its database, or has been healed by loadCounters, hands
\* out no ID that is in use ("so that IDs don't collide", storage.go:187).
AllocatorAhead ==
    \A n \in Nodes \ replicated : LastKey(db[n]) <= nextNodeID[n]

\* A follower that stays connected to a leader ends up having applied the leader's
\* whole log, what the leader logged before the follower switched to it included.
CatchesUp ==
    \A n \in Nodes : \A l \in Nodes \ {n} :
        <>[](client[n] = l /\ serving[l])
          => <>[](\A i \in DOMAIN wal[l] : wal[l][i].val \in got[n])

(***************************************************************************)
(* What the comments say and the code does not do.                          *)
(***************************************************************************)

\* cluster.go:55, "Historical data already on followers is preserved": no write
\* replaces what another write has put under the same ID.
HistoryPreserved ==
    [][\A n \in Nodes : \A k \in DOMAIN db[n] : db'[n][k] = db[n][k]]_allVars
================================================================================
