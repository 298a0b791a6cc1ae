------------------------------- MODULE GraphStore -------------------------------
(***************************************************************************)
(* The leader's write path (node.go, edge.go, label.go): threads call the     *)
(* public write operations, and every operation is a sequence of bbolt        *)
(* transactions followed by an append to the WAL.  Nothing holds the steps of   *)
(* one call together, so the calls of different threads interleave between      *)
(* any two of them.                                                         *)
(*                                                                         *)
(* A step is one transaction with the counter it bumps on success, one View,    *)
(* or one walAppend.  A call that fails before its first transaction has no     *)
(* effect and is not an action.  writeGuard and isClosed let every call pass:   *)
(* this is an open database on a leader.  The node cache, the Bloom filter and  *)
(* the secondary indexes are not part of this module.                         *)
(***************************************************************************)
EXTENDS Applier

CONSTANTS
    Threads,     \* goroutines calling the API
    Ops,         \* the operations they call
    PropArgs,    \* properties they pass
    LabelArgs,   \* label lists they pass, as sets
    MaxNodes,    \* bound: node IDs allocated
    MaxEdges,    \* bound: edge IDs allocated
    MaxCalls,    \* bound: calls made
    MaxFaults    \* bound: transactions and WAL appends that fail

ASSUME GraphStoreAssumption ==
    /\ {MaxNodes, MaxEdges, MaxCalls, MaxFaults} \subseteq Nat
    /\ MaxNodes < UintMod   \* IDs and counters are both uint64

VARIABLES
    g,                      \* the buckets, and the shards' counters
    wal,                    \* the leader's log
    nextNodeID, nextEdgeID, \* the primary shard's allocators
    th,                     \* what each thread's call has still to do
    calls, faults

vars == <<g, wal, nextNodeID, nextEdgeID, th, calls, faults>>

NodeIDs == 1 .. MaxNodes
None == [op |-> "None"]

\* A thread: its next step, the WAL entry to append, the nodes or edges it has
\* still to write or delete, the adj_in entries left, and the node of DeleteNode.
Idle == [step |-> "idle", entry |-> None, todo |-> {}, adj |-> {}, id |-> 0]

Init ==
    /\ g = EmptyGraph
    /\ wal = << >>
    /\ nextNodeID = 0
    /\ nextEdgeID = 0
    /\ th = [t \in Threads |-> Idle]
    /\ calls = 0
    /\ faults = 0

\* A call begins: the thread goes on with the record r.
Begin(op, t, r) ==
    /\ op \in Ops
    /\ th[t].step = "idle"
    /\ calls < MaxCalls
    /\ calls' = calls + 1
    /\ th' = [th EXCEPT ![t] = r]
    /\ UNCHANGED faults

\* The thread's call goes on.
Goto(t, r) == th' = [th EXCEPT ![t] = r] /\ UNCHANGED <<calls, faults>>

ToLog(entry) == [Idle EXCEPT !.step = "log", !.entry = entry]

(***************************************************************************)
(* Nodes.                                                                  *)
(***************************************************************************)

\* AddNode, AddNodeWithLabels and AddNodeBatch up to the first transaction: IDs
\* from the primary shard.
AllocNodes(op, t, N) ==
    /\ Begin(op, t, [Idle EXCEPT !.step = "putNodes", !.todo = N,
                                 !.entry = [op |-> op, nodes |-> N]])
    /\ nextNodeID' = nextNodeID + Cardinality(N)
    /\ nextNodeID' <= MaxNodes
    /\ UNCHANGED <<g, wal, nextEdgeID>>

AddNode(t) ==
    \E p \in PropArgs :
        AllocNodes("AddNode", t, {[id |-> nextNodeID + 1, props |-> p, labels |-> {}]})

AddNodeWithLabels(t) ==
    \E p \in PropArgs, L \in LabelArgs :
        AllocNodes("AddNodeWithLabels", t,
                   {[id |-> nextNodeID + 1, props |-> p, labels |-> L]})

\* A batch of two.
AddNodeBatch(t) ==
    \E p \in PropArgs :
        AllocNodes("AddNodeBatch", t,
                   {[id |-> nextNodeID + i, props |-> p, labels |-> {}] : i \in {1, 2}})

\* One shard's nodes in one transaction, the shards in the order of a Go map.
PutNodesTx(t) ==
    /\ th[t].step = "putNodes"
    /\ \E s \in {shardFor(n.id) : n \in th[t].todo} :
         LET group == {n \in th[t].todo : shardFor(n.id) = s}
             rest  == th[t].todo \ group
         IN /\ g' = PutNodes(g, group)
            /\ Goto(t, IF rest = {} THEN ToLog(th[t].entry)
                                    ELSE [th[t] EXCEPT !.todo = rest])
    /\ UNCHANGED <<wal, nextNodeID, nextEdgeID>>

\* The operations of one transaction on one node that exists: found and changed
\* inside the transaction.
NodeTx(op, t, id, g1, entry) ==
    /\ id \in DOMAIN g.nodes
    /\ g' = g1
    /\ Begin(op, t, ToLog(entry))
    /\ UNCHANGED <<wal, nextNodeID, nextEdgeID>>

UpdateNode(t) ==
    \E id \in NodeIDs, p \in PropArgs :
        NodeTx("UpdateNode", t, id, MergeNode(g, id, p),
               [op |-> "UpdateNode", id |-> id, props |-> p])

\* Mutant: the overwrite does not look for the node.
SetNodeProps_unchecked(t) ==
    \E id \in 1 .. nextNodeID, p \in PropArgs :
        /\ g' = SetNode(g, id, p)
        /\ Begin("SetNodeProps", t, ToLog([op |-> "SetNodeProps", id |-> id, props |-> p]))
        /\ UNCHANGED <<wal, nextNodeID, nextEdgeID>>

SetNodeProps(t) ==
    \E id \in NodeIDs, p \in PropArgs :
        NodeTx("SetNodeProps", t, id, SetNode(g, id, p),
               [op |-> "SetNodeProps", id |-> id, props |-> p])

AddLabel(t) ==
    \E id \in NodeIDs, L \in LabelArgs \ {{}} :
        NodeTx("AddLabel", t, id, AddLabels(g, id, L),
               [op |-> "AddLabel", id |-> id, labels |-> L])

RemoveLabel(t) ==
    \E id \in NodeIDs, L \in LabelArgs \ {{}} :
        NodeTx("RemoveLabel", t, id, RemoveLabels(g, id, L),
               [op |-> "RemoveLabel", id |-> id, labels |-> L])

(***************************************************************************)
(* Edges.                                                                  *)
(***************************************************************************)

EdgeOf(id) == [id |-> id, from |-> g.edges[id].from, to |-> g.edges[id].to,
               props |-> g.edges[id].props]

\* verifyNodeExists for the source.
AddEdge(t) ==
    /\ nextEdgeID + Cardinality({u \in Threads : th[u].step = "checkTo"}) < MaxEdges
    /\ \E f \in DOMAIN g.nodes, o \in NodeIDs, p \in PropArgs :
         Begin("AddEdge", t,
               [Idle EXCEPT !.step = "checkTo",
                            !.todo = {[id |-> 0, from |-> f, to |-> o, props |-> p]}])
    /\ UNCHANGED <<g, wal, nextNodeID, nextEdgeID>>

\* verifyNodeExists for the target, an error if it is missing; then the ID.
CheckTo(t) ==
    /\ th[t].step = "checkTo"
    /\ \E e \in th[t].todo :
         IF e.to \notin DOMAIN g.nodes
         THEN Goto(t, Idle) /\ UNCHANGED nextEdgeID
         ELSE /\ nextEdgeID' = nextEdgeID + 1
              /\ LET e1 == [e EXCEPT !.id = nextEdgeID']
                 IN Goto(t, [Idle EXCEPT !.step = "putEdges", !.todo = {e1}, !.adj = {e1},
                                         !.entry = [op |-> "AddEdge", edge |-> e1]])
    /\ UNCHANGED <<g, wal, nextNodeID>>

\* A batch of two edges, there and back, whose endpoints nobody looks up.
AddEdgeBatch(t) ==
    /\ \E f, o \in NodeIDs, p \in PropArgs :
         /\ f < o
         /\ LET E == {[id |-> nextEdgeID + 1, from |-> f, to |-> o, props |-> p],
                      [id |-> nextEdgeID + 2, from |-> o, to |-> f, props |-> p]}
            IN Begin("AddEdgeBatch", t,
                     [Idle EXCEPT !.step = "putEdges", !.todo = E, !.adj = E,
                                  !.entry = [op |-> "AddEdgeBatch", edges |-> E]])
    /\ nextEdgeID + 2 <= MaxEdges
    /\ nextEdgeID' = nextEdgeID + 2
    /\ UNCHANGED <<g, wal, nextNodeID>>

\* Whether the transaction that writes the edges writes adj_in too: AddEdge when
\* both ends are in one shard, AddEdgeBatch when there is only one.
OneTx(r) ==
    \/ ShardCount = 1
    \/ r.entry.op = "AddEdge" /\ \A e \in r.todo : shardFor(e.from) = shardFor(e.to)

\* One source shard's edges.
PutEdgesTx(t) ==
    /\ th[t].step = "putEdges"
    /\ \E s \in {shardFor(e.from) : e \in th[t].todo} :
         LET group == {e \in th[t].todo : shardFor(e.from) = s}
             rest  == th[t].todo \ group
         IN IF OneTx(th[t])
            THEN /\ g' = PutAdjIn(PutEdges(g, group), group)
                 /\ Goto(t, ToLog(th[t].entry))
            ELSE /\ g' = PutEdges(g, group)
                 /\ Goto(t, [th[t] EXCEPT !.todo = rest,
                                          !.step = IF rest = {} THEN "putAdjIn" ELSE @])
    /\ UNCHANGED <<wal, nextNodeID, nextEdgeID>>

\* One target shard's adj_in entries.
PutAdjInTx(t) ==
    /\ th[t].step = "putAdjIn"
    /\ \E s \in {shardFor(e.to) : e \in th[t].adj} :
         LET group == {e \in th[t].adj : shardFor(e.to) = s}
             rest  == th[t].adj \ group
         IN /\ g' = PutAdjIn(g, group)
            /\ Goto(t, IF rest = {} THEN ToLog(th[t].entry)
                                    ELSE [th[t] EXCEPT !.adj = rest])
    /\ UNCHANGED <<wal, nextNodeID, nextEdgeID>>

\* UpdateEdge reads the edge and merges into the copy ...
UpdateEdge(t) ==
    /\ \E id \in DOMAIN g.edges, p \in PropArgs :
         Begin("UpdateEdge", t,
               [Idle EXCEPT !.step = "putEdge",
                            !.todo = {[EdgeOf(id) EXCEPT !.props = Put(@, p)]},
                            !.entry = [op |-> "UpdateEdge", id |-> id, props |-> p]])
    /\ UNCHANGED <<g, wal, nextNodeID, nextEdgeID>>

\* ... and writes the copy, without another look at what is there.
PutEdgeTx(t) ==
    /\ th[t].step = "putEdge"
    /\ \E e \in th[t].todo :
         g' = [g EXCEPT !.edges = Put(@, Bind(e.id, [from |-> e.from, to |-> e.to,
                                                       props |-> e.props]))]
    /\ Goto(t, ToLog(th[t].entry))
    /\ UNCHANGED <<wal, nextNodeID, nextEdgeID>>

(***************************************************************************)
(* Deletions.                                                              *)
(***************************************************************************)

\* DeleteEdge finds the edge; deleteEdgeInternal does the rest.
DeleteEdge(t) ==
    /\ \E id \in DOMAIN g.edges :
         Begin("DeleteEdge", t,
               [Idle EXCEPT !.step = "cascade", !.todo = {<<"out", EdgeOf(id)>>}])
    /\ UNCHANGED <<g, wal, nextNodeID, nextEdgeID>>

\* DeleteNode, the first View of getEdgesForNode(id, Both): outgoing edges.  Every
\* edge found is tagged with its direction, since a self-loop is found twice.
DeleteNode(t) ==
    /\ \E id \in NodeIDs :
         Begin("DeleteNode", t,
               [Idle EXCEPT !.step = "collectIn", !.id = id,
                            !.todo = {<<"out", EdgeOf(a[2])>> :
                                        a \in {b \in g.adjOut : b[1] = id /\ b[2] \in DOMAIN g.edges}}])
    /\ UNCHANGED <<g, wal, nextNodeID, nextEdgeID>>

\* Mutant: only the outgoing edges are collected.
CollectIn_skipped(t) ==
    /\ th[t].step = "collectIn"
    /\ Goto(t, [th[t] EXCEPT !.step = "cascade"])
    /\ UNCHANGED <<g, wal, nextNodeID, nextEdgeID>>

\* The adj_in entries; with one shard their edges in the same View.
CollectIn(t) ==
    /\ th[t].step = "collectIn"
    /\ LET found == {a \in g.adjIn : a[1] = th[t].id}
       IN Goto(t, IF ShardCount = 1
                  THEN [th[t] EXCEPT !.step = "cascade",
                          !.todo = @ \cup {<<"in", EdgeOf(a[2])>> :
                                             a \in {b \in found : b[2] \in DOMAIN g.edges}}]
                  ELSE [th[t] EXCEPT !.step = IF found = {} THEN "cascade" ELSE "fetchIn",
                                     !.adj = found])
    /\ UNCHANGED <<g, wal, nextNodeID, nextEdgeID>>

\* With several shards, a View of each source shard.
FetchIn(t) ==
    /\ th[t].step = "fetchIn"
    /\ \E s \in {shardFor(a[3]) : a \in th[t].adj} :
         LET group == {a \in th[t].adj : shardFor(a[3]) = s}
             rest  == th[t].adj \ group
         IN Goto(t, [th[t] EXCEPT
                       !.step = IF rest = {} THEN "cascade" ELSE @,
                       !.adj  = rest,
                       !.todo = @ \cup {<<"in", EdgeOf(a[2])>> :
                                          a \in {b \in group : b[2] \in DOMAIN g.edges}}])
    /\ UNCHANGED <<g, wal, nextNodeID, nextEdgeID>>

\* deleteEdgeInternal, source shard.
DropEdgeTx(t) ==
    /\ th[t].step = "cascade"
    /\ \E x \in th[t].todo :
         /\ g' = DropEdge(g, x[2])
         /\ Goto(t, [th[t] EXCEPT !.step = "dropAdjIn", !.todo = @ \ {x},
                                  !.entry = [op |-> "DeleteEdge", edge |-> x[2]]])
    /\ UNCHANGED <<wal, nextNodeID, nextEdgeID>>

\* deleteEdgeInternal, target shard: a transaction of its own in any case.
DropAdjInTx(t) ==
    /\ th[t].step = "dropAdjIn"
    /\ g' = DropAdjIn(g, th[t].entry.edge)
    /\ Goto(t, [th[t] EXCEPT !.step = "log"])
    /\ UNCHANGED <<wal, nextNodeID, nextEdgeID>>

\* Mutant: the existence check of the last transaction is gone.
DropNodeTx_unchecked(t) ==
    /\ th[t].step = "cascade" /\ th[t].todo = {}
    /\ g' = DropNode(g, th[t].id)
    /\ Goto(t, ToLog([op |-> "DeleteNode", id |-> th[t].id]))
    /\ UNCHANGED <<wal, nextNodeID, nextEdgeID>>

\* DeleteNode's own transaction, after the cascade: an error if the node is gone.
DropNodeTx(t) ==
    /\ th[t].step = "cascade" /\ th[t].todo = {}
    /\ IF th[t].id \in DOMAIN g.nodes
       THEN /\ g' = DropNode(g, th[t].id)
            /\ Goto(t, ToLog([op |-> "DeleteNode", id |-> th[t].id]))
       ELSE g' = g /\ Goto(t, Idle)
    /\ UNCHANGED <<wal, nextNodeID, nextEdgeID>>

(***************************************************************************)
(* The WAL, and failures.                                                   *)
(***************************************************************************)

\* The call after its append: DeleteNode has edges, or the node, still to go.
AfterLog(r) == IF r.todo = {} /\ r.id = 0 THEN Idle
                                          ELSE [r EXCEPT !.step = "cascade", !.entry = None]

Log(t) ==
    /\ th[t].step = "log"
    /\ wal' = Append(wal, th[t].entry)
    /\ Goto(t, AfterLog(th[t]))
    /\ UNCHANGED <<g, nextNodeID, nextEdgeID>>

\* walAppend reports an error to nobody.
LogFails(t) ==
    /\ th[t].step = "log"
    /\ faults < MaxFaults
    /\ faults' = faults + 1
    /\ th' = [th EXCEPT ![t] = AfterLog(@)]
    /\ UNCHANGED <<g, wal, nextNodeID, nextEdgeID, calls>>

\* A transaction fails (ErrWriteQueueFull, an I/O error): the call returns the
\* error and leaves what the earlier ones committed.
WriteFails(t) ==
    /\ th[t].step \in {"putNodes", "putEdges", "putAdjIn", "putEdge", "cascade", "dropAdjIn"}
    /\ faults < MaxFaults
    /\ faults' = faults + 1
    /\ th' = [th EXCEPT ![t] = Idle]
    /\ UNCHANGED <<g, wal, nextNodeID, nextEdgeID, calls>>

Call(t) ==
    \/ AddNode(t) \/ AddNodeWithLabels(t) \/ AddNodeBatch(t)
    \/ UpdateNode(t) \/ SetNodeProps(t) \/ AddLabel(t) \/ RemoveLabel(t)
    \/ AddEdge(t) \/ AddEdgeBatch(t) \/ UpdateEdge(t)
    \/ DeleteEdge(t) \/ DeleteNode(t)

Continue(t) ==
    \/ PutNodesTx(t) \/ CheckTo(t) \/ PutEdgesTx(t) \/ PutAdjInTx(t) \/ PutEdgeTx(t)
    \/ CollectIn(t) \/ FetchIn(t) \/ DropEdgeTx(t) \/ DropAdjInTx(t) \/ DropNodeTx(t)
    \/ Log(t)

Next == \E t \in Threads : Call(t) \/ Continue(t) \/ LogFails(t) \/ WriteFails(t)

Spec == Init /\ [][Next]_vars

(***************************************************************************)
(* Properties.  A thread in the middle of a call may have written half of it,  *)
(* so most are about the states where no call is under way.                   *)
(***************************************************************************)

Quiet == \A t \in Threads : th[t].step = "idle"

\* adj_out and adj_in are exactly the two directions of the edges that exist:
\* OutEdges and InEdges, which read only them, tell the truth and agree.
AdjacencyExact ==
    Quiet => /\ g.adjOut = {<<g.edges[i].from, i, g.edges[i].to>> : i \in DOMAIN g.edges}
             /\ g.adjIn  = {<<g.edges[i].to, i, g.edges[i].from>> : i \in DOMAIN g.edges}

\* InEdges misses no edge, although the edge and its adj_in entry are written and
\* deleted in different transactions and other calls come between: as long as no
\* transaction fails, an edge that exists has its entry (edge.go:128-139, 408-421).
InEdgesComplete ==
    Quiet /\ faults = 0 =>
        \A i \in DOMAIN g.edges : <<g.edges[i].to, i, g.edges[i].from>> \in g.adjIn

\* No edge has a missing end: DeleteNode "removes a node and all its associated
\* edges" (node.go:358), incoming ones of other shards and self-loops included.
NoDangling ==
    Quiet => \A i \in DOMAIN g.edges : {g.edges[i].from, g.edges[i].to} \subseteq DOMAIN g.nodes

\* Labels belong to nodes that exist, and the label index lists exactly them.
LabelsExact ==
    /\ g.labelIdx = g.labels
    /\ \A p \in g.labels : p[1] \in DOMAIN g.nodes

\* NodeCount returns the number of nodes: the counters, bumped after each commit,
\* keep up with the buckets whatever calls race and fail (node.go:447-453).
NodeCountExact == Quiet => g.nodeCount = Cardinality(DOMAIN g.nodes)

\* A follower that applies the log from the start, one entry after another, meets no
\* entry its handler refuses and ends with the leader's database, counters included.
ReplayEqual == Quiet => Replay(wal) = [g |-> g, failed |-> FALSE]

\* The same for additions of concurrent callers: the log may have them in another
\* order than they committed in, and they commute.
AdditionsCommute ==
    /\ Quiet /\ faults = 0
    /\ \A k \in DOMAIN wal : wal[k].op \in {"AddNodeBatch", "AddEdge", "AddEdgeBatch"}
    => Replay(wal) = [g |-> g, failed |-> FALSE]

\* A call that ran to its end left the node it was to delete deleted: once a node
\* is gone, no late step of another call brings it back.
NodesStayDeleted ==
    [][\A i \in 1 .. nextNodeID :
         i \in DOMAIN g'.nodes \ DOMAIN g.nodes =>
           /\ \A k \in DOMAIN wal : wal[k].op = "DeleteNode" => wal[k].id # i
           /\ \A t \in Threads : th[t].step = "log" /\ th[t].entry.op = "DeleteNode"
                                   => th[t].entry.id # i]_vars
================================================================================
