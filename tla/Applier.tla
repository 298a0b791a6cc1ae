-------------------------------- MODULE Applier --------------------------------
(***************************************************************************)
(* What replaying a WAL entry does to a follower's buckets (applier.go): the  *)
(* dispatch of applyOp and its handlers for nodes, edges and labels.          *)
(* An entry is a record with the op and the fields of its payload.  The       *)
(* handlers of the index and constraint entries are not here.                *)
(***************************************************************************)
EXTENDS Buckets, Sequences, SequencesExt

\* The entry carries the leader's IDs, and the handlers put without a look at what
\* is there.  The batch is grouped by shard; its outcome is that of the groups.
applyAddNode(g, N) == PutNodes(g, N)
applyAddNodeWithLabels(g, N) == PutNodes(g, N)
applyAddNodeBatch(g, N) == PutNodes(g, N)

\* applyUpdateNode, applyUpdateEdge and applyAddLabel return an error when what
\* they change is not there.
Applicable(g, e) ==
    CASE e.op \in {"UpdateNode", "AddLabel"} -> e.id \in DOMAIN g.nodes
      [] e.op = "UpdateEdge"                 -> e.id \in DOMAIN g.edges
      [] OTHER                               -> TRUE

applyUpdateNode(g, e) == MergeNode(g, e.id, e.props)
applySetNodeProps(g, e) == SetNode(g, e.id, e.props)
applyAddLabel(g, e) == AddLabels(g, e.id, e.labels)

\* Mutant: the counter is forgotten.
applyDeleteNode_uncounted(g, id) ==
    IF id \in DOMAIN g.nodes
    THEN [DropNode(g, id) EXCEPT !.nodeCount = g.nodeCount]
    ELSE g

\* A missing node is not an error; the counter is decremented either way.
applyDeleteNode(g, id) ==
    IF id \in DOMAIN g.nodes
    THEN DropNode(g, id)
    ELSE [g EXCEPT !.nodeCount = Add(@, -1)]

\* Mutant: the entry's ID is ignored and the next free one taken.
applyAddEdge_ownID(g, e) ==
    LET e1 == [e EXCEPT !.id = Cardinality(DOMAIN g.edges) + 1]
    IN PutAdjIn(PutEdges(g, {e1}), {e1})

\* Same shard or not, the outcome of the transactions together.
applyAddEdge(g, e) == PutAdjIn(PutEdges(g, {e}), {e})

applyAddEdgeBatch(g, E) == PutAdjIn(PutEdges(g, E), E)
applyDeleteEdge(g, e) == DropAdjIn(DropEdge(g, e), e)

\* The merge happens inside the transaction, on the follower's own edge.
applyUpdateEdge(g, e) == [g EXCEPT !.edges[e.id].props = Put(@, e.props)]

\* A missing node is not an error.
applyRemoveLabel(g, e) ==
    IF e.id \in DOMAIN g.nodes THEN RemoveLabels(g, e.id, e.labels) ELSE g

\* applyOp: the database after the entry, or unchanged with an error.
applyOp(g, e) ==
    CASE ~Applicable(g, e)        -> g
      [] e.op = "AddNode"         -> applyAddNode(g, e.nodes)
      [] e.op = "AddNodeBatch"    -> applyAddNodeBatch(g, e.nodes)
      [] e.op = "AddNodeWithLabels" -> applyAddNodeWithLabels(g, e.nodes)
      [] e.op = "UpdateNode"      -> applyUpdateNode(g, e)
      [] e.op = "SetNodeProps"    -> applySetNodeProps(g, e)
      [] e.op = "DeleteNode"      -> applyDeleteNode(g, e.id)
      [] e.op = "AddEdge"         -> applyAddEdge(g, e.edge)
      [] e.op = "AddEdgeBatch"    -> applyAddEdgeBatch(g, e.edges)
      [] e.op = "DeleteEdge"      -> applyDeleteEdge(g, e.edge)
      [] e.op = "UpdateEdge"      -> applyUpdateEdge(g, e)
      [] e.op = "AddLabel"        -> applyAddLabel(g, e)
      [] e.op = "RemoveLabel"     -> applyRemoveLabel(g, e)

\* One more entry: the database, and whether an entry failed so far.
ApplyNext(acc, e) ==
    [g |-> applyOp(acc.g, e), failed |-> acc.failed \/ ~Applicable(acc.g, e)]

\* Apply, entry after entry in LSN order.
Replay(log) ==
    LET after[k \in 0..Len(log)] ==
          IF k = 0 THEN [g |-> EmptyGraph, failed |-> FALSE]
                   ELSE ApplyNext(after[k - 1], log[k])
    IN after[Len(log)]
================================================================================
