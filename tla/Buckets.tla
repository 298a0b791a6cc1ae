-------------------------------- MODULE Buckets --------------------------------
(***************************************************************************)
(* The bbolt buckets of the graph and what one write transaction does to     *)
(* them (node.go, edge.go, label.go).  The shards are one record here: a key  *)
(* lives in exactly one shard (graphdb.go, shardFor), so only the extent of    *)
(* each transaction, which is the caller's business, depends on the sharding. *)
(*                                                                         *)
(*   nodes      id -> properties                                             *)
(*   labels     <<id, label>>: node_labels     labelIdx  the same, as index   *)
(*   edges      id -> [from, to, props]                                      *)
(*   adjOut     <<from, edge, to>>             adjIn     <<to, edge, from>>    *)
(*   nodeCount, edgeCount   the shards' counters added up, as uint64s do       *)
(*                                                                         *)
(* idx_edge_type is written and deleted with adj_out in every transaction     *)
(* and is not kept separately.                                              *)
(***************************************************************************)
EXTENDS Integers, FiniteSets, TLC

CONSTANTS
    ShardCount,   \* Options.ShardCount
    UintMod       \* 2^64 in the code; any modulus above the counters' range here

ASSUME BucketsAssumption == ShardCount \in Nat \ {0} /\ UintMod \in Nat \ {0}

\* shardFor, and shardForEdge for the edge's source.
shardFor(id) == id % ShardCount

\* atomic.Uint64.Add: subtracting one from zero wraps.
Add(n, d) == (n + d) % UintMod

EmptyGraph == [nodes |-> << >>, labels |-> {}, labelIdx |-> {}, edges |-> << >>,
               adjOut |-> {}, adjIn |-> {}, nodeCount |-> 0, edgeCount |-> 0]

\* A map with the bindings of f put into it, one binding, and without the keys K.
Put(m, f) == [k \in DOMAIN m \cup DOMAIN f |-> IF k \in DOMAIN f THEN f[k] ELSE m[k]]
Bind(k, v) == [x \in {k} |-> v]
Drop(m, K) == [k \in DOMAIN m \ K |-> m[k]]

\* Nodes written by one transaction (records [id, props, labels]), counted once
\* it has committed.  A node without labels has no node_labels entry to write.
LabelPairs(N) == UNION {{n.id} \X n.labels : n \in N}

PutNodes(g, N) ==
    [g EXCEPT
       !.nodes     = Put(@, [i \in {n.id : n \in N} |-> (CHOOSE n \in N : n.id = i).props]),
       !.labels    = {p \in @ : p[1] \notin {q[1] : q \in LabelPairs(N)}} \cup LabelPairs(N),
       !.labelIdx  = @ \cup LabelPairs(N),
       !.nodeCount = Add(@, Cardinality(N))]

\* Properties merged into, or replacing, those of a node.
MergeNode(g, id, p) == [g EXCEPT !.nodes[id] = Put(@, p)]
SetNode(g, id, p) == [g EXCEPT !.nodes = Put(@, Bind(id, p))]

AddLabels(g, id, L) ==
    [g EXCEPT !.labels = @ \cup ({id} \X L), !.labelIdx = @ \cup ({id} \X L)]

RemoveLabels(g, id, L) ==
    [g EXCEPT !.labels = @ \ ({id} \X L), !.labelIdx = @ \ ({id} \X L)]

\* Mutant: the labels are left behind.
DropNode_keepsLabels(g, id) ==
    [g EXCEPT !.nodes = Drop(@, {id}), !.nodeCount = Add(@, -1)]

\* The node's record, its labels and their index entries; the counter after it.
DropNode(g, id) ==
    LET own == {p \in g.labels : p[1] = id}
    IN [g EXCEPT !.nodes = Drop(@, {id}), !.labels = @ \ own, !.labelIdx = @ \ own,
                 !.nodeCount = Add(@, -1)]

\* Edges (records [id, from, to, props]) with their outgoing adjacency; counted
\* once the transaction has committed.
PutEdges(g, E) ==
    [g EXCEPT
       !.edges     = Put(@, [i \in {e.id : e \in E} |->
                               LET e == CHOOSE e \in E : e.id = i
                               IN [from |-> e.from, to |-> e.to, props |-> e.props]]),
       !.adjOut    = @ \cup {<<e.from, e.id, e.to>> : e \in E},
       !.edgeCount = Add(@, Cardinality(E))]

PutAdjIn(g, E) == [g EXCEPT !.adjIn = @ \cup {<<e.to, e.id, e.from>> : e \in E}]

\* The two transactions of an edge deletion.  Delete of an absent key is no
\* error, and the counter moves all the same.
DropEdge(g, e) ==
    [g EXCEPT !.edges = Drop(@, {e.id}),
              !.adjOut = {a \in @ : <<a[1], a[2]>> # <<e.from, e.id>>},
              !.edgeCount = Add(@, -1)]

\* Mutant: the incoming entry is looked for under the source node.
DropAdjIn_bySource(g, e) ==
    [g EXCEPT !.adjIn = {a \in @ : <<a[1], a[2]>> # <<e.from, e.id>>}]

\* Mutant: a prefix of the key, so all incoming entries of the target go.
DropAdjIn_byPrefix(g, e) == [g EXCEPT !.adjIn = {a \in @ : a[1] # e.to}]

DropAdjIn(g, e) == [g EXCEPT !.adjIn = {a \in @ : <<a[1], a[2]>> # <<e.to, e.id>>}]
================================================================================
