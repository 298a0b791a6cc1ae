----------------------------- MODULE GraphStoreProofs -----------------------------
(***************************************************************************)
(* Proofs about GraphStore for any number of threads, shards, nodes, edges and      *)
(* calls.  What holds of labels, of the node counter and of deleted nodes holds      *)
(* for all interleavings and failures; what is said of edges depends on the calls     *)
(* that run beside each other, and the theorems say which ones.                    *)
(***************************************************************************)
EXTENDS GraphStore, OrderFacts

--------------------------------------------------------------------------------
(* The buckets.                                                             *)

\* The record of the buckets has its fields.
GraphFields ==
    {"nodes", "labels", "labelIdx", "edges", "adjOut", "adjIn", "nodeCount", "edgeCount"}

IsGraph(h) == h = [x \in GraphFields |-> h[x]]

\* The part of the buckets the node operations are about is the same.
SameNodes(h, h1) ==
    /\ DOMAIN h1.nodes = DOMAIN h.nodes /\ h1.labels = h.labels /\ h1.labelIdx = h.labelIdx
    /\ h1.nodeCount = h.nodeCount

SameEdges(h, h1) == h1.edges = h.edges /\ h1.adjOut = h.adjOut /\ h1.adjIn = h.adjIn

\* What a transaction that adds nodes leaves behind.
LEMMA PutNodesFields ==
    ASSUME NEW h, IsGraph(h), NEW N
    PROVE  LET h1 == PutNodes(h, N)
           IN /\ IsGraph(h1) /\ SameEdges(h, h1)
              /\ DOMAIN h1.nodes = DOMAIN h.nodes \cup {n.id : n \in N}
              /\ h1.labels = {p \in h.labels : p[1] \notin {q[1] : q \in LabelPairs(N)}} \cup LabelPairs(N)
              /\ h1.labelIdx = h.labelIdx \cup LabelPairs(N)
              /\ h1.nodeCount = Add(h.nodeCount, Cardinality(N))
<1> DEFINE a == Put(h.nodes, [i \in {n.id : n \in N} |-> (CHOOSE n \in N : n.id = i).props])
<1> DEFINE b == {p \in h.labels : p[1] \notin {q[1] : q \in LabelPairs(N)}} \cup LabelPairs(N)
<1> DEFINE c == h.labelIdx \cup LabelPairs(N)
<1> DEFINE d == Add(h.nodeCount, Cardinality(N))
<1>1. PutNodes(h, N) = [h EXCEPT !.nodes = a, !.labels = b, !.labelIdx = c, !.nodeCount = d]
  BY DEF PutNodes
<1>2. DOMAIN a = DOMAIN h.nodes \cup {n.id : n \in N} BY DEF Put
<1> HIDE DEF a, b, c, d
<1>3. LET h1 == PutNodes(h, N)
      IN /\ IsGraph(h1) /\ SameEdges(h, h1)
         /\ h1.nodes = a /\ h1.labels = b /\ h1.labelIdx = c /\ h1.nodeCount = d
  BY <1>1 DEF GraphFields, IsGraph, SameEdges
<1> QED BY <1>2, <1>3 DEF b, c, d

\* What the operations on the properties, or on the labels, of one node leave behind.
LEMMA PropFields ==
    ASSUME NEW h, IsGraph(h), NEW id, id \in DOMAIN h.nodes, NEW p
    PROVE  /\ IsGraph(MergeNode(h, id, p)) /\ SameEdges(h, MergeNode(h, id, p)) /\ SameNodes(h, MergeNode(h, id, p))
           /\ IsGraph(SetNode(h, id, p)) /\ SameEdges(h, SetNode(h, id, p)) /\ SameNodes(h, SetNode(h, id, p))
<1>1. IsGraph(MergeNode(h, id, p)) /\ SameEdges(h, MergeNode(h, id, p)) /\ SameNodes(h, MergeNode(h, id, p))
  BY DEF GraphFields, IsGraph, SameEdges, SameNodes, MergeNode
<1>2. DOMAIN Put(h.nodes, Bind(id, p)) = DOMAIN h.nodes BY DEF Put, Bind
<1>3. IsGraph(SetNode(h, id, p)) /\ SameEdges(h, SetNode(h, id, p)) /\ SameNodes(h, SetNode(h, id, p))
  BY <1>2 DEF GraphFields, IsGraph, SameEdges, SameNodes, SetNode
<1> QED BY <1>1, <1>3

\* What adding and removing labels of one node leaves behind.
LEMMA LabelFields ==
    ASSUME NEW h, IsGraph(h), NEW id, NEW L
    PROVE  /\ IsGraph(AddLabels(h, id, L)) /\ SameEdges(h, AddLabels(h, id, L))
           /\ DOMAIN AddLabels(h, id, L).nodes = DOMAIN h.nodes
           /\ AddLabels(h, id, L).labels = h.labels \cup ({id} \X L)
           /\ AddLabels(h, id, L).labelIdx = h.labelIdx \cup ({id} \X L)
           /\ AddLabels(h, id, L).nodeCount = h.nodeCount
           /\ IsGraph(RemoveLabels(h, id, L)) /\ SameEdges(h, RemoveLabels(h, id, L))
           /\ DOMAIN RemoveLabels(h, id, L).nodes = DOMAIN h.nodes
           /\ RemoveLabels(h, id, L).labels = h.labels \ ({id} \X L)
           /\ RemoveLabels(h, id, L).labelIdx = h.labelIdx \ ({id} \X L)
           /\ RemoveLabels(h, id, L).nodeCount = h.nodeCount
<1>1. /\ IsGraph(AddLabels(h, id, L)) /\ SameEdges(h, AddLabels(h, id, L))
      /\ DOMAIN AddLabels(h, id, L).nodes = DOMAIN h.nodes
      /\ AddLabels(h, id, L).labels = h.labels \cup ({id} \X L)
      /\ AddLabels(h, id, L).labelIdx = h.labelIdx \cup ({id} \X L)
      /\ AddLabels(h, id, L).nodeCount = h.nodeCount
  BY DEF GraphFields, IsGraph, SameEdges, AddLabels
<1>2. /\ IsGraph(RemoveLabels(h, id, L)) /\ SameEdges(h, RemoveLabels(h, id, L))
      /\ DOMAIN RemoveLabels(h, id, L).nodes = DOMAIN h.nodes
      /\ RemoveLabels(h, id, L).labels = h.labels \ ({id} \X L)
      /\ RemoveLabels(h, id, L).labelIdx = h.labelIdx \ ({id} \X L)
      /\ RemoveLabels(h, id, L).nodeCount = h.nodeCount
  BY DEF GraphFields, IsGraph, SameEdges, RemoveLabels
<1> QED BY <1>1, <1>2

\* What the deletion of a node leaves behind.
LEMMA DropNodeFields ==
    ASSUME NEW h, IsGraph(h), NEW id
    PROVE  LET h1 == DropNode(h, id)
           IN /\ IsGraph(h1) /\ SameEdges(h, h1)
              /\ DOMAIN h1.nodes = DOMAIN h.nodes \ {id}
              /\ h1.labels = h.labels \ {p \in h.labels : p[1] = id}
              /\ h1.labelIdx = h.labelIdx \ {p \in h.labels : p[1] = id}
              /\ h1.nodeCount = Add(h.nodeCount, -1)
<1> DEFINE own == {p \in h.labels : p[1] = id}
<1> DEFINE a == Drop(h.nodes, {id})
<1> DEFINE d == Add(h.nodeCount, -1)
<1>1. DropNode(h, id) = [h EXCEPT !.nodes = a, !.labels = h.labels \ own,
                                  !.labelIdx = h.labelIdx \ own, !.nodeCount = d]
  BY DEF DropNode
<1>2. DOMAIN a = DOMAIN h.nodes \ {id} BY DEF Drop
<1> HIDE DEF own, a, d
<1>3. LET h1 == DropNode(h, id)
      IN /\ IsGraph(h1) /\ SameEdges(h, h1)
         /\ h1.nodes = a /\ h1.labels = h.labels \ own /\ h1.labelIdx = h.labelIdx \ own
         /\ h1.nodeCount = d
  BY <1>1 DEF GraphFields, IsGraph, SameEdges
<1> QED BY <1>2, <1>3 DEF own, d

\* What the transactions on edges leave behind.
LEMMA PutEdgesFields ==
    ASSUME NEW h, IsGraph(h), NEW E
    PROVE  LET h1 == PutEdges(h, E)
           IN /\ IsGraph(h1) /\ SameNodes(h, h1)
              /\ h1.edges = Put(h.edges, [i \in {e.id : e \in E} |->
                                            LET e == CHOOSE e \in E : e.id = i
                                            IN [from |-> e.from, to |-> e.to, props |-> e.props]])
              /\ h1.adjOut = h.adjOut \cup {<<e.from, e.id, e.to>> : e \in E}
              /\ h1.adjIn = h.adjIn
<1> DEFINE F == [i \in {e.id : e \in E} |->
                   LET e == CHOOSE e \in E : e.id = i
                   IN [from |-> e.from, to |-> e.to, props |-> e.props]]
<1>1. PutEdges(h, E) = [h EXCEPT !.edges = Put(h.edges, F),
                                 !.adjOut = h.adjOut \cup {<<e.from, e.id, e.to>> : e \in E},
                                 !.edgeCount = Add(h.edgeCount, Cardinality(E))]
  BY DEF PutEdges
<1> HIDE DEF F
<1>2. /\ IsGraph(PutEdges(h, E)) /\ SameNodes(h, PutEdges(h, E))
      /\ PutEdges(h, E).edges = Put(h.edges, F)
      /\ PutEdges(h, E).adjOut = h.adjOut \cup {<<e.from, e.id, e.to>> : e \in E}
      /\ PutEdges(h, E).adjIn = h.adjIn
  BY <1>1 DEF GraphFields, IsGraph, SameNodes
<1> QED BY <1>2 DEF F

\* What the adj_in entries of edges change.
LEMMA PutAdjInFields ==
    ASSUME NEW h, IsGraph(h), NEW E
    PROVE  /\ IsGraph(PutAdjIn(h, E)) /\ SameNodes(h, PutAdjIn(h, E))
           /\ PutAdjIn(h, E).edges = h.edges /\ PutAdjIn(h, E).adjOut = h.adjOut
           /\ PutAdjIn(h, E).adjIn = h.adjIn \cup {<<x.to, x.id, x.from>> : x \in E}
BY DEF GraphFields, IsGraph, SameNodes, PutAdjIn

\* What the first transaction of deleteEdgeInternal changes.
LEMMA DropEdgeFields ==
    ASSUME NEW h, IsGraph(h), NEW e
    PROVE  /\ IsGraph(DropEdge(h, e)) /\ SameNodes(h, DropEdge(h, e))
           /\ DropEdge(h, e).edges = Drop(h.edges, {e.id})
           /\ DropEdge(h, e).adjOut = {a \in h.adjOut : <<a[1], a[2]>> # <<e.from, e.id>>}
           /\ DropEdge(h, e).adjIn = h.adjIn
BY DEF GraphFields, IsGraph, SameNodes, DropEdge

\* What the second one changes.
LEMMA DropAdjInFields ==
    ASSUME NEW h, IsGraph(h), NEW e
    PROVE  /\ IsGraph(DropAdjIn(h, e)) /\ SameNodes(h, DropAdjIn(h, e))
           /\ DropAdjIn(h, e).edges = h.edges /\ DropAdjIn(h, e).adjOut = h.adjOut
           /\ DropAdjIn(h, e).adjIn = {a \in h.adjIn : <<a[1], a[2]>> # <<e.to, e.id>>}
BY DEF GraphFields, IsGraph, SameNodes, DropAdjIn

--------------------------------------------------------------------------------
(* The invariant of nodes, labels and the node counter.                        *)

\* A thread's record has its fields.
ThreadFields == {"step", "entry", "todo", "adj", "id"}

IsThread(r) == r = [x \in ThreadFields |-> r[x]]

Steps == {"idle", "putNodes", "checkTo", "putEdges", "putAdjIn", "putEdge", "collectIn", "fetchIn",
          "cascade", "dropAdjIn", "log"}

\* DeleteNode is logged right after the transaction that deletes the node.
ThreadOK(r) ==
    /\ IsThread(r) /\ r.step \in Steps
    /\ r.step \in {"putNodes", "putEdges", "putAdjIn", "putEdge", "dropAdjIn"} => r.entry.op # "DeleteNode"

TypeOK ==
    /\ IsGraph(g)
    /\ th = [t \in Threads |-> th[t]] /\ \A t \in Threads : ThreadOK(th[t])
    /\ wal \in Seq({wal[k] : k \in DOMAIN wal})
    /\ nextNodeID \in 0..MaxNodes
    /\ DOMAIN g.nodes \subseteq 1..nextNodeID

\* The node IDs thread t has yet to write.
Pending(t) == IF th[t].step = "putNodes" THEN {n.id : n \in th[t].todo} ELSE {}

\* IDs that are allocated are not in use, and each is in the hands of one call.
FreshNodes ==
    \A t \in Threads :
        /\ Pending(t) \subseteq (1..nextNodeID) \ DOMAIN g.nodes
        /\ \A u \in Threads \ {t} : Pending(t) \cap Pending(u) = {}
        /\ th[t].step = "putNodes" => /\ IsFiniteSet(th[t].todo)
                                      /\ \A m, n \in th[t].todo : m.id = n.id => m = n

\* A node whose deletion is logged, or about to be, is nobody's to write.
Gone(i) == i \in 1..nextNodeID /\ \A t \in Threads : i \notin Pending(t)

DeletedStay ==
    /\ \A k \in DOMAIN wal : wal[k].op = "DeleteNode" => Gone(wal[k].id)
    /\ \A t \in Threads : th[t].step = "log" /\ th[t].entry.op = "DeleteNode" => Gone(th[t].entry.id)

\* The counter is right at every step, since it is bumped with the transaction.
Counted == g.nodeCount = Cardinality(DOMAIN g.nodes)

NodeInv == TypeOK /\ FreshNodes /\ DeletedStay /\ Counted /\ LabelsExact

\* The record a thread goes on with, and the others'.
LEMMA ThreadStep ==
    ASSUME th = [u \in Threads |-> th[u]], NEW t \in Threads, NEW r, th' = [th EXCEPT ![t] = r]
    PROVE  /\ th' = [u \in Threads |-> th'[u]]
           /\ th'[t] = r /\ \A u \in Threads \ {t} : th'[u] = th[u]
OBVIOUS

\* The fields of an idle thread, and of one about to log.
LEMMA IdleFields ==
    /\ IsThread(Idle) /\ Idle.step = "idle" /\ Idle.todo = {} /\ Idle.adj = {} /\ Idle.id = 0 /\ Idle.entry = None
    /\ ThreadOK(Idle)
    /\ \A e : /\ IsThread(ToLog(e)) /\ ToLog(e).step = "log" /\ ToLog(e).entry = e
              /\ ToLog(e).todo = {} /\ ToLog(e).adj = {} /\ ToLog(e).id = 0
              /\ ThreadOK(ToLog(e))
<1>1. IsThread(Idle) /\ Idle.step = "idle" /\ Idle.todo = {} /\ Idle.adj = {} /\ Idle.id = 0 /\ Idle.entry = None
  BY DEF IsThread, ThreadFields, Idle
<1>2. ThreadOK(Idle) BY <1>1 DEF ThreadOK, Steps
<1>3. ASSUME NEW e
      PROVE  /\ IsThread(ToLog(e)) /\ ToLog(e).step = "log" /\ ToLog(e).entry = e
             /\ ToLog(e).todo = {} /\ ToLog(e).adj = {} /\ ToLog(e).id = 0
  <2>1. PICK i : i = Idle OBVIOUS
  <2>2. ToLog(e) = [i EXCEPT !.step = "log", !.entry = e] BY <2>1 DEF ToLog
  <2> QED BY <1>1, <2>1, <2>2 DEF IsThread, ThreadFields
<1>4. \A e : ThreadOK(ToLog(e)) BY <1>3 DEF ThreadOK, Steps
<1> QED BY <1>1, <1>2, <1>3, <1>4

\* A step that leaves the nodes alone, and does not go on to write or to have deleted one.
Elsewhere(t) ==
    /\ IsGraph(g') /\ SameNodes(g, g') /\ nextNodeID' = nextNodeID /\ wal' = wal
    /\ th' = [u \in Threads |-> th'[u]] /\ \A u \in Threads \ {t} : th'[u] = th[u]
    /\ ThreadOK(th'[t]) /\ th'[t].step # "putNodes"
    /\ th'[t].step = "log" => th'[t].entry.op # "DeleteNode"

\* Such a step keeps the invariant.
LEMMA ElsewhereKeeps ==
    ASSUME NodeInv, NEW t \in Threads, Elsewhere(t)
    PROVE  NodeInv'
<1>0. PICK r : r = th'[t] OBVIOUS
<1>1. /\ th' = [u \in Threads |-> th'[u]]
      /\ th'[t] = r /\ \A u \in Threads \ {t} : th'[u] = th[u]
  BY <1>0 DEF Elsewhere
<1>2. TypeOK' BY <1>0, <1>1 DEF NodeInv, TypeOK, Elsewhere, SameNodes
<1>3. \A u \in Threads : Pending(u)' \subseteq Pending(u)
  BY <1>0, <1>1 DEF Pending, Elsewhere
<1>4. FreshNodes'
  <2>1. \A u \in Threads : th'[u].step = "putNodes" => th'[u] = th[u]
    BY <1>0, <1>1 DEF Elsewhere
  <2> QED BY <1>3, <2>1 DEF NodeInv, FreshNodes, Elsewhere, SameNodes
<1>5. \A i : Gone(i) => Gone(i)' BY <1>3 DEF Gone, Elsewhere
<1>6. DeletedStay'
  <2>1. \A u \in Threads : th'[u].step = "log" /\ th'[u].entry.op = "DeleteNode" => th'[u] = th[u]
    BY <1>0, <1>1 DEF Elsewhere
  <2> QED BY <1>5, <2>1 DEF NodeInv, DeletedStay, Elsewhere
<1>7. Counted' /\ LabelsExact' BY DEF NodeInv, Counted, LabelsExact, Elsewhere, SameNodes
<1> QED BY <1>2, <1>4, <1>6, <1>7 DEF NodeInv

--------------------------------------------------------------------------------
(* What each step does to the record of its thread.                           *)

\* Thread t goes on with the record of these fields.
Moves(t, step, entry, todo, adj, id) ==
    /\ th' = [u \in Threads |-> th'[u]] /\ \A u \in Threads \ {t} : th'[u] = th[u]
    /\ IsThread(th'[t])
    /\ th'[t].step = step /\ th'[t].entry = entry /\ th'[t].todo = todo
    /\ th'[t].adj = adj /\ th'[t].id = id

\* From the record to its fields.
LEMMA MovesTo ==
    ASSUME TypeOK, NEW t \in Threads, NEW r, th' = [th EXCEPT ![t] = r], IsThread(r)
    PROVE  Moves(t, r.step, r.entry, r.todo, r.adj, r.id)
BY ThreadStep DEF TypeOK, Moves

\* A call begins, or goes on, with the record r.
LEMMA BeginFacts ==
    ASSUME TypeOK, NEW op, NEW t \in Threads, NEW r, IsThread(r), Begin(op, t, r)
    PROVE  /\ op \in Ops /\ th[t].step = "idle" /\ faults' = faults
           /\ Moves(t, r.step, r.entry, r.todo, r.adj, r.id)
BY MovesTo DEF Begin

\* A call goes on with the record r.
LEMMA GotoFacts ==
    ASSUME TypeOK, NEW t \in Threads, NEW r, IsThread(r), Goto(t, r)
    PROVE  Moves(t, r.step, r.entry, r.todo, r.adj, r.id) /\ faults' = faults
BY MovesTo DEF Goto

\* A call goes on to log the entry e.
LEMMA ToLogFacts ==
    ASSUME TypeOK, NEW t \in Threads, NEW e, Goto(t, ToLog(e))
    PROVE  Moves(t, "log", e, {}, {}, 0) /\ faults' = faults
<1>1. PICK r : r = ToLog(e) OBVIOUS
<1>2. IsThread(r) /\ r.step = "log" /\ r.entry = e /\ r.todo = {} /\ r.adj = {} /\ r.id = 0
  BY <1>1, IdleFields
<1> QED BY <1>1, <1>2, GotoFacts

\* A call is over.
LEMMA ToIdleFacts ==
    ASSUME TypeOK, NEW t \in Threads, Goto(t, Idle)
    PROVE  Moves(t, "idle", None, {}, {}, 0) /\ faults' = faults
<1>1. PICK r : r = Idle OBVIOUS
<1>2. IsThread(r) /\ r.step = "idle" /\ r.entry = None /\ r.todo = {} /\ r.adj = {} /\ r.id = 0
  BY <1>1, IdleFields
<1> QED BY <1>1, <1>2, GotoFacts

\* AddNode and its like: the nodes N are to be written.
LEMMA AllocFacts ==
    ASSUME TypeOK, NEW op, NEW t \in Threads, NEW N, AllocNodes(op, t, N)
    PROVE  /\ op \in Ops /\ th[t].step = "idle" /\ faults' = faults
           /\ Moves(t, "putNodes", [op |-> op, nodes |-> N], N, {}, 0)
           /\ nextNodeID' = nextNodeID + Cardinality(N) /\ nextNodeID' <= MaxNodes
           /\ g' = g /\ wal' = wal /\ nextEdgeID' = nextEdgeID
<1>1. PICK i : i = Idle OBVIOUS
<1>2. PICK r : r = [i EXCEPT !.step = "putNodes", !.todo = N, !.entry = [op |-> op, nodes |-> N]] OBVIOUS
<1>3. IsThread(i) /\ i.adj = {} /\ i.id = 0 BY <1>1, IdleFields
<1>4. IsThread(r) /\ r.step = "putNodes" /\ r.entry = [op |-> op, nodes |-> N] /\ r.todo = N /\ r.adj = {} /\ r.id = 0
  BY <1>2, <1>3 DEF IsThread, ThreadFields
<1>5. Begin(op, t, r) BY <1>1, <1>2 DEF AllocNodes
<1> QED BY <1>4, <1>5, BeginFacts DEF AllocNodes

\* AddEdge: the source is there, the target is to be looked up.
LEMMA AddEdgeFacts ==
    ASSUME TypeOK, NEW t \in Threads, AddEdge(t)
    PROVE  /\ th[t].step = "idle" /\ faults' = faults
           /\ \E f \in DOMAIN g.nodes, o \in NodeIDs, p \in PropArgs :
                Moves(t, "checkTo", None, {[id |-> 0, from |-> f, to |-> o, props |-> p]}, {}, 0)
           /\ g' = g /\ wal' = wal /\ nextNodeID' = nextNodeID /\ nextEdgeID' = nextEdgeID
<1>1. PICK i : i = Idle OBVIOUS
<1>2. PICK f \in DOMAIN g.nodes, o \in NodeIDs, p \in PropArgs :
        Begin("AddEdge", t, [i EXCEPT !.step = "checkTo",
                                      !.todo = {[id |-> 0, from |-> f, to |-> o, props |-> p]}])
  BY <1>1, Zenon DEF AddEdge
<1> DEFINE a == {[id |-> 0, from |-> f, to |-> o, props |-> p]}
<1>3. PICK r : r = [i EXCEPT !.step = "checkTo", !.todo = a] OBVIOUS
<1>4. IsThread(i) /\ i.adj = {} /\ i.id = 0 /\ i.entry = None BY <1>1, IdleFields
<1> HIDE DEF a
<1>5. IsThread(r) /\ r.step = "checkTo" /\ r.entry = None /\ r.todo = a /\ r.adj = {} /\ r.id = 0
  BY <1>3, <1>4 DEF IsThread, ThreadFields
<1>6. Begin("AddEdge", t, r) BY <1>2, <1>3 DEF a
<1>7. Moves(t, "checkTo", None, a, {}, 0) /\ th[t].step = "idle" /\ faults' = faults
  BY <1>5, <1>6, BeginFacts
<1>8. g' = g /\ wal' = wal /\ nextNodeID' = nextNodeID /\ nextEdgeID' = nextEdgeID BY DEF AddEdge
<1> QED BY <1>7, <1>8 DEF a

\* AddEdge goes on with its ID, or fails for want of a target.
LEMMA CheckToFacts ==
    ASSUME TypeOK, NEW t \in Threads, CheckTo(t)
    PROVE  /\ th[t].step = "checkTo" /\ faults' = faults
           /\ \E e \in th[t].todo :
                \/ /\ e.to \notin DOMAIN g.nodes /\ nextEdgeID' = nextEdgeID
                   /\ Moves(t, "idle", None, {}, {}, 0)
                \/ /\ e.to \in DOMAIN g.nodes /\ nextEdgeID' = nextEdgeID + 1
                   /\ \E e1 : /\ e1 = [e EXCEPT !.id = nextEdgeID + 1]
                              /\ Moves(t, "putEdges", [op |-> "AddEdge", edge |-> e1], {e1}, {e1}, 0)
           /\ g' = g /\ wal' = wal /\ nextNodeID' = nextNodeID
<1>1. PICK i : i = Idle OBVIOUS
<1>2. IsThread(i) /\ i.adj = {} /\ i.id = 0 /\ i.entry = None /\ i.step = "idle" /\ i.todo = {}
  BY <1>1, IdleFields
<1>3. PICK e \in th[t].todo :
        IF e.to \notin DOMAIN g.nodes
        THEN Goto(t, i) /\ nextEdgeID' = nextEdgeID
        ELSE /\ nextEdgeID' = nextEdgeID + 1
             /\ LET e1 == [e EXCEPT !.id = nextEdgeID']
                IN Goto(t, [i EXCEPT !.step = "putEdges", !.todo = {e1}, !.adj = {e1},
                                     !.entry = [op |-> "AddEdge", edge |-> e1]])
  BY <1>1 DEF CheckTo
<1>4. g' = g /\ wal' = wal /\ nextNodeID' = nextNodeID /\ th[t].step = "checkTo" BY DEF CheckTo
<1>5. CASE e.to \notin DOMAIN g.nodes
  <2>1. Goto(t, i) /\ nextEdgeID' = nextEdgeID BY <1>3, <1>5
  <2>2. Moves(t, "idle", None, {}, {}, 0) /\ faults' = faults BY <2>1, <1>2, GotoFacts
  <2> QED BY <1>4, <1>5, <2>1, <2>2
<1>6. CASE e.to \in DOMAIN g.nodes
  <2>1. PICK e1 : e1 = [e EXCEPT !.id = nextEdgeID'] OBVIOUS
  <2>2. PICK x : x = [op |-> "AddEdge", edge |-> e1] OBVIOUS
  <2>3. PICK r : r = [i EXCEPT !.step = "putEdges", !.todo = {e1}, !.adj = {e1}, !.entry = x] OBVIOUS
  <2>4. nextEdgeID' = nextEdgeID + 1 /\ Goto(t, r) BY <1>3, <1>6, <2>1, <2>2, <2>3
  <2>5. IsThread(r) /\ r.step = "putEdges" /\ r.entry = x /\ r.todo = {e1} /\ r.adj = {e1} /\ r.id = 0
    BY <1>2, <2>3 DEF IsThread, ThreadFields
  <2>6. Moves(t, "putEdges", x, {e1}, {e1}, 0) /\ faults' = faults BY <2>4, <2>5, GotoFacts
  <2> QED BY <1>4, <1>6, <2>1, <2>2, <2>4, <2>6
<1> QED BY <1>5, <1>6

\* The nodes of one shard are written.
LEMMA PutNodesTxFacts ==
    ASSUME TypeOK, NEW t \in Threads, PutNodesTx(t)
    PROVE  /\ th[t].step = "putNodes" /\ faults' = faults
           /\ \E group \in SUBSET th[t].todo :
                /\ g' = PutNodes(g, group)
                /\ \/ th[t].todo \ group = {} /\ Moves(t, "log", th[t].entry, {}, {}, 0)
                   \/ Moves(t, "putNodes", th[t].entry, th[t].todo \ group, th[t].adj, th[t].id)
           /\ wal' = wal /\ nextNodeID' = nextNodeID /\ nextEdgeID' = nextEdgeID
<1>1. PICK i : i = th[t] OBVIOUS
<1>2. IsThread(i) BY <1>1 DEF TypeOK, ThreadOK
<1>3. PICK s \in {shardFor(n.id) : n \in i.todo} :
        LET group == {n \in i.todo : shardFor(n.id) = s}
            rest  == i.todo \ group
        IN /\ g' = PutNodes(g, group)
           /\ Goto(t, IF rest = {} THEN ToLog(i.entry) ELSE [i EXCEPT !.todo = rest])
  BY <1>1 DEF PutNodesTx
<1>4. PICK group : group = {n \in i.todo : shardFor(n.id) = s} OBVIOUS
<1>5. PICK rest : rest = i.todo \ group OBVIOUS
<1>6. group \in SUBSET i.todo /\ g' = PutNodes(g, group) BY <1>3, <1>4
<1>7. Goto(t, IF rest = {} THEN ToLog(i.entry) ELSE [i EXCEPT !.todo = rest]) BY <1>3, <1>4, <1>5
<1>8. th[t].step = "putNodes" /\ wal' = wal /\ nextNodeID' = nextNodeID /\ nextEdgeID' = nextEdgeID
  BY DEF PutNodesTx
<1>9. CASE rest = {}
  <2>1. Goto(t, ToLog(i.entry)) BY <1>7, <1>9
  <2>2. Moves(t, "log", i.entry, {}, {}, 0) /\ faults' = faults BY <2>1, ToLogFacts
  <2> QED BY <1>1, <1>5, <1>6, <1>8, <1>9, <2>2
<1>10. CASE rest # {}
  <2>1. PICK r : r = [i EXCEPT !.todo = rest] OBVIOUS
  <2>2. Goto(t, r) BY <1>7, <1>10, <2>1
  <2>3. IsThread(r) /\ r.step = i.step /\ r.entry = i.entry /\ r.todo = rest /\ r.adj = i.adj /\ r.id = i.id
    BY <1>2, <2>1 DEF IsThread, ThreadFields
  <2>4. Moves(t, i.step, i.entry, rest, i.adj, i.id) /\ faults' = faults BY <2>2, <2>3, GotoFacts
  <2> QED BY <1>1, <1>5, <1>6, <1>8, <2>4
<1> QED BY <1>9, <1>10

\* A call of one transaction on one node.
LEMMA NodeTxFacts ==
    ASSUME TypeOK, NEW op, NEW t \in Threads, NEW id, NEW h, NEW e, NodeTx(op, t, id, h, e)
    PROVE  /\ op \in Ops /\ th[t].step = "idle" /\ faults' = faults
           /\ id \in DOMAIN g.nodes /\ g' = h
           /\ Moves(t, "log", e, {}, {}, 0)
           /\ wal' = wal /\ nextNodeID' = nextNodeID /\ nextEdgeID' = nextEdgeID
<1>1. Begin(op, t, ToLog(e)) BY DEF NodeTx
<1>2. PICK r : r = ToLog(e) OBVIOUS
<1>3. IsThread(r) /\ r.step = "log" /\ r.entry = e /\ r.todo = {} /\ r.adj = {} /\ r.id = 0
  BY <1>2, IdleFields
<1>4. Begin(op, t, r) BY <1>1, <1>2
<1>5. op \in Ops /\ th[t].step = "idle" /\ faults' = faults /\ Moves(t, "log", e, {}, {}, 0)
  BY <1>3, <1>4, BeginFacts
<1> QED BY <1>5 DEF NodeTx

\* AddEdgeBatch: two edges are to be written.
LEMMA AddEdgeBatchFacts ==
    ASSUME TypeOK, NEW t \in Threads, AddEdgeBatch(t)
    PROVE  /\ "AddEdgeBatch" \in Ops /\ th[t].step = "idle" /\ faults' = faults
           /\ \E f, o \in NodeIDs, p \in PropArgs : \E E :
                /\ f < o
                /\ E = {[id |-> nextEdgeID + 1, from |-> f, to |-> o, props |-> p],
                        [id |-> nextEdgeID + 2, from |-> o, to |-> f, props |-> p]}
                /\ Moves(t, "putEdges", [op |-> "AddEdgeBatch", edges |-> E], E, E, 0)
           /\ nextEdgeID' = nextEdgeID + 2
           /\ g' = g /\ wal' = wal /\ nextNodeID' = nextNodeID
<1>1. PICK i : i = Idle OBVIOUS
<1>2. IsThread(i) /\ i.id = 0 BY <1>1, IdleFields
<1>3. PICK f, o \in NodeIDs, p \in PropArgs :
         /\ f < o
         /\ LET E == {[id |-> nextEdgeID + 1, from |-> f, to |-> o, props |-> p],
                      [id |-> nextEdgeID + 2, from |-> o, to |-> f, props |-> p]}
            IN Begin("AddEdgeBatch", t,
                     [i EXCEPT !.step = "putEdges", !.todo = E, !.adj = E,
                               !.entry = [op |-> "AddEdgeBatch", edges |-> E]])
  BY <1>1, Zenon DEF AddEdgeBatch
<1>4. PICK E : E = {[id |-> nextEdgeID + 1, from |-> f, to |-> o, props |-> p],
                    [id |-> nextEdgeID + 2, from |-> o, to |-> f, props |-> p]}
  OBVIOUS
<1>5. PICK x : x = [op |-> "AddEdgeBatch", edges |-> E] OBVIOUS
<1>6. PICK r : r = [i EXCEPT !.step = "putEdges", !.todo = E, !.adj = E, !.entry = x] OBVIOUS
<1>7. Begin("AddEdgeBatch", t, r) BY <1>3, <1>4, <1>5, <1>6, Zenon
<1>8. IsThread(r) /\ r.step = "putEdges" /\ r.entry = x /\ r.todo = E /\ r.adj = E /\ r.id = 0
  BY <1>2, <1>6 DEF IsThread, ThreadFields
<1>9. "AddEdgeBatch" \in Ops /\ th[t].step = "idle" /\ faults' = faults /\ Moves(t, "putEdges", x, E, E, 0)
  BY <1>7, <1>8, BeginFacts
<1>10. nextEdgeID' = nextEdgeID + 2 /\ g' = g /\ wal' = wal /\ nextNodeID' = nextNodeID
  BY DEF AddEdgeBatch
<1> QED BY <1>3, <1>4, <1>5, <1>9, <1>10

\* The edges of one source shard are written, with their adj_in entries or without.
LEMMA PutEdgesTxFacts ==
    ASSUME TypeOK, NEW t \in Threads, PutEdgesTx(t)
    PROVE  /\ th[t].step = "putEdges" /\ faults' = faults
           /\ \E s : \E group :
                /\ s \in {shardFor(e.from) : e \in th[t].todo}
                /\ group = {e \in th[t].todo : shardFor(e.from) = s}
                /\ \/ /\ OneTx(th[t]) /\ g' = PutAdjIn(PutEdges(g, group), group)
                      /\ Moves(t, "log", th[t].entry, {}, {}, 0)
                   \/ /\ ~OneTx(th[t]) /\ g' = PutEdges(g, group)
                      /\ Moves(t, IF th[t].todo \ group = {} THEN "putAdjIn" ELSE "putEdges",
                               th[t].entry, th[t].todo \ group, th[t].adj, th[t].id)
           /\ wal' = wal /\ nextNodeID' = nextNodeID /\ nextEdgeID' = nextEdgeID
<1>1. PICK i : i = th[t] OBVIOUS
<1>2. IsThread(i) BY <1>1 DEF TypeOK, ThreadOK
<1>3. PICK s \in {shardFor(e.from) : e \in i.todo} :
         LET group == {e \in i.todo : shardFor(e.from) = s}
             rest  == i.todo \ group
         IN IF OneTx(i)
            THEN /\ g' = PutAdjIn(PutEdges(g, group), group)
                 /\ Goto(t, ToLog(i.entry))
            ELSE /\ g' = PutEdges(g, group)
                 /\ Goto(t, [i EXCEPT !.todo = rest,
                                      !.step = IF rest = {} THEN "putAdjIn" ELSE i.step])
  BY <1>1, Zenon DEF PutEdgesTx
<1>4. PICK group : group = {e \in i.todo : shardFor(e.from) = s} OBVIOUS
<1>5. PICK rest : rest = i.todo \ group OBVIOUS
<1>6. th[t].step = "putEdges" /\ wal' = wal /\ nextNodeID' = nextNodeID /\ nextEdgeID' = nextEdgeID
  BY DEF PutEdgesTx
<1>7. CASE OneTx(i)
  <2>1. g' = PutAdjIn(PutEdges(g, group), group) /\ Goto(t, ToLog(i.entry)) BY <1>3, <1>4, <1>7
  <2>2. Moves(t, "log", i.entry, {}, {}, 0) /\ faults' = faults BY <2>1, ToLogFacts
  <2> QED BY <1>1, <1>3, <1>4, <1>6, <1>7, <2>1, <2>2
<1>8. CASE ~OneTx(i)
  <2>1. PICK x : x = IF rest = {} THEN "putAdjIn" ELSE "putEdges" OBVIOUS
  <2>2. PICK r : r = [i EXCEPT !.todo = rest, !.step = x] OBVIOUS
  <2>3. x = IF rest = {} THEN "putAdjIn" ELSE i.step BY <1>1, <1>6, <2>1
  <2>4. g' = PutEdges(g, group) /\ Goto(t, r) BY <1>3, <1>4, <1>5, <1>8, <2>2, <2>3
  <2>5. IsThread(r) /\ r.step = x /\ r.entry = i.entry /\ r.todo = rest /\ r.adj = i.adj /\ r.id = i.id
    BY <1>2, <2>2 DEF IsThread, ThreadFields
  <2>6. Moves(t, x, i.entry, rest, i.adj, i.id) /\ faults' = faults BY <2>4, <2>5, GotoFacts
  <2> QED BY <1>1, <1>3, <1>4, <1>5, <1>6, <1>8, <2>1, <2>4, <2>6
<1> QED BY <1>7, <1>8

\* The adj_in entries of one target shard are written.
LEMMA PutAdjInTxFacts ==
    ASSUME TypeOK, NEW t \in Threads, PutAdjInTx(t)
    PROVE  /\ th[t].step = "putAdjIn" /\ faults' = faults
           /\ \E group \in SUBSET th[t].adj :
                /\ g' = PutAdjIn(g, group)
                /\ \/ /\ th[t].adj \ group = {}
                      /\ Moves(t, "log", th[t].entry, {}, {}, 0)
                   \/ Moves(t, "putAdjIn", th[t].entry, th[t].todo, th[t].adj \ group, th[t].id)
           /\ wal' = wal /\ nextNodeID' = nextNodeID /\ nextEdgeID' = nextEdgeID
<1>1. PICK i : i = th[t] OBVIOUS
<1>2. IsThread(i) BY <1>1 DEF TypeOK, ThreadOK
<1>3. PICK s \in {shardFor(n.to) : n \in i.adj} :
        LET group == {n \in i.adj : shardFor(n.to) = s}
            rest  == i.adj \ group
        IN /\ g' = PutAdjIn(g, group)
           /\ Goto(t, IF rest = {} THEN ToLog(i.entry) ELSE [i EXCEPT !.adj = rest])
  BY <1>1 DEF PutAdjInTx
<1>4. PICK group : group = {n \in i.adj : shardFor(n.to) = s} OBVIOUS
<1>5. PICK rest : rest = i.adj \ group OBVIOUS
<1>6. group \in SUBSET i.adj /\ g' = PutAdjIn(g, group) BY <1>3, <1>4
<1>7. Goto(t, IF rest = {} THEN ToLog(i.entry) ELSE [i EXCEPT !.adj = rest]) BY <1>3, <1>4, <1>5
<1>8. th[t].step = "putAdjIn" /\ wal' = wal /\ nextNodeID' = nextNodeID /\ nextEdgeID' = nextEdgeID
  BY DEF PutAdjInTx
<1>9. CASE rest = {}
  <2>1. Goto(t, ToLog(i.entry)) BY <1>7, <1>9
  <2>2. Moves(t, "log", i.entry, {}, {}, 0) /\ faults' = faults BY <2>1, ToLogFacts
  <2> QED BY <1>1, <1>5, <1>6, <1>8, <1>9, <2>2
<1>10. CASE rest # {}
  <2>1. PICK r : r = [i EXCEPT !.adj = rest] OBVIOUS
  <2>2. Goto(t, r) BY <1>7, <1>10, <2>1
  <2>3. IsThread(r) /\ r.step = i.step /\ r.entry = i.entry /\ r.todo = i.todo /\ r.adj = rest /\ r.id = i.id
    BY <1>2, <2>1 DEF IsThread, ThreadFields
  <2>4. Moves(t, i.step, i.entry, i.todo, rest, i.id) /\ faults' = faults BY <2>2, <2>3, GotoFacts
  <2> QED BY <1>1, <1>5, <1>6, <1>8, <2>4
<1> QED BY <1>9, <1>10

\* UpdateEdge: a copy of the edge is to be written.
LEMMA UpdateEdgeFacts ==
    ASSUME TypeOK, NEW t \in Threads, UpdateEdge(t)
    PROVE  /\ "UpdateEdge" \in Ops /\ th[t].step = "idle" /\ faults' = faults
           /\ \E id \in DOMAIN g.edges, p \in PropArgs : \E e :
                /\ e = [EdgeOf(id) EXCEPT !.props = Put(EdgeOf(id).props, p)]
                /\ Moves(t, "putEdge", [op |-> "UpdateEdge", id |-> id, props |-> p], {e}, {}, 0)
           /\ g' = g /\ wal' = wal /\ nextNodeID' = nextNodeID /\ nextEdgeID' = nextEdgeID
<1>1. PICK i : i = Idle OBVIOUS
<1>2. IsThread(i) /\ i.id = 0 /\ i.adj = {} BY <1>1, IdleFields
<1>3. PICK id \in DOMAIN g.edges, p \in PropArgs :
         Begin("UpdateEdge", t,
               [i EXCEPT !.step = "putEdge",
                         !.todo = {[EdgeOf(id) EXCEPT !.props = Put(EdgeOf(id).props, p)]},
                         !.entry = [op |-> "UpdateEdge", id |-> id, props |-> p]])
  BY <1>1, Zenon DEF UpdateEdge
<1>4. PICK e : e = [EdgeOf(id) EXCEPT !.props = Put(EdgeOf(id).props, p)] OBVIOUS
<1>5. PICK x : x = [op |-> "UpdateEdge", id |-> id, props |-> p] OBVIOUS
<1>6. PICK r : r = [i EXCEPT !.step = "putEdge", !.todo = {e}, !.entry = x] OBVIOUS
<1>7. Begin("UpdateEdge", t, r) BY <1>3, <1>4, <1>5, <1>6, Zenon
<1>8. IsThread(r) /\ r.step = "putEdge" /\ r.entry = x /\ r.todo = {e} /\ r.adj = {} /\ r.id = 0
  BY <1>2, <1>6 DEF IsThread, ThreadFields
<1>9. "UpdateEdge" \in Ops /\ th[t].step = "idle" /\ faults' = faults /\ Moves(t, "putEdge", x, {e}, {}, 0)
  BY <1>7, <1>8, BeginFacts
<1>10. g' = g /\ wal' = wal /\ nextNodeID' = nextNodeID /\ nextEdgeID' = nextEdgeID BY DEF UpdateEdge
<1> QED BY <1>4, <1>5, <1>9, <1>10

\* The copy is written.
LEMMA PutEdgeTxFacts ==
    ASSUME TypeOK, NEW t \in Threads, PutEdgeTx(t)
    PROVE  /\ th[t].step = "putEdge" /\ faults' = faults
           /\ \E e \in th[t].todo :
                g' = [g EXCEPT !.edges = Put(g.edges, Bind(e.id, [from |-> e.from, to |-> e.to, props |-> e.props]))]
           /\ Moves(t, "log", th[t].entry, {}, {}, 0)
           /\ wal' = wal /\ nextNodeID' = nextNodeID /\ nextEdgeID' = nextEdgeID
<1>1. Moves(t, "log", th[t].entry, {}, {}, 0) /\ faults' = faults BY ToLogFacts DEF PutEdgeTx
<1> QED BY <1>1 DEF PutEdgeTx

\* DeleteEdge: one edge is to be deleted.
LEMMA DeleteEdgeFacts ==
    ASSUME TypeOK, NEW t \in Threads, DeleteEdge(t)
    PROVE  /\ th[t].step = "idle" /\ faults' = faults
           /\ \E id \in DOMAIN g.edges : Moves(t, "cascade", None, {<<"out", EdgeOf(id)>>}, {}, 0)
           /\ g' = g /\ wal' = wal /\ nextNodeID' = nextNodeID /\ nextEdgeID' = nextEdgeID
<1>1. PICK i : i = Idle OBVIOUS
<1>2. IsThread(i) /\ i.id = 0 /\ i.adj = {} /\ i.entry = None BY <1>1, IdleFields
<1>3. PICK id \in DOMAIN g.edges :
         Begin("DeleteEdge", t, [i EXCEPT !.step = "cascade", !.todo = {<<"out", EdgeOf(id)>>}])
  BY <1>1, Zenon DEF DeleteEdge
<1>4. PICK a : a = {<<"out", EdgeOf(id)>>} OBVIOUS
<1>5. PICK r : r = [i EXCEPT !.step = "cascade", !.todo = a] OBVIOUS
<1>6. IsThread(r) /\ r.step = "cascade" /\ r.entry = None /\ r.todo = a /\ r.adj = {} /\ r.id = 0
  BY <1>2, <1>5 DEF IsThread, ThreadFields
<1>b. Begin("DeleteEdge", t, r) BY <1>3, <1>4, <1>5
<1>7. th[t].step = "idle" /\ faults' = faults /\ Moves(t, "cascade", None, a, {}, 0)
  BY <1>b, <1>6, BeginFacts
<1>8. g' = g /\ wal' = wal /\ nextNodeID' = nextNodeID /\ nextEdgeID' = nextEdgeID BY DEF DeleteEdge
<1> QED BY <1>4, <1>7, <1>8

\* DeleteNode: the outgoing edges are to be deleted.
LEMMA DeleteNodeFacts ==
    ASSUME TypeOK, NEW t \in Threads, DeleteNode(t)
    PROVE  /\ th[t].step = "idle" /\ faults' = faults
           /\ \E id \in NodeIDs :
                Moves(t, "collectIn", None,
                      {<<"out", EdgeOf(a[2])>> : a \in {b \in g.adjOut : b[1] = id /\ b[2] \in DOMAIN g.edges}},
                      {}, id)
           /\ g' = g /\ wal' = wal /\ nextNodeID' = nextNodeID /\ nextEdgeID' = nextEdgeID
<1>1. PICK i : i = Idle OBVIOUS
<1>2. IsThread(i) /\ i.adj = {} /\ i.entry = None BY <1>1, IdleFields
<1>3. PICK id \in NodeIDs :
         Begin("DeleteNode", t,
               [i EXCEPT !.step = "collectIn", !.id = id,
                         !.todo = {<<"out", EdgeOf(a[2])>> :
                                     a \in {b \in g.adjOut : b[1] = id /\ b[2] \in DOMAIN g.edges}}])
  BY <1>1, Zenon DEF DeleteNode
<1>4. PICK A : A = {<<"out", EdgeOf(a[2])>> : a \in {b \in g.adjOut : b[1] = id /\ b[2] \in DOMAIN g.edges}}
  OBVIOUS
<1>5. PICK r : r = [i EXCEPT !.step = "collectIn", !.id = id, !.todo = A] OBVIOUS
<1>6. IsThread(r) /\ r.step = "collectIn" /\ r.entry = None /\ r.todo = A /\ r.adj = {} /\ r.id = id
  BY <1>2, <1>5 DEF IsThread, ThreadFields
<1>7. Begin("DeleteNode", t, r) BY <1>3, <1>4, <1>5, Zenon
<1>8. th[t].step = "idle" /\ faults' = faults /\ Moves(t, "collectIn", None, A, {}, id)
  BY <1>6, <1>7, BeginFacts
<1>9. g' = g /\ wal' = wal /\ nextNodeID' = nextNodeID /\ nextEdgeID' = nextEdgeID BY DEF DeleteNode
<1> QED BY <1>4, <1>8, <1>9

\* The edges with an entry in A that are there, as collected.
Incoming(A) == {<<"in", EdgeOf(a[2])>> : a \in {b \in A : b[2] \in DOMAIN g.edges}}

\* DeleteNode: the incoming edges too, or their entries to be looked up.
LEMMA CollectInFacts ==
    ASSUME TypeOK, NEW t \in Threads, CollectIn(t)
    PROVE  /\ th[t].step = "collectIn" /\ faults' = faults
           /\ \E found :
                /\ found = {a \in g.adjIn : a[1] = th[t].id}
                /\ \/ /\ ShardCount = 1
                      /\ Moves(t, "cascade", th[t].entry, th[t].todo \cup Incoming(found), th[t].adj, th[t].id)
                   \/ /\ ShardCount # 1
                      /\ Moves(t, IF found = {} THEN "cascade" ELSE "fetchIn", th[t].entry, th[t].todo, found, th[t].id)
           /\ g' = g /\ wal' = wal /\ nextNodeID' = nextNodeID /\ nextEdgeID' = nextEdgeID
<1>1. PICK i : i = th[t] OBVIOUS
<1>2. IsThread(i) BY <1>1 DEF TypeOK, ThreadOK
<1>3. PICK found : found = {a \in g.adjIn : a[1] = th[t].id} OBVIOUS
<1>4. Goto(t, IF ShardCount = 1
              THEN [i EXCEPT !.step = "cascade", !.todo = i.todo \cup Incoming(found)]
              ELSE [i EXCEPT !.step = IF found = {} THEN "cascade" ELSE "fetchIn", !.adj = found])
  BY <1>1, <1>3, Zenon DEF CollectIn, Incoming
<1>5. th[t].step = "collectIn" /\ g' = g /\ wal' = wal /\ nextNodeID' = nextNodeID /\ nextEdgeID' = nextEdgeID
  BY DEF CollectIn
<1>6. CASE ShardCount = 1
  <2>1. PICK a : a = i.todo \cup Incoming(found) OBVIOUS
  <2>2. PICK r : r = [i EXCEPT !.step = "cascade", !.todo = a] OBVIOUS
  <2>3. IsThread(r) /\ r.step = "cascade" /\ r.entry = i.entry /\ r.todo = a /\ r.adj = i.adj /\ r.id = i.id
    BY <1>2, <2>2 DEF IsThread, ThreadFields
  <2>4. Goto(t, r) BY <1>4, <1>6, <2>1, <2>2
  <2>5. Moves(t, "cascade", i.entry, a, i.adj, i.id) /\ faults' = faults BY <2>3, <2>4, GotoFacts
  <2> QED BY <1>1, <1>3, <1>5, <1>6, <2>1, <2>5
<1>7. CASE ShardCount # 1
  <2>1. PICK s : s = IF found = {} THEN "cascade" ELSE "fetchIn" OBVIOUS
  <2>2. PICK r : r = [i EXCEPT !.step = s, !.adj = found] OBVIOUS
  <2>3. IsThread(r) /\ r.step = s /\ r.entry = i.entry /\ r.todo = i.todo /\ r.adj = found /\ r.id = i.id
    BY <1>2, <2>2 DEF IsThread, ThreadFields
  <2>4. Goto(t, r) BY <1>4, <1>7, <2>1, <2>2
  <2>5. Moves(t, s, i.entry, i.todo, found, i.id) /\ faults' = faults BY <2>3, <2>4, GotoFacts
  <2> QED BY <1>1, <1>3, <1>5, <1>7, <2>1, <2>5
<1> QED BY <1>6, <1>7

\* DeleteNode: the incoming edges of one source shard.
LEMMA FetchInFacts ==
    ASSUME TypeOK, NEW t \in Threads, FetchIn(t)
    PROVE  /\ th[t].step = "fetchIn" /\ faults' = faults
           /\ \E group \in SUBSET th[t].adj :
                Moves(t, IF th[t].adj \ group = {} THEN "cascade" ELSE "fetchIn", th[t].entry,
                      th[t].todo \cup Incoming(group), th[t].adj \ group, th[t].id)
           /\ g' = g /\ wal' = wal /\ nextNodeID' = nextNodeID /\ nextEdgeID' = nextEdgeID
<1>1. PICK i : i = th[t] OBVIOUS
<1>2. IsThread(i) BY <1>1 DEF TypeOK, ThreadOK
<1>3. PICK s \in {shardFor(a[3]) : a \in i.adj} :
         LET group == {a \in i.adj : shardFor(a[3]) = s}
             rest  == i.adj \ group
         IN Goto(t, [i EXCEPT
                       !.step = IF rest = {} THEN "cascade" ELSE i.step,
                       !.adj  = rest,
                       !.todo = i.todo \cup Incoming(group)])
  BY <1>1, Zenon DEF FetchIn, Incoming
<1>4. th[t].step = "fetchIn" /\ g' = g /\ wal' = wal /\ nextNodeID' = nextNodeID /\ nextEdgeID' = nextEdgeID
  BY DEF FetchIn
<1>5. PICK group : group = {a \in i.adj : shardFor(a[3]) = s} OBVIOUS
<1>6. PICK rest : rest = i.adj \ group OBVIOUS
<1>7. PICK x : x = IF rest = {} THEN "cascade" ELSE "fetchIn" OBVIOUS
<1>8. PICK a : a = i.todo \cup Incoming(group) OBVIOUS
<1>9. PICK r : r = [i EXCEPT !.step = x, !.adj = rest, !.todo = a] OBVIOUS
<1>10. x = IF rest = {} THEN "cascade" ELSE i.step BY <1>1, <1>4, <1>7
<1>11. Goto(t, r) BY <1>3, <1>5, <1>6, <1>8, <1>9, <1>10, Zenon
<1>12. IsThread(r) /\ r.step = x /\ r.entry = i.entry /\ r.todo = a /\ r.adj = rest /\ r.id = i.id
  BY <1>2, <1>9 DEF IsThread, ThreadFields
<1>13. Moves(t, x, i.entry, a, rest, i.id) /\ faults' = faults BY <1>11, <1>12, GotoFacts
<1>14. group \in SUBSET i.adj BY <1>5
<1> QED BY <1>1, <1>4, <1>6, <1>7, <1>8, <1>13, <1>14

\* One of the edges to be deleted is.
LEMMA DropEdgeTxFacts ==
    ASSUME TypeOK, NEW t \in Threads, DropEdgeTx(t)
    PROVE  /\ th[t].step = "cascade" /\ faults' = faults
           /\ \E x \in th[t].todo :
                /\ g' = DropEdge(g, x[2])
                /\ Moves(t, "dropAdjIn", [op |-> "DeleteEdge", edge |-> x[2]], th[t].todo \ {x}, th[t].adj, th[t].id)
           /\ wal' = wal /\ nextNodeID' = nextNodeID /\ nextEdgeID' = nextEdgeID
<1>1. PICK i : i = th[t] OBVIOUS
<1>2. IsThread(i) BY <1>1 DEF TypeOK, ThreadOK
<1>3. PICK x \in i.todo :
         /\ g' = DropEdge(g, x[2])
         /\ Goto(t, [i EXCEPT !.step = "dropAdjIn", !.todo = i.todo \ {x},
                              !.entry = [op |-> "DeleteEdge", edge |-> x[2]]])
  BY <1>1, Zenon DEF DropEdgeTx
<1>4. th[t].step = "cascade" /\ wal' = wal /\ nextNodeID' = nextNodeID /\ nextEdgeID' = nextEdgeID
  BY DEF DropEdgeTx
<1>5. PICK a : a = i.todo \ {x} OBVIOUS
<1>6. PICK e : e = [op |-> "DeleteEdge", edge |-> x[2]] OBVIOUS
<1>7. PICK r : r = [i EXCEPT !.step = "dropAdjIn", !.todo = a, !.entry = e] OBVIOUS
<1>8. IsThread(r) /\ r.step = "dropAdjIn" /\ r.entry = e /\ r.todo = a /\ r.adj = i.adj /\ r.id = i.id
  BY <1>2, <1>7 DEF IsThread, ThreadFields
<1>9. Moves(t, "dropAdjIn", e, a, i.adj, i.id) /\ faults' = faults
  BY <1>3, <1>5, <1>6, <1>7, <1>8, GotoFacts
<1> QED BY <1>1, <1>3, <1>4, <1>5, <1>6, <1>9

\* Its adj_in entry is.
LEMMA DropAdjInTxFacts ==
    ASSUME TypeOK, NEW t \in Threads, DropAdjInTx(t)
    PROVE  /\ th[t].step = "dropAdjIn" /\ faults' = faults
           /\ g' = DropAdjIn(g, th[t].entry.edge)
           /\ Moves(t, "log", th[t].entry, th[t].todo, th[t].adj, th[t].id)
           /\ wal' = wal /\ nextNodeID' = nextNodeID /\ nextEdgeID' = nextEdgeID
<1>1. PICK i : i = th[t] OBVIOUS
<1>2. IsThread(i) BY <1>1 DEF TypeOK, ThreadOK
<1>3. PICK r : r = [i EXCEPT !.step = "log"] OBVIOUS
<1>4. IsThread(r) /\ r.step = "log" /\ r.entry = i.entry /\ r.todo = i.todo /\ r.adj = i.adj /\ r.id = i.id
  BY <1>2, <1>3 DEF IsThread, ThreadFields
<1>5. Goto(t, r) BY <1>1, <1>3 DEF DropAdjInTx
<1>6. Moves(t, "log", i.entry, i.todo, i.adj, i.id) /\ faults' = faults BY <1>4, <1>5, GotoFacts
<1> QED BY <1>1, <1>6 DEF DropAdjInTx

\* The node is deleted, or was gone.
LEMMA DropNodeTxFacts ==
    ASSUME TypeOK, NEW t \in Threads, DropNodeTx(t)
    PROVE  /\ th[t].step = "cascade" /\ th[t].todo = {} /\ faults' = faults
           /\ \/ /\ th[t].id \in DOMAIN g.nodes /\ g' = DropNode(g, th[t].id)
                 /\ Moves(t, "log", [op |-> "DeleteNode", id |-> th[t].id], {}, {}, 0)
              \/ /\ th[t].id \notin DOMAIN g.nodes /\ g' = g
                 /\ Moves(t, "idle", None, {}, {}, 0)
           /\ wal' = wal /\ nextNodeID' = nextNodeID /\ nextEdgeID' = nextEdgeID
<1>1. CASE th[t].id \in DOMAIN g.nodes
  <2>1. g' = DropNode(g, th[t].id) /\ Goto(t, ToLog([op |-> "DeleteNode", id |-> th[t].id]))
    BY <1>1 DEF DropNodeTx
  <2>2. Moves(t, "log", [op |-> "DeleteNode", id |-> th[t].id], {}, {}, 0) /\ faults' = faults
    BY <2>1, ToLogFacts
  <2> QED BY <1>1, <2>1, <2>2 DEF DropNodeTx
<1>2. CASE th[t].id \notin DOMAIN g.nodes
  <2>1. g' = g /\ Goto(t, Idle) BY <1>2 DEF DropNodeTx
  <2>2. Moves(t, "idle", None, {}, {}, 0) /\ faults' = faults BY <2>1, ToIdleFacts
  <2> QED BY <1>2, <2>1, <2>2 DEF DropNodeTx
<1> QED BY <1>1, <1>2

\* The append, or its failure: the call ends, or DeleteNode's cascade goes on.
LEMMA LogFacts ==
    ASSUME TypeOK, NEW t \in Threads, Log(t) \/ LogFails(t)
    PROVE  /\ th[t].step = "log" /\ g' = g
           /\ wal' = wal \/ wal' = Append(wal, th[t].entry)
           /\ \/ th[t].todo = {} /\ th[t].id = 0 /\ Moves(t, "idle", None, {}, {}, 0)
              \/ /\ ~(th[t].todo = {} /\ th[t].id = 0)
                 /\ Moves(t, "cascade", None, th[t].todo, th[t].adj, th[t].id)
           /\ nextNodeID' = nextNodeID /\ nextEdgeID' = nextEdgeID
           /\ faults' = faults \/ faults' = faults + 1
<1>1. PICK i : i = th[t] OBVIOUS
<1>2. IsThread(i) BY <1>1 DEF TypeOK, ThreadOK
<1>3. th' = [th EXCEPT ![t] = AfterLog(i)] BY <1>1 DEF Log, LogFails, Goto
<1>4. CASE i.todo = {} /\ i.id = 0
  <2>1. PICK r : r = Idle OBVIOUS
  <2>2. IsThread(r) /\ r.step = "idle" /\ r.entry = None /\ r.todo = {} /\ r.adj = {} /\ r.id = 0
    BY <2>1, IdleFields
  <2>3. th' = [th EXCEPT ![t] = r] BY <1>3, <1>4, <2>1 DEF AfterLog
  <2>4. Moves(t, "idle", None, {}, {}, 0) BY <2>2, <2>3, MovesTo
  <2> QED BY <1>1, <1>4, <2>4 DEF Log, LogFails, Goto
<1>5. CASE ~(i.todo = {} /\ i.id = 0)
  <2>1. PICK r : r = [i EXCEPT !.step = "cascade", !.entry = None] OBVIOUS
  <2>2. IsThread(r) /\ r.step = "cascade" /\ r.entry = None /\ r.todo = i.todo /\ r.adj = i.adj /\ r.id = i.id
    BY <1>2, <2>1 DEF IsThread, ThreadFields
  <2>3. th' = [th EXCEPT ![t] = r] BY <1>3, <1>5, <2>1 DEF AfterLog
  <2>4. Moves(t, "cascade", None, i.todo, i.adj, i.id) BY <2>2, <2>3, MovesTo
  <2> QED BY <1>1, <1>5, <2>4 DEF Log, LogFails, Goto
<1> QED BY <1>4, <1>5

\* A call ends with an error.
LEMMA WriteFailsFacts ==
    ASSUME TypeOK, NEW t \in Threads, WriteFails(t)
    PROVE  /\ faults < MaxFaults /\ faults' = faults + 1
           /\ Moves(t, "idle", None, {}, {}, 0)
           /\ g' = g /\ wal' = wal /\ nextNodeID' = nextNodeID /\ nextEdgeID' = nextEdgeID
<1>1. PICK r : r = Idle OBVIOUS
<1>2. IsThread(r) /\ r.step = "idle" /\ r.entry = None /\ r.todo = {} /\ r.adj = {} /\ r.id = 0
  BY <1>1, IdleFields
<1>3. th' = [th EXCEPT ![t] = r] BY <1>1 DEF WriteFails
<1>4. Moves(t, "idle", None, {}, {}, 0) BY <1>2, <1>3, MovesTo
<1> QED BY <1>4 DEF WriteFails

--------------------------------------------------------------------------------
(* Every step keeps the invariant of the nodes.                               *)

\* A thread that goes on to neither write nor have deleted a node.
LEMMA MovesElsewhere ==
    ASSUME NodeInv, NEW t \in Threads, NEW s, NEW e, NEW a, NEW b, NEW n, Moves(t, s, e, a, b, n),
           s \in Steps \ {"putNodes"},
           s \in {"putEdges", "putAdjIn", "putEdge", "dropAdjIn", "log"} => e.op # "DeleteNode",
           IsGraph(g'), SameNodes(g, g'), nextNodeID' = nextNodeID, wal' = wal
    PROVE  NodeInv'
<1>1. Elsewhere(t) BY DEF Elsewhere, Moves, ThreadOK
<1> QED BY <1>1, ElsewhereKeeps

\* Only t takes a step.
Alone(t) ==
    /\ th' = [u \in Threads |-> th'[u]] /\ \A u \in Threads \ {t} : th'[u] = th[u]
    /\ IsThread(th'[t])

\* Such a step, if it goes on to neither write nor have deleted a node, keeps the invariant.
LEMMA AloneElsewhere ==
    ASSUME NodeInv, NEW t \in Threads, Alone(t), th'[t].step \in Steps \ {"putNodes"},
           th'[t].step \in {"putEdges", "putAdjIn", "putEdge", "dropAdjIn", "log"}
             => th'[t].entry.op # "DeleteNode",
           IsGraph(g'), SameNodes(g, g'), nextNodeID' = nextNodeID, wal' = wal
    PROVE  NodeInv'
<1>1. Elsewhere(t) BY DEF Elsewhere, Alone, ThreadOK
<1> QED BY <1>1, ElsewhereKeeps

\* Nothing is written.
LEMMA SameGraph == ASSUME NodeInv, g' = g PROVE IsGraph(g') /\ SameNodes(g, g')
BY DEF NodeInv, TypeOK, SameNodes

\* The number of nodes the counter has to keep up with.
LEMMA NodesFinite ==
    ASSUME NodeInv
    PROVE  /\ nextNodeID \in Nat /\ IsFiniteSet(DOMAIN g.nodes)
           /\ Cardinality(DOMAIN g.nodes) \in Nat /\ Cardinality(DOMAIN g.nodes) <= nextNodeID
           /\ nextNodeID < UintMod /\ UintMod \in Nat /\ nextNodeID <= MaxNodes /\ MaxNodes \in Nat
<1>1. nextNodeID \in Nat /\ nextNodeID <= MaxNodes /\ MaxNodes \in Nat /\ UintMod \in Nat /\ nextNodeID < UintMod
  BY GraphStoreAssumption, BucketsAssumption DEF NodeInv, TypeOK
<1>2. IsFiniteSet(1..nextNodeID) /\ Cardinality(1..nextNodeID) = nextNodeID
  BY <1>1, FS_Interval
<1>3. IsFiniteSet(DOMAIN g.nodes) /\ Cardinality(DOMAIN g.nodes) <= Cardinality(1..nextNodeID)
  BY <1>2, FS_Subset DEF NodeInv, TypeOK
<1>4. Cardinality(DOMAIN g.nodes) \in Nat BY <1>3, FS_CardinalityType
<1> QED BY <1>1, <1>2, <1>3, <1>4

\* As many IDs as nodes.
LEMMA DistinctIds ==
    ASSUME NEW N, IsFiniteSet(N), \A m, n \in N : m.id = n.id => m = n
    PROVE  /\ IsFiniteSet({n.id : n \in N}) /\ Cardinality({n.id : n \in N}) = Cardinality(N)
           /\ Cardinality(N) \in Nat
<1> DEFINE I == {n.id : n \in N}
<1> DEFINE f == [n \in N |-> n.id]
<1>1. f \in Bijection(N, I) BY DEF Bijection, Injection, Surjection, IsInjective
<1>2. ExistsBijection(N, I) BY <1>1 DEF ExistsBijection
<1> HIDE DEF I
<1>3. IsFiniteSet(I) /\ Cardinality(I) = Cardinality(N) BY <1>2, FS_Bijection
<1>4. Cardinality(N) \in Nat BY FS_CardinalityType
<1> QED BY <1>3, <1>4 DEF I

\* A call takes new IDs.
LEMMA AllocKeeps ==
    ASSUME NodeInv, NEW op, NEW t \in Threads, NEW N, AllocNodes(op, t, N), op # "DeleteNode",
           IsFiniteSet(N), \A m, n \in N : m.id = n.id => m = n,
           \A n \in N : n.id \in nextNodeID + 1 .. nextNodeID + Cardinality(N)
    PROVE  NodeInv'
<1>1. /\ Moves(t, "putNodes", [op |-> op, nodes |-> N], N, {}, 0)
      /\ nextNodeID' = nextNodeID + Cardinality(N) /\ nextNodeID' <= MaxNodes
      /\ g' = g /\ wal' = wal /\ th[t].step = "idle"
  BY AllocFacts DEF NodeInv
<1>2. PICK e : e = [op |-> op, nodes |-> N] OBVIOUS
<1>3. e.op = op BY <1>2
<1>4. /\ Cardinality(N) \in Nat /\ nextNodeID \in Nat /\ MaxNodes \in Nat
  BY NodesFinite, FS_CardinalityType
<1>5. nextNodeID' \in 0..MaxNodes /\ nextNodeID <= nextNodeID' BY <1>1, <1>4
<1>6. /\ th' = [u \in Threads |-> th'[u]] /\ \A u \in Threads \ {t} : th'[u] = th[u]
      /\ IsThread(th'[t]) /\ th'[t].step = "putNodes" /\ th'[t].entry = e /\ th'[t].todo = N
  BY <1>1, <1>2 DEF Moves
<1>7. DOMAIN g.nodes \subseteq 1..nextNodeID' BY <1>4, <1>5 DEF NodeInv, TypeOK
<1>8. TypeOK' BY <1>1, <1>3, <1>5, <1>6, <1>7 DEF NodeInv, TypeOK, ThreadOK, Steps
<1>9. Pending(t)' = {n.id : n \in N} /\ \A u \in Threads \ {t} : Pending(u)' = Pending(u)
  BY <1>6 DEF Pending
<1>10. \A i \in {n.id : n \in N} : i \in Nat /\ nextNodeID < i /\ i <= nextNodeID' /\ i \in 1..nextNodeID'
  BY <1>1, <1>4
<1>11. \A u \in Threads : Pending(u) \subseteq 1..nextNodeID BY DEF NodeInv, FreshNodes
<1>12. \A i \in 1..nextNodeID : i \notin {n.id : n \in N} /\ i \in 1..nextNodeID'
  BY <1>4, <1>5, <1>10
<1>13. FreshNodes'
  <2>1. \A u \in Threads : Pending(u)' \subseteq (1..nextNodeID)' \ DOMAIN g'.nodes
    <3>1. Pending(t)' \subseteq (1..nextNodeID)' \ DOMAIN g'.nodes
      BY <1>1, <1>9, <1>10, <1>12 DEF NodeInv, TypeOK
    <3>2. \A u \in Threads \ {t} : Pending(u)' \subseteq (1..nextNodeID)' \ DOMAIN g'.nodes
      BY <1>1, <1>9, <1>12 DEF NodeInv, FreshNodes
    <3> QED BY <3>1, <3>2
  <2>2. \A u \in Threads, v \in Threads : u # v => Pending(u)' \cap Pending(v)' = {}
    <3>1. \A u \in Threads \ {t} : Pending(u)' \cap Pending(t)' = {} BY <1>9, <1>11, <1>12
    <3>2. \A u \in Threads \ {t}, v \in Threads \ {t} : u # v => Pending(u)' \cap Pending(v)' = {}
      BY <1>9 DEF NodeInv, FreshNodes
    <3> QED BY <3>1, <3>2
  <2>3. \A u \in Threads : th'[u].step = "putNodes" =>
           IsFiniteSet(th'[u].todo) /\ \A m, n \in th'[u].todo : m.id = n.id => m = n
    BY <1>6 DEF NodeInv, FreshNodes
  <2> QED BY <2>1, <2>2, <2>3 DEF FreshNodes
<1>14. \A i : Gone(i) => Gone(i)' BY <1>9, <1>12 DEF Gone
<1>15. DeletedStay' BY <1>1, <1>6, <1>14 DEF NodeInv, DeletedStay
<1>16. Counted' /\ LabelsExact' BY <1>1 DEF NodeInv, Counted, LabelsExact
<1> QED BY <1>8, <1>13, <1>15, <1>16 DEF NodeInv

\* A transaction writes some of them.
LEMMA PutNodesKeeps == ASSUME NodeInv, NEW t \in Threads, PutNodesTx(t) PROVE NodeInv'
<1>1. PICK group \in SUBSET th[t].todo :
        /\ g' = PutNodes(g, group)
        /\ \/ Moves(t, "log", th[t].entry, {}, {}, 0)
           \/ Moves(t, "putNodes", th[t].entry, th[t].todo \ group, th[t].adj, th[t].id)
  BY PutNodesTxFacts DEF NodeInv
<1>2. th[t].step = "putNodes" /\ wal' = wal /\ nextNodeID' = nextNodeID
  BY PutNodesTxFacts DEF NodeInv
<1>3. /\ th' = [u \in Threads |-> th'[u]] /\ \A u \in Threads \ {t} : th'[u] = th[u]
      /\ IsThread(th'[t]) /\ th'[t].entry = th[t].entry
      /\ \/ th'[t].step = "log"
         \/ th'[t].step = "putNodes" /\ th'[t].todo = th[t].todo \ group
  BY <1>1 DEF Moves
<1>4. th[t].entry.op # "DeleteNode" BY <1>2 DEF NodeInv, TypeOK, ThreadOK
<1>5. PICK ids : ids = {n.id : n \in group} OBVIOUS
<1>6. /\ IsGraph(g') /\ DOMAIN g'.nodes = DOMAIN g.nodes \cup ids
      /\ g'.labels = {p \in g.labels : p[1] \notin {q[1] : q \in LabelPairs(group)}} \cup LabelPairs(group)
      /\ g'.labelIdx = g.labelIdx \cup LabelPairs(group)
      /\ g'.nodeCount = Add(g.nodeCount, Cardinality(group))
  BY <1>1, <1>5, PutNodesFields DEF NodeInv, TypeOK
<1>7. /\ IsFiniteSet(th[t].todo) /\ \A m, n \in th[t].todo : m.id = n.id => m = n
      /\ ids \subseteq Pending(t) /\ Pending(t) \subseteq (1..nextNodeID) \ DOMAIN g.nodes
  BY <1>2, <1>5 DEF NodeInv, FreshNodes, Pending
<1>8. TypeOK'
  <2>1. ThreadOK(th'[t]) BY <1>3, <1>4 DEF ThreadOK, Steps
  <2> QED BY <1>2, <1>3, <1>6, <1>7, <2>1 DEF NodeInv, TypeOK
<1>9. /\ Pending(t)' \subseteq Pending(t) \ ids
      /\ \A u \in Threads \ {t} : Pending(u)' = Pending(u) /\ Pending(u) \cap ids = {}
  <2>1. Pending(t)' \subseteq Pending(t) \ ids
    <3>1. Pending(t) = {n.id : n \in th[t].todo} BY <1>2 DEF Pending
    <3>2. CASE th'[t].step = "log" BY <3>2 DEF Pending
    <3>3. CASE th'[t].step = "putNodes" /\ th'[t].todo = th[t].todo \ group
      <4>1. Pending(t)' = {n.id : n \in th[t].todo \ group} BY <3>3 DEF Pending
      <4> QED BY <1>5, <1>7, <3>1, <4>1
    <3> QED BY <1>3, <3>2, <3>3
  <2>2. \A u \in Threads \ {t} : Pending(u)' = Pending(u) BY <1>3 DEF Pending
  <2>3. \A u \in Threads \ {t} : Pending(u) \cap Pending(t) = {} BY DEF NodeInv, FreshNodes
  <2> QED BY <1>7, <2>1, <2>2, <2>3
<1>10. FreshNodes'
  <2>1. \A u \in Threads : Pending(u)' \subseteq (1..nextNodeID)' \ DOMAIN g'.nodes
    BY <1>2, <1>6, <1>9 DEF NodeInv, FreshNodes
  <2>2. \A u \in Threads : Pending(u)' \subseteq Pending(u) BY <1>9
  <2>3. \A u \in Threads, v \in Threads : u # v => Pending(u)' \cap Pending(v)' = {}
    BY <2>2 DEF NodeInv, FreshNodes
  <2>4. \A u \in Threads : th'[u].step = "putNodes" =>
           IsFiniteSet(th'[u].todo) /\ \A m, n \in th'[u].todo : m.id = n.id => m = n
    <3>1. IsFiniteSet(th[t].todo \ group) BY <1>7, FS_Subset
    <3>2. th'[t].step = "putNodes" =>
            IsFiniteSet(th'[t].todo) /\ \A m, n \in th'[t].todo : m.id = n.id => m = n
      BY <1>3, <1>7, <3>1
    <3> QED BY <1>3, <3>2 DEF NodeInv, FreshNodes
  <2> QED BY <2>1, <2>3, <2>4 DEF FreshNodes
<1>11. \A i : Gone(i) => Gone(i)' BY <1>2, <1>9 DEF Gone
<1>12. DeletedStay' BY <1>2, <1>3, <1>4, <1>11 DEF NodeInv, DeletedStay
<1>13. Counted'
  <2>1. IsFiniteSet(group) BY <1>7, FS_Subset
  <2>2. IsFiniteSet(ids) /\ Cardinality(ids) = Cardinality(group) /\ Cardinality(group) \in Nat
    BY <1>5, <1>7, <2>1, DistinctIds
  <2>3. ids \cap DOMAIN g.nodes = {} BY <1>7
  <2>4. Cardinality(DOMAIN g.nodes \cup ids) = Cardinality(DOMAIN g.nodes) + Cardinality(ids)
    <3>1. Cardinality(DOMAIN g.nodes \cup ids)
            = Cardinality(DOMAIN g.nodes) + Cardinality(ids) - Cardinality(DOMAIN g.nodes \cap ids)
      BY <2>2, NodesFinite, FS_Union
    <3>2. DOMAIN g.nodes \cap ids = {} BY <2>3
    <3>3. Cardinality(DOMAIN g.nodes \cap ids) = 0 BY <3>2, FS_EmptySet
    <3>4. Cardinality(DOMAIN g.nodes) \in Nat /\ Cardinality(ids) \in Nat BY <2>2, NodesFinite
    <3> QED BY <3>1, <3>3, <3>4
  <2>5. Cardinality(DOMAIN g.nodes \cup ids) <= nextNodeID
    <3>1. DOMAIN g.nodes \cup ids \subseteq 1..nextNodeID BY <1>7 DEF NodeInv, TypeOK
    <3>2. IsFiniteSet(1..nextNodeID) /\ Cardinality(1..nextNodeID) = nextNodeID BY NodesFinite, FS_Interval
    <3> QED BY <3>1, <3>2, FS_Subset
  <2>6. PICK a, b : a = Cardinality(DOMAIN g.nodes) /\ b = Cardinality(group) OBVIOUS
  <2>7. a \in Nat /\ b \in Nat /\ a + b < UintMod /\ UintMod \in Nat BY <2>2, <2>4, <2>5, <2>6, NodesFinite
  <2>8. (a + b) % UintMod = a + b BY <2>7
  <2>9. g.nodeCount = a BY <2>6 DEF NodeInv, Counted
  <2> QED BY <1>6, <2>2, <2>4, <2>6, <2>8, <2>9 DEF Counted, Add
<1>14. LabelsExact'
  <2>1. \A q \in LabelPairs(group) : q[1] \in ids BY <1>5 DEF LabelPairs
  <2>2. \A p \in g.labels : p[1] \notin ids BY <1>7 DEF NodeInv, LabelsExact
  <2>3. {p \in g.labels : p[1] \notin {q[1] : q \in LabelPairs(group)}} = g.labels BY <2>1, <2>2
  <2>4. g'.labels = g.labels \cup LabelPairs(group) BY <1>6, <2>3
  <2> QED BY <1>6, <2>1, <2>4 DEF NodeInv, LabelsExact
<1> QED BY <1>8, <1>10, <1>12, <1>13, <1>14 DEF NodeInv

\* Labels are added to, and taken from, nodes that are there.
LEMMA LabelsKeep == ASSUME NodeInv, NEW t \in Threads, AddLabel(t) \/ RemoveLabel(t) PROVE NodeInv'
<1>1. PICK id, L, e :
        /\ e.op # "DeleteNode" /\ id \in DOMAIN g.nodes
        /\ g' = AddLabels(g, id, L) \/ g' = RemoveLabels(g, id, L)
        /\ Moves(t, "log", e, {}, {}, 0) /\ wal' = wal /\ nextNodeID' = nextNodeID
  <2>1. CASE AddLabel(t)
    <3>1. PICK id \in NodeIDs, L \in LabelArgs \ {{}} :
            NodeTx("AddLabel", t, id, AddLabels(g, id, L), [op |-> "AddLabel", id |-> id, labels |-> L])
      BY <2>1 DEF AddLabel
    <3>2. PICK e : e = [op |-> "AddLabel", id |-> id, labels |-> L] OBVIOUS
    <3>3. e.op = "AddLabel" BY <3>2
    <3>4. /\ id \in DOMAIN g.nodes /\ g' = AddLabels(g, id, L) /\ Moves(t, "log", e, {}, {}, 0)
          /\ wal' = wal /\ nextNodeID' = nextNodeID
      BY <3>1, <3>2, NodeTxFacts DEF NodeInv
    <3> QED BY <3>3, <3>4
  <2>2. CASE RemoveLabel(t)
    <3>1. PICK id \in NodeIDs, L \in LabelArgs \ {{}} :
            NodeTx("RemoveLabel", t, id, RemoveLabels(g, id, L), [op |-> "RemoveLabel", id |-> id, labels |-> L])
      BY <2>2 DEF RemoveLabel
    <3>2. PICK e : e = [op |-> "RemoveLabel", id |-> id, labels |-> L] OBVIOUS
    <3>3. e.op = "RemoveLabel" BY <3>2
    <3>4. /\ id \in DOMAIN g.nodes /\ g' = RemoveLabels(g, id, L) /\ Moves(t, "log", e, {}, {}, 0)
          /\ wal' = wal /\ nextNodeID' = nextNodeID
      BY <3>1, <3>2, NodeTxFacts DEF NodeInv
    <3> QED BY <3>3, <3>4
  <2> QED BY <2>1, <2>2
<1>2. /\ IsGraph(g') /\ DOMAIN g'.nodes = DOMAIN g.nodes /\ g'.nodeCount = g.nodeCount
      /\ \/ g'.labels = g.labels \cup ({id} \X L) /\ g'.labelIdx = g.labelIdx \cup ({id} \X L)
         \/ g'.labels = g.labels \ ({id} \X L) /\ g'.labelIdx = g.labelIdx \ ({id} \X L)
  BY <1>1, LabelFields DEF NodeInv, TypeOK
<1>3. LabelsExact'
  <2>1. \A p \in {id} \X L : p[1] = id OBVIOUS
  <2> QED BY <1>1, <1>2, <2>1 DEF NodeInv, LabelsExact
<1>4. Counted' BY <1>2 DEF NodeInv, Counted
<1>5. /\ th' = [u \in Threads |-> th'[u]] /\ \A u \in Threads \ {t} : th'[u] = th[u]
      /\ ThreadOK(th'[t]) /\ th'[t].step = "log" /\ th'[t].entry = e
  BY <1>1 DEF Moves, ThreadOK, Steps
<1>6. TypeOK' BY <1>1, <1>2, <1>5 DEF NodeInv, TypeOK
<1>7. \A u \in Threads : Pending(u)' \subseteq Pending(u) BY <1>5 DEF Pending
<1>8. FreshNodes' BY <1>1, <1>2, <1>5, <1>7 DEF NodeInv, FreshNodes
<1>9. \A i : Gone(i) => Gone(i)' BY <1>1, <1>7 DEF Gone
<1>10. DeletedStay' BY <1>1, <1>5, <1>9 DEF NodeInv, DeletedStay
<1> QED BY <1>3, <1>4, <1>6, <1>8, <1>10 DEF NodeInv

\* A node is deleted.
LEMMA DropNodeKeeps == ASSUME NodeInv, NEW t \in Threads, DropNodeTx(t) PROVE NodeInv'
<1>0. wal' = wal /\ nextNodeID' = nextNodeID BY DropNodeTxFacts DEF NodeInv
<1>1. CASE g' = g /\ Moves(t, "idle", None, {}, {}, 0)
  BY <1>0, <1>1, MovesElsewhere, SameGraph DEF Steps
<1>2. ASSUME NEW i, i \in DOMAIN g.nodes, g' = DropNode(g, i), NEW e, e = [op |-> "DeleteNode", id |-> i],
             Moves(t, "log", e, {}, {}, 0)
      PROVE  NodeInv'
  <2>1. /\ IsGraph(g') /\ DOMAIN g'.nodes = DOMAIN g.nodes \ {i}
        /\ g'.labels = g.labels \ {p \in g.labels : p[1] = i}
        /\ g'.labelIdx = g.labelIdx \ {p \in g.labels : p[1] = i}
        /\ g'.nodeCount = Add(g.nodeCount, -1)
    BY <1>2, DropNodeFields DEF NodeInv, TypeOK
  <2>2. e.op = "DeleteNode" /\ e.id = i BY <1>2
  <2>3. /\ th' = [u \in Threads |-> th'[u]] /\ \A u \in Threads \ {t} : th'[u] = th[u]
        /\ ThreadOK(th'[t]) /\ th'[t].step = "log" /\ th'[t].entry = e
    BY <1>2 DEF Moves, ThreadOK, Steps
  <2>4. TypeOK' BY <1>0, <2>1, <2>3 DEF NodeInv, TypeOK
  <2>5. \A u \in Threads : Pending(u)' \subseteq Pending(u) BY <2>3 DEF Pending
  <2>6. FreshNodes' BY <1>0, <2>1, <2>3, <2>5 DEF NodeInv, FreshNodes
  <2>7. \A j : Gone(j) => Gone(j)' BY <1>0, <2>5 DEF Gone
  <2>8. Gone(i) BY <1>2 DEF NodeInv, TypeOK, FreshNodes, Gone
  <2>9. DeletedStay' BY <1>0, <2>2, <2>3, <2>7, <2>8 DEF NodeInv, DeletedStay
  <2>10. Counted'
    <3>1. Cardinality(DOMAIN g.nodes \ {i}) = Cardinality(DOMAIN g.nodes) - 1
      BY <1>2, NodesFinite, FS_RemoveElement
    <3>2. IsFiniteSet(DOMAIN g.nodes \ {i}) BY NodesFinite, FS_Subset
    <3>3. Cardinality(DOMAIN g.nodes \ {i}) \in Nat BY <3>2, FS_CardinalityType
    <3>4. PICK a : a = Cardinality(DOMAIN g.nodes) OBVIOUS
    <3>5. a \in Nat /\ a - 1 \in Nat /\ a < UintMod /\ UintMod \in Nat BY <3>1, <3>3, <3>4, NodesFinite
    <3>6. (a + (-1)) % UintMod = a - 1 BY <3>5
    <3>7. g.nodeCount = a BY <3>4 DEF NodeInv, Counted
    <3> QED BY <2>1, <3>1, <3>4, <3>6, <3>7 DEF Counted, Add
  <2>11. LabelsExact' BY <2>1 DEF NodeInv, LabelsExact
  <2> QED BY <2>4, <2>6, <2>9, <2>10, <2>11 DEF NodeInv
<1> QED BY <1>1, <1>2, DropNodeTxFacts DEF NodeInv

\* An entry is appended, or not.
LEMMA LogKeeps == ASSUME NodeInv, NEW t \in Threads, Log(t) \/ LogFails(t) PROVE NodeInv'
<1>1. /\ th[t].step = "log" /\ g' = g /\ nextNodeID' = nextNodeID
      /\ wal' = wal \/ wal' = Append(wal, th[t].entry)
  BY LogFacts DEF NodeInv
<1>2. /\ th' = [u \in Threads |-> th'[u]] /\ \A u \in Threads \ {t} : th'[u] = th[u]
      /\ ThreadOK(th'[t]) /\ th'[t].step \in {"idle", "cascade"}
  BY LogFacts DEF NodeInv, Moves, ThreadOK, Steps
<1>3. PICK W : W = {wal[k] : k \in DOMAIN wal} \cup {th[t].entry} OBVIOUS
<1>4. wal \in Seq(W) /\ wal' \in Seq(W) BY <1>1, <1>3 DEF NodeInv, TypeOK
<1>5. \A k \in DOMAIN wal' : (k \in DOMAIN wal /\ wal'[k] = wal[k]) \/ wal'[k] = th[t].entry
  BY <1>1, <1>4
<1>6. wal' \in Seq({wal'[k] : k \in DOMAIN wal'}) BY <1>4
<1>7. TypeOK' BY <1>1, <1>2, <1>6 DEF NodeInv, TypeOK
<1>8. \A u \in Threads : Pending(u)' \subseteq Pending(u) BY <1>2 DEF Pending
<1>9. FreshNodes' BY <1>1, <1>2, <1>8 DEF NodeInv, FreshNodes
<1>10. \A i : Gone(i) => Gone(i)' BY <1>1, <1>8 DEF Gone
<1>11. DeletedStay' BY <1>1, <1>2, <1>5, <1>10 DEF NodeInv, DeletedStay
<1>12. Counted' /\ LabelsExact' BY <1>1 DEF NodeInv, Counted, LabelsExact
<1> QED BY <1>7, <1>9, <1>11, <1>12 DEF NodeInv

\* The calls that add nodes: which IDs they take.
LEMMA AllocatesNodes ==
    ASSUME NodeInv, NEW t \in Threads, AddNode(t) \/ AddNodeWithLabels(t) \/ AddNodeBatch(t)
    PROVE  \E op \in {"AddNode", "AddNodeWithLabels", "AddNodeBatch"} : \E N :
              /\ AllocNodes(op, t, N) /\ IsFiniteSet(N)
              /\ \A m, n \in N : m.id = n.id => m = n
              /\ \A n \in N : n.id \in nextNodeID + 1 .. nextNodeID + Cardinality(N)
<1>n. nextNodeID \in Nat BY NodesFinite
<1>1. CASE AddNode(t)
  <2>1. PICK p \in PropArgs :
          AllocNodes("AddNode", t, {[id |-> nextNodeID + 1, props |-> p, labels |-> {}]})
    BY <1>1 DEF AddNode
  <2>2. PICK x : x = [id |-> nextNodeID + 1, props |-> p, labels |-> {}] OBVIOUS
  <2>3. IsFiniteSet({x}) /\ Cardinality({x}) = 1 BY FS_Singleton
  <2>4. x.id = nextNodeID + 1 BY <2>2
  <2>5. \A n \in {x} : n.id \in nextNodeID + 1 .. nextNodeID + Cardinality({x}) BY <1>n, <2>3, <2>4
  <2>6. AllocNodes("AddNode", t, {x}) BY <2>1, <2>2
  <2> QED BY <2>3, <2>5, <2>6
<1>2. CASE AddNodeWithLabels(t)
  <2>1. PICK p \in PropArgs, L \in LabelArgs :
          AllocNodes("AddNodeWithLabels", t, {[id |-> nextNodeID + 1, props |-> p, labels |-> L]})
    BY <1>2 DEF AddNodeWithLabels
  <2>2. PICK x : x = [id |-> nextNodeID + 1, props |-> p, labels |-> L] OBVIOUS
  <2>3. IsFiniteSet({x}) /\ Cardinality({x}) = 1 BY FS_Singleton
  <2>4. x.id = nextNodeID + 1 BY <2>2
  <2>5. \A n \in {x} : n.id \in nextNodeID + 1 .. nextNodeID + Cardinality({x}) BY <1>n, <2>3, <2>4
  <2>6. AllocNodes("AddNodeWithLabels", t, {x}) BY <2>1, <2>2
  <2> QED BY <2>3, <2>5, <2>6
<1>3. CASE AddNodeBatch(t)
  <2>1. PICK p \in PropArgs :
          AllocNodes("AddNodeBatch", t,
                     {[id |-> nextNodeID + i, props |-> p, labels |-> {}] : i \in {1, 2}})
    BY <1>3 DEF AddNodeBatch
  <2>2. PICK x, y : /\ x = [id |-> nextNodeID + 1, props |-> p, labels |-> {}]
                    /\ y = [id |-> nextNodeID + 2, props |-> p, labels |-> {}]
    OBVIOUS
  <2>3. x.id = nextNodeID + 1 /\ y.id = nextNodeID + 2 BY <2>2
  <2>4. x # y BY <1>n, <2>3
  <2>5. {[id |-> nextNodeID + i, props |-> p, labels |-> {}] : i \in {1, 2}} = {x} \cup {y} BY <2>2
  <2>6. IsFiniteSet({x}) /\ Cardinality({x}) = 1 BY FS_Singleton
  <2>7. IsFiniteSet({x} \cup {y}) /\ Cardinality({x} \cup {y}) = 2
    <3>1. PICK S : S = {x} OBVIOUS
    <3>2. IsFiniteSet(S) /\ Cardinality(S) = 1 /\ y \notin S BY <2>4, <2>6, <3>1
    <3>3. IsFiniteSet(S \cup {y}) /\ Cardinality(S \cup {y}) = Cardinality(S) + 1
      BY <3>2, FS_AddElement, Zenon
    <3> QED BY <3>1, <3>2, <3>3
  <2>8. \A n \in {x} \cup {y} : n.id \in nextNodeID + 1 .. nextNodeID + Cardinality({x} \cup {y})
    BY <1>n, <2>3, <2>7
  <2>9. \A m, n \in {x} \cup {y} : m.id = n.id => m = n BY <1>n, <2>3
  <2>10. AllocNodes("AddNodeBatch", t, {x} \cup {y}) BY <2>1, <2>5
  <2> QED BY <2>7, <2>8, <2>9, <2>10
<1> QED BY <1>1, <1>2, <1>3

\* A step that begins a call.
LEMMA CallKeeps == ASSUME NodeInv, NEW t \in Threads, Call(t) PROVE NodeInv'
<1>1. CASE AddNode(t) \/ AddNodeWithLabels(t) \/ AddNodeBatch(t) BY <1>1, AllocatesNodes, AllocKeeps
<1>2. CASE UpdateNode(t)
  <2>1. PICK id \in NodeIDs, p \in PropArgs :
          NodeTx("UpdateNode", t, id, MergeNode(g, id, p), [op |-> "UpdateNode", id |-> id, props |-> p])
    BY <1>2 DEF UpdateNode
  <2>2. PICK e : e = [op |-> "UpdateNode", id |-> id, props |-> p] OBVIOUS
  <2>3. e.op = "UpdateNode" BY <2>2
  <2>4. /\ id \in DOMAIN g.nodes /\ g' = MergeNode(g, id, p) /\ Moves(t, "log", e, {}, {}, 0)
        /\ wal' = wal /\ nextNodeID' = nextNodeID
    BY <2>1, <2>2, NodeTxFacts DEF NodeInv
  <2>5. IsGraph(g') /\ SameNodes(g, g') BY <2>4, PropFields DEF NodeInv, TypeOK
  <2> QED BY <2>3, <2>4, <2>5, MovesElsewhere DEF Steps
<1>3. CASE SetNodeProps(t)
  <2>1. PICK id \in NodeIDs, p \in PropArgs :
          NodeTx("SetNodeProps", t, id, SetNode(g, id, p), [op |-> "SetNodeProps", id |-> id, props |-> p])
    BY <1>3 DEF SetNodeProps
  <2>2. PICK e : e = [op |-> "SetNodeProps", id |-> id, props |-> p] OBVIOUS
  <2>3. e.op = "SetNodeProps" BY <2>2
  <2>4. /\ id \in DOMAIN g.nodes /\ g' = SetNode(g, id, p) /\ Moves(t, "log", e, {}, {}, 0)
        /\ wal' = wal /\ nextNodeID' = nextNodeID
    BY <2>1, <2>2, NodeTxFacts DEF NodeInv
  <2>5. IsGraph(g') /\ SameNodes(g, g') BY <2>4, PropFields DEF NodeInv, TypeOK
  <2> QED BY <2>3, <2>4, <2>5, MovesElsewhere DEF Steps
<1>4. CASE AddLabel(t) \/ RemoveLabel(t) BY <1>4, LabelsKeep
<1>5. CASE AddEdge(t)
  <2>1. PICK a : Moves(t, "checkTo", None, a, {}, 0) BY <1>5, AddEdgeFacts DEF NodeInv
  <2>2. g' = g /\ wal' = wal /\ nextNodeID' = nextNodeID BY <1>5 DEF AddEdge
  <2> QED BY <2>1, <2>2, SameGraph, MovesElsewhere DEF Steps
<1>6. CASE AddEdgeBatch(t)
  <2>1. PICK a, e : e.op = "AddEdgeBatch" /\ Moves(t, "putEdges", e, a, a, 0)
    <3>1. PICK E : Moves(t, "putEdges", [op |-> "AddEdgeBatch", edges |-> E], E, E, 0)
      BY <1>6, AddEdgeBatchFacts DEF NodeInv
    <3>2. [op |-> "AddEdgeBatch", edges |-> E].op = "AddEdgeBatch" OBVIOUS
    <3> QED BY <3>1, <3>2
  <2>2. g' = g /\ wal' = wal /\ nextNodeID' = nextNodeID BY <1>6 DEF AddEdgeBatch
  <2> QED BY <2>1, <2>2, SameGraph, MovesElsewhere DEF Steps
<1>7. CASE UpdateEdge(t)
  <2>1. PICK a, e : e.op = "UpdateEdge" /\ Moves(t, "putEdge", e, a, {}, 0)
    <3>1. PICK a, id, p : Moves(t, "putEdge", [op |-> "UpdateEdge", id |-> id, props |-> p], a, {}, 0)
      BY <1>7, UpdateEdgeFacts DEF NodeInv
    <3>2. [op |-> "UpdateEdge", id |-> id, props |-> p].op = "UpdateEdge" OBVIOUS
    <3> QED BY <3>1, <3>2
  <2>2. g' = g /\ wal' = wal /\ nextNodeID' = nextNodeID BY <1>7 DEF UpdateEdge
  <2> QED BY <2>1, <2>2, SameGraph, MovesElsewhere DEF Steps
<1>8. CASE DeleteEdge(t)
  <2>1. PICK a : Moves(t, "cascade", None, a, {}, 0) BY <1>8, DeleteEdgeFacts DEF NodeInv
  <2>2. g' = g /\ wal' = wal /\ nextNodeID' = nextNodeID BY <1>8 DEF DeleteEdge
  <2> QED BY <2>1, <2>2, SameGraph, MovesElsewhere DEF Steps
<1>9. CASE DeleteNode(t)
  <2>1. PICK a, id : Moves(t, "collectIn", None, a, {}, id) BY <1>9, DeleteNodeFacts DEF NodeInv
  <2>2. g' = g /\ wal' = wal /\ nextNodeID' = nextNodeID BY <1>9 DEF DeleteNode
  <2> QED BY <2>1, <2>2, SameGraph, MovesElsewhere DEF Steps
<1> QED BY <1>1, <1>2, <1>3, <1>4, <1>5, <1>6, <1>7, <1>8, <1>9 DEF Call

\* A step of a call that is under way.
LEMMA ContinueKeeps ==
    ASSUME NodeInv, NEW t \in Threads, Continue(t) \/ LogFails(t) \/ WriteFails(t)
    PROVE  NodeInv'
<1>g. IsGraph(g) /\ ThreadOK(th[t]) BY DEF NodeInv, TypeOK
<1>1. CASE PutNodesTx(t) BY <1>1, PutNodesKeeps
<1>2. CASE CheckTo(t)
  <2>1. \E s, e, a, b : s \in {"idle", "putEdges"} /\ (s = "putEdges" => e.op # "DeleteNode") /\ Moves(t, s, e, a, b, 0)
    <3>1. CASE Moves(t, "idle", None, {}, {}, 0) BY <3>1
    <3>2. ASSUME NEW e1, Moves(t, "putEdges", [op |-> "AddEdge", edge |-> e1], {e1}, {e1}, 0)
          PROVE  \E s, e, a, b : s \in {"idle", "putEdges"} /\ (s = "putEdges" => e.op # "DeleteNode") /\ Moves(t, s, e, a, b, 0)
      <4>1. [op |-> "AddEdge", edge |-> e1].op # "DeleteNode" OBVIOUS
      <4> QED BY <3>2, <4>1
    <3> QED BY <1>2, <3>1, <3>2, CheckToFacts DEF NodeInv
  <2>2. g' = g /\ wal' = wal /\ nextNodeID' = nextNodeID BY <1>2 DEF CheckTo
  <2> QED BY <2>1, <2>2, SameGraph, MovesElsewhere DEF Steps
<1>3. CASE PutEdgesTx(t)
  <2>1. /\ th[t].step = "putEdges" /\ wal' = wal /\ nextNodeID' = nextNodeID
        /\ Alone(t) /\ th'[t].step \in {"log", "putAdjIn", "putEdges"} /\ th'[t].entry = th[t].entry
        /\ \E group : g' = PutAdjIn(PutEdges(g, group), group) \/ g' = PutEdges(g, group)
    BY <1>3, PutEdgesTxFacts DEF NodeInv, Moves, Alone
  <2>2. PICK group : g' = PutAdjIn(PutEdges(g, group), group) \/ g' = PutEdges(g, group) BY <2>1
  <2>3. PICK h : h = PutEdges(g, group) OBVIOUS
  <2>4. IsGraph(h) /\ SameNodes(g, h) BY <1>g, <2>3, PutEdgesFields
  <2>5. IsGraph(PutAdjIn(h, group)) /\ SameNodes(h, PutAdjIn(h, group)) BY <2>4, PutAdjInFields
  <2>6. IsGraph(g') /\ SameNodes(g, g') BY <2>2, <2>3, <2>4, <2>5 DEF SameNodes
  <2>7. th[t].entry.op # "DeleteNode" BY <1>g, <2>1 DEF ThreadOK
  <2> QED BY <2>1, <2>6, <2>7, AloneElsewhere DEF Steps
<1>4. CASE PutAdjInTx(t)
  <2>1. /\ th[t].step = "putAdjIn" /\ wal' = wal /\ nextNodeID' = nextNodeID
        /\ Alone(t) /\ th'[t].step \in {"log", "putAdjIn"} /\ th'[t].entry = th[t].entry
        /\ \E group : g' = PutAdjIn(g, group)
    BY <1>4, PutAdjInTxFacts DEF NodeInv, Moves, Alone
  <2>2. IsGraph(g') /\ SameNodes(g, g') BY <1>g, <2>1, PutAdjInFields
  <2>3. th[t].entry.op # "DeleteNode" BY <1>g, <2>1 DEF ThreadOK
  <2> QED BY <2>1, <2>2, <2>3, AloneElsewhere DEF Steps
<1>5. CASE PutEdgeTx(t)
  <2>1. /\ th[t].step = "putEdge" /\ wal' = wal /\ nextNodeID' = nextNodeID
        /\ Moves(t, "log", th[t].entry, {}, {}, 0)
        /\ \E m : g' = [g EXCEPT !.edges = m]
    BY <1>5, PutEdgeTxFacts DEF NodeInv
  <2>2. IsGraph(g') /\ SameNodes(g, g') BY <1>g, <2>1 DEF IsGraph, GraphFields, SameNodes
  <2>3. th[t].entry.op # "DeleteNode" BY <1>g, <2>1 DEF ThreadOK
  <2> QED BY <2>1, <2>2, <2>3, MovesElsewhere DEF Steps
<1>6. CASE CollectIn(t)
  <2>1. /\ g' = g /\ wal' = wal /\ nextNodeID' = nextNodeID
        /\ Alone(t) /\ th'[t].step \in {"cascade", "fetchIn"}
    BY <1>6, CollectInFacts DEF NodeInv, Moves, Alone
  <2> QED BY <2>1, SameGraph, AloneElsewhere DEF Steps
<1>7. CASE FetchIn(t)
  <2>1. /\ g' = g /\ wal' = wal /\ nextNodeID' = nextNodeID
        /\ Alone(t) /\ th'[t].step \in {"cascade", "fetchIn"}
    BY <1>7, FetchInFacts DEF NodeInv, Moves, Alone
  <2> QED BY <2>1, SameGraph, AloneElsewhere DEF Steps
<1>8. CASE DropEdgeTx(t)
  <2>1. PICK x \in th[t].todo :
           /\ g' = DropEdge(g, x[2])
           /\ Moves(t, "dropAdjIn", [op |-> "DeleteEdge", edge |-> x[2]], th[t].todo \ {x}, th[t].adj, th[t].id)
    BY <1>8, DropEdgeTxFacts DEF NodeInv
  <2>2. PICK e : e = [op |-> "DeleteEdge", edge |-> x[2]] OBVIOUS
  <2>3. e.op = "DeleteEdge" BY <2>2
  <2>4. wal' = wal /\ nextNodeID' = nextNodeID BY <1>8 DEF DropEdgeTx
  <2>5. IsGraph(g') /\ SameNodes(g, g') BY <1>g, <2>1, DropEdgeFields
  <2> QED BY <2>1, <2>2, <2>3, <2>4, <2>5, MovesElsewhere DEF Steps
<1>9. CASE DropAdjInTx(t)
  <2>1. /\ th[t].step = "dropAdjIn" /\ wal' = wal /\ nextNodeID' = nextNodeID
        /\ g' = DropAdjIn(g, th[t].entry.edge)
        /\ Moves(t, "log", th[t].entry, th[t].todo, th[t].adj, th[t].id)
    BY <1>9, DropAdjInTxFacts DEF NodeInv
  <2>2. IsGraph(g') /\ SameNodes(g, g') BY <1>g, <2>1, DropAdjInFields
  <2>3. th[t].entry.op # "DeleteNode" BY <1>g, <2>1 DEF ThreadOK
  <2> QED BY <2>1, <2>2, <2>3, MovesElsewhere DEF Steps
<1>10. CASE DropNodeTx(t) BY <1>10, DropNodeKeeps
<1>11. CASE Log(t) \/ LogFails(t) BY <1>11, LogKeeps
<1>12. CASE WriteFails(t)
  <2>1. Moves(t, "idle", None, {}, {}, 0) /\ g' = g /\ wal' = wal /\ nextNodeID' = nextNodeID
    BY <1>12, WriteFailsFacts DEF NodeInv
  <2> QED BY <2>1, SameGraph, MovesElsewhere DEF Steps
<1> QED BY <1>1, <1>2, <1>3, <1>4, <1>5, <1>6, <1>7, <1>8, <1>9, <1>10, <1>11, <1>12 DEF Continue

\* An empty database.
LEMMA InitNodeInv == Init => NodeInv
<1> SUFFICES ASSUME Init PROVE NodeInv
    OBVIOUS
<1>1. IsGraph(g) /\ g.nodes = << >> /\ g.labels = {} /\ g.labelIdx = {} /\ g.nodeCount = 0
  BY DEF Init, EmptyGraph, IsGraph, GraphFields
<1>2. DOMAIN g.nodes = {} BY <1>1
<1>3. th = [t \in Threads |-> th[t]] /\ \A t \in Threads : th[t] = Idle BY DEF Init
<1>4. \A t \in Threads : ThreadOK(th[t]) /\ th[t].step = "idle" /\ Pending(t) = {}
  BY <1>3, IdleFields DEF Pending
<1>5. TypeOK
  <2>1. wal \in Seq({wal[k] : k \in DOMAIN wal}) BY DEF Init
  <2>2. nextNodeID \in 0..MaxNodes BY GraphStoreAssumption DEF Init
  <2> QED BY <1>1, <1>2, <1>3, <1>4, <2>1, <2>2 DEF TypeOK
<1>6. FreshNodes BY <1>4 DEF FreshNodes
<1>7. DeletedStay BY <1>4 DEF DeletedStay, Init
<1>8. Counted BY <1>1, <1>2, FS_EmptySet DEF Counted
<1>9. LabelsExact BY <1>1 DEF LabelsExact
<1> QED BY <1>5, <1>6, <1>7, <1>8, <1>9 DEF NodeInv

\* Every step keeps the invariant.
LEMMA NextNodeInv == NodeInv /\ [Next]_vars => NodeInv'
<1> SUFFICES ASSUME NodeInv, [Next]_vars PROVE NodeInv'
    OBVIOUS
<1>1. CASE UNCHANGED vars
  <2>1. g' = g /\ wal' = wal /\ nextNodeID' = nextNodeID /\ th' = th BY <1>1 DEF vars
  <2>2. \A t \in Threads : Pending(t)' = Pending(t) BY <2>1 DEF Pending
  <2>3. TypeOK' BY <2>1 DEF NodeInv, TypeOK
  <2>4. FreshNodes' BY <2>1, <2>2 DEF NodeInv, FreshNodes
  <2>5. \A i : Gone(i) => Gone(i)' BY <2>1, <2>2 DEF Gone
  <2>6. DeletedStay' BY <2>1, <2>5 DEF NodeInv, DeletedStay
  <2>7. Counted' /\ LabelsExact' BY <2>1 DEF NodeInv, Counted, LabelsExact
  <2> QED BY <2>3, <2>4, <2>6, <2>7 DEF NodeInv
<1>2. CASE Next BY <1>2, CallKeeps, ContinueKeeps DEF Next
<1> QED BY <1>1, <1>2

\* The invariant of nodes, labels and the node counter, for any threads, calls and faults.
THEOREM NodeInvariance == Spec => []NodeInv
BY InitNodeInv, NextNodeInv, PTL DEF Spec

\* Labels belong to nodes that exist, and the label index lists exactly them, at every
\* step of any calls that race and fail (node.go, label.go).
THEOREM LabelsAreExact == Spec => []LabelsExact
<1>1. NodeInv => LabelsExact BY DEF NodeInv
<1> QED BY <1>1, NodeInvariance, PTL

\* NodeCount is the number of nodes whatever calls race and fail (node.go:447-453).
THEOREM NodeCountIsExact == Spec => []NodeCountExact
<1>1. NodeInv => NodeCountExact BY DEF NodeInv, Counted, NodeCountExact
<1> QED BY <1>1, NodeInvariance, PTL

\* A step that brings a node writes one that is new.
LEMMA NewNodes ==
    ASSUME NodeInv, [Next]_vars, NEW i, i \in DOMAIN g'.nodes \ DOMAIN g.nodes
    PROVE  \E t \in Threads : i \in Pending(t)
<1>1. CASE UNCHANGED vars BY <1>1 DEF vars
<1>2. CASE Next
  <2>1. PICK t \in Threads : Call(t) \/ Continue(t) \/ LogFails(t) \/ WriteFails(t) BY <1>2 DEF Next
  <2>2. CASE PutNodesTx(t)
    <3>1. PICK group \in SUBSET th[t].todo : g' = PutNodes(g, group)
      BY <2>2, PutNodesTxFacts DEF NodeInv
    <3>2. th[t].step = "putNodes" BY <2>2 DEF PutNodesTx
    <3>3. DOMAIN g'.nodes = DOMAIN g.nodes \cup {n.id : n \in group}
      BY <3>1, PutNodesFields DEF NodeInv, TypeOK
    <3> QED BY <3>1, <3>2, <3>3 DEF Pending
  <2>3. ASSUME ~PutNodesTx(t) PROVE DOMAIN g'.nodes \subseteq DOMAIN g.nodes
    <3>g. IsGraph(g) BY DEF NodeInv, TypeOK
    <3>1. CASE UpdateNode(t) \/ SetNodeProps(t)
      <4>1. PICK id \in DOMAIN g.nodes, p \in PropArgs : g' = MergeNode(g, id, p) \/ g' = SetNode(g, id, p)
        BY <3>1 DEF UpdateNode, SetNodeProps, NodeTx
      <4> QED BY <3>g, <4>1, PropFields DEF SameNodes
    <3>2. CASE AddLabel(t) \/ RemoveLabel(t)
      <4>1. PICK id, L : g' = AddLabels(g, id, L) \/ g' = RemoveLabels(g, id, L)
        BY <3>2 DEF AddLabel, RemoveLabel, NodeTx
      <4> QED BY <3>g, <4>1, LabelFields
    <3>3. CASE PutEdgesTx(t)
      <4>1. PICK group : g' = PutAdjIn(PutEdges(g, group), group) \/ g' = PutEdges(g, group)
        BY <3>3, PutEdgesTxFacts DEF NodeInv
      <4>2. PICK h : h = PutEdges(g, group) OBVIOUS
      <4>3. IsGraph(h) /\ SameNodes(g, h) BY <3>g, <4>2, PutEdgesFields
      <4>4. SameNodes(h, PutAdjIn(h, group)) BY <4>3, PutAdjInFields
      <4> QED BY <4>1, <4>2, <4>3, <4>4 DEF SameNodes
    <3>4. CASE PutAdjInTx(t)
      <4>1. PICK group : g' = PutAdjIn(g, group) BY <3>4, PutAdjInTxFacts DEF NodeInv
      <4> QED BY <3>g, <4>1, PutAdjInFields DEF SameNodes
    <3>5. CASE PutEdgeTx(t)
      <4>1. PICK m : g' = [g EXCEPT !.edges = m] BY <3>5, PutEdgeTxFacts DEF NodeInv
      <4> QED BY <3>g, <4>1 DEF IsGraph, GraphFields
    <3>6. CASE DropEdgeTx(t)
      <4>1. PICK e : g' = DropEdge(g, e) BY <3>6, DropEdgeTxFacts DEF NodeInv
      <4> QED BY <3>g, <4>1, DropEdgeFields DEF SameNodes
    <3>7. CASE DropAdjInTx(t)
      <4>1. PICK e : g' = DropAdjIn(g, e) BY <3>7, DropAdjInTxFacts DEF NodeInv
      <4> QED BY <3>g, <4>1, DropAdjInFields DEF SameNodes
    <3>8. CASE DropNodeTx(t)
      <4>1. g' = g \/ g' = DropNode(g, th[t].id) BY <3>8, DropNodeTxFacts DEF NodeInv
      <4> QED BY <3>g, <4>1, DropNodeFields
    <3>9. CASE \/ AddNode(t) \/ AddNodeWithLabels(t) \/ AddNodeBatch(t) \/ AddEdge(t) \/ AddEdgeBatch(t)
               \/ UpdateEdge(t) \/ DeleteEdge(t) \/ DeleteNode(t) \/ CheckTo(t) \/ CollectIn(t) \/ FetchIn(t)
               \/ Log(t) \/ LogFails(t) \/ WriteFails(t)
      <4>1. g' = g
        BY <3>9 DEF AddNode, AddNodeWithLabels, AddNodeBatch, AllocNodes, AddEdge, AddEdgeBatch, UpdateEdge,
                    DeleteEdge, DeleteNode, CheckTo, CollectIn, FetchIn, Log, LogFails, WriteFails
      <4> QED BY <4>1
    <3> QED BY <2>1, <2>3, <3>1, <3>2, <3>3, <3>4, <3>5, <3>6, <3>7, <3>8, <3>9 DEF Call, Continue
  <2> QED BY <2>2, <2>3
<1> QED BY <1>1, <1>2

\* Once a node is gone and its deletion logged, or about to be, no late step of another
\* call brings it back.
THEOREM NodesRemainDeleted == Spec => NodesStayDeleted
<1>1. NodeInv /\ [Next]_vars =>
        [\A i \in 1 .. nextNodeID :
           i \in DOMAIN g'.nodes \ DOMAIN g.nodes =>
             /\ \A k \in DOMAIN wal : wal[k].op = "DeleteNode" => wal[k].id # i
             /\ \A t \in Threads : th[t].step = "log" /\ th[t].entry.op = "DeleteNode"
                                     => th[t].entry.id # i]_vars
  <2> SUFFICES ASSUME NodeInv, [Next]_vars, NEW i \in 1 .. nextNodeID,
                      i \in DOMAIN g'.nodes \ DOMAIN g.nodes
               PROVE  /\ \A k \in DOMAIN wal : wal[k].op = "DeleteNode" => wal[k].id # i
                      /\ \A t \in Threads : th[t].step = "log" /\ th[t].entry.op = "DeleteNode"
                                              => th[t].entry.id # i
    OBVIOUS
  <2>1. ~Gone(i) BY NewNodes DEF Gone
  <2> QED BY <2>1 DEF NodeInv, DeletedStay
<1> QED BY <1>1, NodeInvariance, PTL DEF Spec, NodesStayDeleted

--------------------------------------------------------------------------------
(* Edges and their adj_in entries, when no UpdateEdge brings an edge back.          *)

EdgeFields == {"id", "from", "to", "props"}

IsEdge(e) == e = [x \in EdgeFields |-> e[x]] /\ e.from \in Nat

\* The edge IDs thread t has yet to write.
PendingEdges(t) == IF th[t].step = "putEdges" THEN {e.id : e \in th[t].todo} ELSE {}

\* An ID that is allocated, and written if it ever will be.
Known(i) == i \in 1..nextEdgeID /\ \A t \in Threads : i \notin PendingEdges(t)

\* The edges a call adds: its own IDs, and whether they are written in one transaction.
Adding(t) ==
    /\ th[t].step = "checkTo" => \A e \in th[t].todo : IsEdge(e)
    /\ th[t].step \in {"putEdges", "putAdjIn"} =>
         \A e \in th[t].adj : e.from \in Nat /\ \A d \in th[t].adj : d.id = e.id => d = e
    /\ th[t].step = "putEdges" =>
         /\ th[t].todo \subseteq th[t].adj
         /\ ShardCount = 1 => th[t].todo = th[t].adj
         /\ th[t].entry.op = "AddEdge" => th[t].todo = th[t].adj /\ \E x \in th[t].adj : th[t].adj = {x}

FreshEdges ==
    \A t \in Threads :
        /\ PendingEdges(t) \subseteq (1..nextEdgeID) \ DOMAIN g.edges
        /\ \A u \in Threads \ {t} : PendingEdges(t) \cap PendingEdges(u) = {}

\* An edge to be deleted was found, and its entry is deleted after it.
Deleting(t) ==
    /\ th[t].step \in {"collectIn", "fetchIn", "cascade", "dropAdjIn", "log"} =>
         \A x \in th[t].todo : Known(x[2].id)
    /\ th[t].step = "dropAdjIn" =>
         Known(th[t].entry.edge.id) /\ th[t].entry.edge.id \notin DOMAIN g.edges

\* Thread t is going to write the adj_in entry of edge i.
Completing(t, i) ==
    /\ th[t].step \in {"putEdges", "putAdjIn"}
    /\ \E e \in th[t].adj : e.id = i /\ e.from = g.edges[i].from /\ e.to = g.edges[i].to

Complete ==
    faults = 0 => \A i \in DOMAIN g.edges :
                    \/ <<g.edges[i].to, i, g.edges[i].from>> \in g.adjIn
                    \/ \E t \in Threads : Completing(t, i)

EdgeInv ==
    /\ nextEdgeID \in Nat /\ faults \in Nat /\ DOMAIN g.edges \subseteq 1..nextEdgeID
    /\ \A t \in Threads : th[t].step # "putEdge" /\ Adding(t) /\ Deleting(t)
    /\ FreshEdges /\ Complete

\* What a map holds after the edges E have been put into it.
LEMMA PutEdgesValues ==
    ASSUME NEW h, IsGraph(h), NEW E, \A d, e \in E : d.id = e.id => d = e
    PROVE  LET h1 == PutEdges(h, E)
           IN /\ DOMAIN h1.edges = DOMAIN h.edges \cup {e.id : e \in E}
              /\ \A e \in E : h1.edges[e.id] = [from |-> e.from, to |-> e.to, props |-> e.props]
              /\ \A i \in DOMAIN h.edges \ {e.id : e \in E} : h1.edges[i] = h.edges[i]
<1> DEFINE F == [i \in {e.id : e \in E} |->
                   LET e == CHOOSE e \in E : e.id = i
                   IN [from |-> e.from, to |-> e.to, props |-> e.props]]
<1>1. PutEdges(h, E).edges = Put(h.edges, F) BY PutEdgesFields
<1>2. DOMAIN F = {e.id : e \in E} OBVIOUS
<1>3. ASSUME NEW e \in E PROVE F[e.id] = [from |-> e.from, to |-> e.to, props |-> e.props]
  <2>1. PICK d : d = CHOOSE x \in E : x.id = e.id OBVIOUS
  <2>2. d \in E /\ d.id = e.id BY <2>1
  <2>3. d = e BY <2>2
  <2>4. F[e.id] = LET x == CHOOSE x \in E : x.id = e.id IN [from |-> x.from, to |-> x.to, props |-> x.props]
    OBVIOUS
  <2> QED BY <2>1, <2>3, <2>4
<1> HIDE DEF F
<1>4. DOMAIN Put(h.edges, F) = DOMAIN h.edges \cup {e.id : e \in E} BY <1>2 DEF Put
<1>5. \A e \in E : Put(h.edges, F)[e.id] = F[e.id] BY <1>2 DEF Put
<1>6. \A i \in DOMAIN h.edges \ {e.id : e \in E} : Put(h.edges, F)[i] = h.edges[i] BY <1>2 DEF Put
<1> QED BY <1>1, <1>3, <1>4, <1>5, <1>6

\* An edge that is there is known.
LEMMA ExistingKnown == ASSUME EdgeInv, NEW i \in DOMAIN g.edges PROVE Known(i)
BY DEF EdgeInv, FreshEdges, Known

\* What a step of t leaves of the other threads' knowledge: it allocates IDs above the
\* ones in use, and the edges it writes are its own.
LEMMA EdgeFrame ==
    ASSUME EdgeInv, NEW t \in Threads, Alone(t),
           nextEdgeID' \in Nat, nextEdgeID <= nextEdgeID',
           PendingEdges(t)' \subseteq (1..nextEdgeID') \ DOMAIN g'.edges,
           \A i \in PendingEdges(t)' : i \in PendingEdges(t) \/ i > nextEdgeID,
           \A i \in DOMAIN g'.edges : i \in DOMAIN g.edges \/ i \in PendingEdges(t)
    PROVE  /\ DOMAIN g'.edges \subseteq 1..nextEdgeID'
           /\ FreshEdges' /\ \A i : Known(i) => Known(i)'
           /\ \A u \in Threads \ {t} : th'[u].step # "putEdge" /\ Adding(u)' /\ Deleting(u)'
<1>0. nextEdgeID \in Nat BY DEF EdgeInv
<1>1. \A u \in Threads \ {t} : th'[u] = th[u] BY DEF Alone
<1>2. \A u \in Threads \ {t} : PendingEdges(u)' = PendingEdges(u) BY <1>1 DEF PendingEdges
<1>3. \A i \in 1..nextEdgeID : i \in 1..nextEdgeID' /\ ~(i > nextEdgeID) BY <1>0
<1>4. DOMAIN g'.edges \subseteq 1..nextEdgeID' BY <1>3 DEF EdgeInv, FreshEdges
<1>5. \A u \in Threads : PendingEdges(u) \subseteq (1..nextEdgeID) \ DOMAIN g.edges
  BY DEF EdgeInv, FreshEdges
<1>6. \A u \in Threads \ {t} : PendingEdges(u) \cap PendingEdges(t) = {} BY DEF EdgeInv, FreshEdges
<1>7. FreshEdges'
  <2>1. \A u \in Threads : PendingEdges(u)' \subseteq (1..nextEdgeID)' \ DOMAIN g'.edges
    BY <1>2, <1>3, <1>5, <1>6
  <2>2. \A u \in Threads \ {t} : PendingEdges(u)' \cap PendingEdges(t)' = {}
    BY <1>2, <1>3, <1>5, <1>6
  <2>3. \A u \in Threads \ {t}, v \in Threads \ {t} : u # v => PendingEdges(u)' \cap PendingEdges(v)' = {}
    BY <1>2 DEF EdgeInv, FreshEdges
  <2> QED BY <2>1, <2>2, <2>3 DEF FreshEdges
<1>8. \A i : Known(i) => Known(i)' BY <1>2, <1>3 DEF Known
<1>9. \A i : Known(i) /\ i \notin DOMAIN g.edges => i \notin DOMAIN g'.edges BY DEF Known
<1>10. \A u \in Threads \ {t} : th'[u].step # "putEdge" /\ Adding(u)' BY <1>1 DEF EdgeInv, Adding
<1>11. \A u \in Threads \ {t} : Deleting(u)' BY <1>1, <1>8, <1>9 DEF EdgeInv, Deleting
<1> QED BY <1>4, <1>7, <1>8, <1>10, <1>11

\* Every edge has its entry, is t's to complete, or is another's.
LEMMA CompleteKeeps ==
    ASSUME Complete, NEW t \in Threads, Alone(t), faults' = 0 => faults = 0,
           \A i \in DOMAIN g'.edges :
              \/ <<g'.edges[i].to, i, g'.edges[i].from>> \in g'.adjIn
              \/ Completing(t, i)'
              \/ /\ i \in DOMAIN g.edges /\ g'.edges[i] = g.edges[i]
                 /\ <<g.edges[i].to, i, g.edges[i].from>> \notin g.adjIn
                 /\ ~Completing(t, i)
    PROVE  Complete'
<1> SUFFICES ASSUME faults' = 0, NEW i \in DOMAIN g'.edges,
                    <<g'.edges[i].to, i, g'.edges[i].from>> \notin g'.adjIn, ~Completing(t, i)'
             PROVE  \E u \in Threads : Completing(u, i)'
  BY DEF Complete
<1>1. /\ i \in DOMAIN g.edges /\ g'.edges[i] = g.edges[i]
      /\ <<g.edges[i].to, i, g.edges[i].from>> \notin g.adjIn /\ ~Completing(t, i)
  OBVIOUS
<1>2. PICK u \in Threads : Completing(u, i) BY <1>1 DEF Complete
<1>3. u # t BY <1>1, <1>2
<1>4. th'[u] = th[u] BY <1>3 DEF Alone
<1>5. Completing(u, i)' BY <1>1, <1>2, <1>4 DEF Completing
<1> QED BY <1>5

\* A step that leaves the edges alone and neither adds nor has deleted one.
LEMMA EdgeQuiet ==
    ASSUME EdgeInv, NEW t \in Threads, Alone(t), g'.edges = g.edges, g'.adjIn = g.adjIn,
           nextEdgeID' = nextEdgeID, faults' \in Nat, faults' = 0 => faults = 0,
           th[t].step \notin {"putEdges", "putAdjIn"} \/ faults' # 0,
           th'[t].step \notin {"putEdges", "putAdjIn", "putEdge", "dropAdjIn"},
           th'[t].step = "checkTo" => \A e \in th'[t].todo : IsEdge(e),
           th'[t].step \in {"collectIn", "fetchIn", "cascade", "log"} => \A x \in th'[t].todo : Known(x[2].id)
    PROVE  EdgeInv'
<1>0. nextEdgeID \in Nat BY DEF EdgeInv
<1>1. PendingEdges(t)' = {} BY DEF PendingEdges
<1>2. /\ DOMAIN g'.edges \subseteq 1..nextEdgeID'
      /\ FreshEdges' /\ \A i : Known(i) => Known(i)'
      /\ \A u \in Threads \ {t} : th'[u].step # "putEdge" /\ Adding(u)' /\ Deleting(u)'
  BY <1>0, <1>1, EdgeFrame
<1>3. Adding(t)' BY DEF Adding
<1>4. Deleting(t)' BY <1>2 DEF Deleting
<1>5. Complete'
  <2>1. CASE faults' # 0 BY <2>1 DEF Complete
  <2>2. CASE th[t].step \notin {"putEdges", "putAdjIn"}
    <3>1. \A i : ~Completing(t, i) BY <2>2 DEF Completing
    <3> QED BY <3>1, CompleteKeeps DEF EdgeInv
  <2> QED BY <2>1, <2>2
<1> QED BY <1>0, <1>2, <1>3, <1>4, <1>5 DEF EdgeInv

\* The operations that add nodes, or edges, and the edges of an entry that adds some.
NodeAdds == {"AddNode", "AddNodeWithLabels", "AddNodeBatch"}
EdgeAdds == {"AddEdge", "AddEdgeBatch"}

EntryEdges(e) == IF e.op = "AddEdge" THEN {e.edge} ELSE e.edges

\* A call has the edges E to write: IDs above those in use, each edge its own.
EdgesBegun(t, E) ==
    /\ Alone(t) /\ g' = g /\ wal' = wal /\ faults' = faults
    /\ nextEdgeID' \in Nat /\ nextEdgeID <= nextEdgeID'
    /\ th'[t].step = "putEdges" /\ th'[t].todo = E /\ th'[t].adj = E
    /\ th'[t].entry.op \in EdgeAdds /\ EntryEdges(th'[t].entry) = E /\ IsFiniteSet(E)
    /\ th'[t].entry.op = "AddEdge" => \E x \in E : E = {x}
    /\ \A e \in E : e.id \in (1..nextEdgeID') \ (1..nextEdgeID) /\ e.from \in Nat
    /\ \A d, e \in E : d.id = e.id => d = e

\* Such a step keeps the invariant.
LEMMA EdgesBegin ==
    ASSUME EdgeInv, NEW t \in Threads, NEW E, EdgesBegun(t, E),
           th[t].step \notin {"putEdges", "putAdjIn"}
    PROVE  EdgeInv'
<1> USE DEF EdgesBegun
<1>0. nextEdgeID \in Nat BY DEF EdgeInv
<1>1. PendingEdges(t)' = {e.id : e \in E} BY DEF PendingEdges
<1>2. \A i \in PendingEdges(t)' : i \in (1..nextEdgeID') \ (1..nextEdgeID) BY <1>1
<1>3. \A i \in (1..nextEdgeID') \ (1..nextEdgeID) : i > nextEdgeID BY <1>0
<1>4. PendingEdges(t)' \subseteq (1..nextEdgeID') \ DOMAIN g'.edges BY <1>2 DEF EdgeInv
<1>5. /\ DOMAIN g'.edges \subseteq 1..nextEdgeID'
      /\ FreshEdges' /\ \A i : Known(i) => Known(i)'
      /\ \A u \in Threads \ {t} : th'[u].step # "putEdge" /\ Adding(u)' /\ Deleting(u)'
  BY <1>2, <1>3, <1>4, EdgeFrame
<1>6. Adding(t)' BY DEF Adding
<1>7. Deleting(t)' BY DEF Deleting
<1>8. \A i : ~Completing(t, i) BY DEF Completing
<1>9. Complete' BY <1>8, CompleteKeeps DEF EdgeInv
<1> QED BY <1>5, <1>6, <1>7, <1>9 DEF EdgeInv

\* The ID of AddEdge, unless the target is missing.
LEMMA CheckToBegins ==
    ASSUME NodeInv, NEW t \in Threads, Adding(t), nextEdgeID \in Nat, CheckTo(t)
    PROVE  /\ th[t].step = "checkTo" /\ faults' = faults /\ g' = g
           /\ \/ Alone(t) /\ th'[t].step = "idle" /\ nextEdgeID' = nextEdgeID
              \/ \E e \in th[t].todo : \E e1 :
                   /\ e.to \in DOMAIN g.nodes /\ e1.from = e.from /\ e1.to = e.to
                   /\ EdgesBegun(t, {e1})
<1>1. th[t].step = "checkTo" /\ faults' = faults /\ g' = g /\ wal' = wal
  BY CheckToFacts DEF NodeInv
<1>2. PICK e \in th[t].todo :
                \/ /\ e.to \notin DOMAIN g.nodes /\ nextEdgeID' = nextEdgeID
                   /\ Moves(t, "idle", None, {}, {}, 0)
                \/ /\ e.to \in DOMAIN g.nodes /\ nextEdgeID' = nextEdgeID + 1
                   /\ \E e1 : /\ e1 = [e EXCEPT !.id = nextEdgeID + 1]
                              /\ Moves(t, "putEdges", [op |-> "AddEdge", edge |-> e1], {e1}, {e1}, 0)
  BY CheckToFacts DEF NodeInv
<1>3. CASE nextEdgeID' = nextEdgeID /\ Moves(t, "idle", None, {}, {}, 0)
  BY <1>1, <1>3 DEF Moves, Alone
<1>4. ASSUME NEW e1, nextEdgeID' = nextEdgeID + 1, e1 = [e EXCEPT !.id = nextEdgeID + 1],
             Moves(t, "putEdges", [op |-> "AddEdge", edge |-> e1], {e1}, {e1}, 0)
      PROVE  EdgesBegun(t, {e1}) /\ e1.from = e.from /\ e1.to = e.to
  <2>1. Alone(t) /\ th'[t].step = "putEdges" /\ th'[t].todo = {e1} /\ th'[t].adj = {e1}
    BY <1>4 DEF Moves, Alone
  <2>a. th'[t].entry = [op |-> "AddEdge", edge |-> e1] BY <1>4 DEF Moves
  <2>b. th'[t].entry.op \in EdgeAdds /\ EntryEdges(th'[t].entry) = {e1} BY <2>a DEF EdgeAdds, EntryEdges
  <2>c. IsFiniteSet({e1}) BY FS_Singleton
  <2>2. IsEdge(e) BY <1>1 DEF Adding
  <2>3. e1.id = nextEdgeID + 1 /\ e1.from = e.from /\ e1.to = e.to BY <1>4, <2>2 DEF IsEdge, EdgeFields
  <2>4. e1.from \in Nat BY <2>2, <2>3 DEF IsEdge
  <2>5. e1.id \in (1..nextEdgeID') \ (1..nextEdgeID) BY <1>4, <2>3
  <2>6. nextEdgeID' \in Nat /\ nextEdgeID <= nextEdgeID' BY <1>4
  <2>7. \E x \in {e1} : {e1} = {x} OBVIOUS
  <2> QED BY <1>1, <2>1, <2>b, <2>c, <2>3, <2>4, <2>5, <2>6, <2>7 DEF EdgesBegun
<1> QED BY <1>1, <1>2, <1>3, <1>4

\* The IDs of AddEdgeBatch.
LEMMA AddEdgeBatchBegins ==
    ASSUME NodeInv, NEW t \in Threads, nextEdgeID \in Nat, AddEdgeBatch(t)
    PROVE  th[t].step = "idle" /\ \E E : EdgesBegun(t, E)
<1>1. th[t].step = "idle" /\ faults' = faults /\ g' = g /\ wal' = wal /\ nextEdgeID' = nextEdgeID + 2
  BY AddEdgeBatchFacts DEF NodeInv
<1>2. PICK f \in NodeIDs, o \in NodeIDs, p \in PropArgs : \E E :
                /\ f < o
                /\ E = {[id |-> nextEdgeID + 1, from |-> f, to |-> o, props |-> p],
                        [id |-> nextEdgeID + 2, from |-> o, to |-> f, props |-> p]}
                /\ Moves(t, "putEdges", [op |-> "AddEdgeBatch", edges |-> E], E, E, 0)
  BY AddEdgeBatchFacts DEF NodeInv
<1>3. PICK d, e : /\ d = [id |-> nextEdgeID + 1, from |-> f, to |-> o, props |-> p]
                  /\ e = [id |-> nextEdgeID + 2, from |-> o, to |-> f, props |-> p]
  OBVIOUS
<1>4. PICK E : E = {d, e} /\ Moves(t, "putEdges", [op |-> "AddEdgeBatch", edges |-> E], E, E, 0)
  BY <1>2, <1>3
<1>5. /\ Alone(t) /\ th'[t].step = "putEdges" /\ th'[t].todo = E /\ th'[t].adj = E
      /\ th'[t].entry = [op |-> "AddEdgeBatch", edges |-> E]
  BY <1>4 DEF Moves, Alone
<1>6. th'[t].entry.op = "AddEdgeBatch" /\ EntryEdges(th'[t].entry) = E BY <1>5 DEF EntryEdges
<1>f. IsFiniteSet(E)
  <2>1. IsFiniteSet({d}) BY FS_Singleton
  <2>2. PICK S : S = {d} OBVIOUS
  <2>3. IsFiniteSet(S \cup {e}) BY <2>1, <2>2, FS_AddElement
  <2>4. E = S \cup {e} BY <1>4, <2>2
  <2> QED BY <2>3, <2>4
<1>7. d.id = nextEdgeID + 1 /\ e.id = nextEdgeID + 2 /\ d.from = f /\ e.from = o BY <1>3
<1>8. f \in Nat /\ o \in Nat BY GraphStoreAssumption DEF NodeIDs
<1>9. nextEdgeID' \in Nat /\ nextEdgeID <= nextEdgeID' BY <1>1
<1>10. \A x \in E : x.id \in (1..nextEdgeID') \ (1..nextEdgeID) BY <1>1, <1>4, <1>7
<1>11. \A x \in E : x.from \in Nat BY <1>4, <1>7, <1>8
<1>12. \A x, y \in E : x.id = y.id => x = y BY <1>4, <1>7
<1>13. EdgesBegun(t, E) BY <1>1, <1>5, <1>6, <1>f, <1>9, <1>10, <1>11, <1>12 DEF EdgesBegun, EdgeAdds
<1> QED BY <1>1, <1>13

\* The transaction that writes adj_in entries too writes all the edges of its call.
LEMMA OneTxWhole ==
    ASSUME NEW t, Adding(t), th[t].step = "putEdges", OneTx(th[t]), NEW s, NEW group,
           s \in {shardFor(e.from) : e \in th[t].todo}, group = {e \in th[t].todo : shardFor(e.from) = s}
    PROVE  group = th[t].adj
<1> DEFINE A == th[t].adj
<1> DEFINE T == th[t].todo
<1>1. /\ T \subseteq A /\ (ShardCount = 1 => T = A)
      /\ th[t].entry.op = "AddEdge" => T = A /\ \E x \in A : A = {x}
      /\ \A e \in A : e.from \in Nat
  BY DEF Adding
<1>2. CASE ShardCount = 1
  <2>1. \A n \in Nat : n % 1 = 0 OBVIOUS
  <2>2. \A e \in T : shardFor(e.from) = 0 BY <1>1, <1>2, <2>1 DEF shardFor
  <2> QED BY <1>1, <1>2, <2>2
<1>3. CASE th[t].entry.op = "AddEdge" BY <1>1, <1>3
<1> QED BY <1>2, <1>3 DEF OneTx

\* A transaction that writes edges of thread t, and is their call's last when it writes
\* their adj_in entries too.
LEMMA PutEdgesEdges ==
    ASSUME NodeInv, EdgeInv, NEW t \in Threads, PutEdgesTx(t)
    PROVE  EdgeInv'
<1>0. nextEdgeID \in Nat /\ IsGraph(g) BY DEF EdgeInv, NodeInv, TypeOK
<1>1. th[t].step = "putEdges" /\ faults' = faults /\ nextEdgeID' = nextEdgeID
  BY PutEdgesTxFacts DEF NodeInv
<1>2. PICK s, group :
        /\ s \in {shardFor(e.from) : e \in th[t].todo}
        /\ group = {e \in th[t].todo : shardFor(e.from) = s}
        /\ \/ /\ OneTx(th[t]) /\ g' = PutAdjIn(PutEdges(g, group), group)
              /\ Moves(t, "log", th[t].entry, {}, {}, 0)
           \/ /\ ~OneTx(th[t]) /\ g' = PutEdges(g, group)
              /\ Moves(t, IF th[t].todo \ group = {} THEN "putAdjIn" ELSE "putEdges",
                       th[t].entry, th[t].todo \ group, th[t].adj, th[t].id)
  BY PutEdgesTxFacts DEF NodeInv
<1> DEFINE A == th[t].adj
<1> DEFINE T == th[t].todo
<1>3. /\ T \subseteq A /\ (ShardCount = 1 => T = A)
      /\ th[t].entry.op = "AddEdge" => T = A /\ \E x \in A : A = {x}
      /\ \A e \in A : e.from \in Nat
      /\ \A d, e \in A : d.id = e.id => d = e
  BY <1>1 DEF EdgeInv, Adding
<1>4. group \subseteq T /\ group # {} BY <1>2
<1>5. PendingEdges(t) = {e.id : e \in T} BY <1>1 DEF PendingEdges
<1>6. PendingEdges(t) \subseteq (1..nextEdgeID) \ DOMAIN g.edges BY DEF EdgeInv, FreshEdges
<1>7. PICK h : h = PutEdges(g, group) OBVIOUS
<1>8. /\ DOMAIN h.edges = DOMAIN g.edges \cup {e.id : e \in group}
      /\ \A e \in group : h.edges[e.id] = [from |-> e.from, to |-> e.to, props |-> e.props]
      /\ \A i \in DOMAIN g.edges \ {e.id : e \in group} : h.edges[i] = g.edges[i]
  <2>1. \A d, e \in group : d.id = e.id => d = e BY <1>3, <1>4
  <2> QED BY <1>0, <1>7, <2>1, PutEdgesValues
<1>9. \A i \in DOMAIN g.edges : h.edges[i] = g.edges[i] BY <1>4, <1>5, <1>6, <1>8
<1>10. ASSUME NEW e \in group PROVE h.edges[e.id].from = e.from /\ h.edges[e.id].to = e.to
  <2>1. PICK r : r = [from |-> e.from, to |-> e.to, props |-> e.props] OBVIOUS
  <2>2. r.from = e.from /\ r.to = e.to BY <2>1
  <2> QED BY <1>8, <2>1, <2>2
<1>11. IsGraph(h) /\ h.adjIn = g.adjIn BY <1>0, <1>7, PutEdgesFields
<1>12. \A i \in DOMAIN h.edges : i \in DOMAIN g.edges \/ i \in PendingEdges(t) BY <1>4, <1>5, <1>8
<1>13. CASE OneTx(th[t]) /\ g' = PutAdjIn(h, group) /\ Moves(t, "log", th[t].entry, {}, {}, 0)
  <2>1. Alone(t) /\ th'[t].step = "log" /\ th'[t].todo = {} BY <1>13 DEF Moves, Alone
  <2>2. g'.edges = h.edges /\ g'.adjIn = h.adjIn \cup {<<x.to, x.id, x.from>> : x \in group}
    BY <1>11, <1>13, PutAdjInFields
  <2>3. PendingEdges(t)' = {} BY <2>1 DEF PendingEdges
  <2>4. /\ DOMAIN g'.edges \subseteq 1..nextEdgeID'
        /\ FreshEdges' /\ \A i : Known(i) => Known(i)'
        /\ \A u \in Threads \ {t} : th'[u].step # "putEdge" /\ Adding(u)' /\ Deleting(u)'
    BY <1>0, <1>1, <1>12, <2>1, <2>2, <2>3, EdgeFrame
  <2>5. Adding(t)' /\ Deleting(t)' BY <2>1 DEF Adding, Deleting
  <2>6. group = A
    <3>1. CASE ShardCount = 1
      <4>1. \A n \in Nat : n % 1 = 0 OBVIOUS
      <4>2. \A e \in T : shardFor(e.from) = 0 BY <1>3, <3>1, <4>1 DEF shardFor
      <4> QED BY <1>2, <1>3, <3>1, <4>2
    <3>2. CASE th[t].entry.op = "AddEdge" BY <1>3, <1>4, <3>2
    <3> QED BY <1>13, <3>1, <3>2 DEF OneTx
  <2>7. \A i \in DOMAIN g.edges : ~Completing(t, i) BY <1>4, <1>5, <1>6, <2>6 DEF Completing
  <2>8. \A i \in DOMAIN g'.edges :
           \/ <<g'.edges[i].to, i, g'.edges[i].from>> \in g'.adjIn
           \/ i \in DOMAIN g.edges /\ g'.edges[i] = g.edges[i]
    BY <1>8, <1>9, <1>10, <2>2
  <2>9. \A i \in DOMAIN g.edges : <<g.edges[i].to, i, g.edges[i].from>> \in g.adjIn
                                    => <<g'.edges[i].to, i, g'.edges[i].from>> \in g'.adjIn
    BY <1>9, <1>11, <2>2
  <2>10. Complete' BY <1>1, <2>1, <2>7, <2>8, <2>9, CompleteKeeps DEF EdgeInv
  <2> QED BY <1>0, <1>1, <2>1, <2>4, <2>5, <2>10 DEF EdgeInv
<1>14. CASE /\ ~OneTx(th[t]) /\ g' = h
            /\ Moves(t, IF T \ group = {} THEN "putAdjIn" ELSE "putEdges",
                     th[t].entry, T \ group, A, th[t].id)
  <2>1. /\ Alone(t) /\ th'[t].step \in {"putAdjIn", "putEdges"} /\ th'[t].todo = T \ group
        /\ th'[t].adj = A /\ th'[t].entry = th[t].entry
        /\ th'[t].step = "putEdges" => T \ group # {}
    BY <1>14 DEF Moves, Alone
  <2>2. PendingEdges(t)' \subseteq {e.id : e \in T \ group} BY <2>1 DEF PendingEdges
  <2>3. \A e \in T \ group : e.id \notin {x.id : x \in group} BY <1>3, <1>4
  <2>4. PendingEdges(t)' \subseteq PendingEdges(t) BY <1>5, <2>2
  <2>5. PendingEdges(t)' \subseteq (1..nextEdgeID') \ DOMAIN g'.edges
    BY <1>1, <1>6, <1>8, <1>14, <2>2, <2>3, <2>4
  <2>6. /\ DOMAIN g'.edges \subseteq 1..nextEdgeID'
        /\ FreshEdges' /\ \A i : Known(i) => Known(i)'
        /\ \A u \in Threads \ {t} : th'[u].step # "putEdge" /\ Adding(u)' /\ Deleting(u)'
    BY <1>0, <1>1, <1>12, <1>14, <2>1, <2>4, <2>5, EdgeFrame
  <2>7. ShardCount # 1 BY <1>14 DEF OneTx
  <2>8. th[t].entry.op = "AddEdge" => T \ group = {} BY <1>3, <1>4
  <2>9. Adding(t)' BY <1>3, <2>1, <2>7, <2>8 DEF Adding
  <2>10. Deleting(t)' BY <2>1 DEF Deleting
  <2>11. \A i \in DOMAIN g.edges : Completing(t, i) => Completing(t, i)'
    BY <1>9, <1>14, <2>1 DEF Completing
  <2>12. \A e \in group : Completing(t, e.id)'
    BY <1>3, <1>4, <1>10, <1>14, <2>1 DEF Completing
  <2>13. Complete' BY <1>1, <1>8, <1>9, <1>11, <1>14, <2>1, <2>11, <2>12, CompleteKeeps DEF EdgeInv
  <2> QED BY <1>0, <1>1, <2>1, <2>6, <2>9, <2>10, <2>13 DEF EdgeInv
<1> QED BY <1>2, <1>7, <1>13, <1>14

\* A transaction that writes adj_in entries.
LEMMA PutAdjInEdges ==
    ASSUME NodeInv, EdgeInv, NEW t \in Threads, PutAdjInTx(t)
    PROVE  EdgeInv'
<1>0. nextEdgeID \in Nat /\ IsGraph(g) BY DEF EdgeInv, NodeInv, TypeOK
<1>1. th[t].step = "putAdjIn" /\ faults' = faults /\ nextEdgeID' = nextEdgeID
  BY PutAdjInTxFacts DEF NodeInv
<1>2. PICK group \in SUBSET th[t].adj :
                /\ g' = PutAdjIn(g, group)
                /\ \/ /\ th[t].adj \ group = {}
                      /\ Moves(t, "log", th[t].entry, {}, {}, 0)
                   \/ Moves(t, "putAdjIn", th[t].entry, th[t].todo, th[t].adj \ group, th[t].id)
  BY PutAdjInTxFacts DEF NodeInv
<1>3. g'.edges = g.edges /\ g'.adjIn = g.adjIn \cup {<<x.to, x.id, x.from>> : x \in group}
  BY <1>0, <1>2, PutAdjInFields
<1>4. /\ Alone(t) /\ th'[t].step \in {"log", "putAdjIn"}
      /\ th'[t].step = "log" => th'[t].todo = {} /\ th[t].adj \ group = {}
      /\ th'[t].step = "putAdjIn" => th'[t].adj = th[t].adj \ group
  BY <1>2 DEF Moves, Alone
<1>5. PendingEdges(t)' = {} BY <1>4 DEF PendingEdges
<1>6. /\ DOMAIN g'.edges \subseteq 1..nextEdgeID'
      /\ FreshEdges' /\ \A i : Known(i) => Known(i)'
      /\ \A u \in Threads \ {t} : th'[u].step # "putEdge" /\ Adding(u)' /\ Deleting(u)'
  BY <1>0, <1>1, <1>3, <1>4, <1>5, EdgeFrame
<1>7. Adding(t)'
  <2>1. \A e \in th[t].adj : e.from \in Nat /\ \A d \in th[t].adj : d.id = e.id => d = e
    BY <1>1 DEF EdgeInv, Adding
  <2> QED BY <1>4, <2>1 DEF Adding
<1>8. Deleting(t)' BY <1>4 DEF Deleting
<1>9. ASSUME NEW i \in DOMAIN g.edges, Completing(t, i)
      PROVE  <<g'.edges[i].to, i, g'.edges[i].from>> \in g'.adjIn \/ Completing(t, i)'
  <2>1. PICK e \in th[t].adj : e.id = i /\ e.from = g.edges[i].from /\ e.to = g.edges[i].to
    BY <1>9 DEF Completing
  <2>2. CASE e \in group BY <1>3, <2>1, <2>2
  <2>3. CASE e \notin group
    <3>1. th'[t].step = "putAdjIn" /\ e \in th'[t].adj BY <1>4, <2>1, <2>3
    <3> QED BY <1>3, <2>1, <3>1 DEF Completing
  <2> QED BY <2>2, <2>3
<1>10. Complete' BY <1>1, <1>3, <1>4, <1>9, CompleteKeeps DEF EdgeInv
<1> QED BY <1>0, <1>1, <1>4, <1>6, <1>7, <1>8, <1>10 DEF EdgeInv

\* The first transaction of a deletion.
LEMMA DropEdgeEdges ==
    ASSUME NodeInv, EdgeInv, NEW t \in Threads, DropEdgeTx(t)
    PROVE  EdgeInv'
<1>0. nextEdgeID \in Nat /\ IsGraph(g) BY DEF EdgeInv, NodeInv, TypeOK
<1>1. th[t].step = "cascade" /\ faults' = faults /\ nextEdgeID' = nextEdgeID
  BY DropEdgeTxFacts DEF NodeInv
<1>2. PICK x \in th[t].todo :
           /\ g' = DropEdge(g, x[2])
           /\ Moves(t, "dropAdjIn", [op |-> "DeleteEdge", edge |-> x[2]], th[t].todo \ {x}, th[t].adj, th[t].id)
  BY DropEdgeTxFacts DEF NodeInv
<1>3. g'.edges = Drop(g.edges, {x[2].id}) /\ g'.adjIn = g.adjIn
  BY <1>0, <1>2, DropEdgeFields
<1>4. /\ DOMAIN g'.edges = DOMAIN g.edges \ {x[2].id}
      /\ \A i \in DOMAIN g'.edges : g'.edges[i] = g.edges[i]
  BY <1>3 DEF Drop
<1>5. /\ Alone(t) /\ th'[t].step = "dropAdjIn" /\ th'[t].todo = th[t].todo \ {x}
      /\ th'[t].entry = [op |-> "DeleteEdge", edge |-> x[2]]
  BY <1>2 DEF Moves, Alone
<1>6. th'[t].entry.edge = x[2] BY <1>5
<1>7. PendingEdges(t)' = {} BY <1>5 DEF PendingEdges
<1>8. /\ DOMAIN g'.edges \subseteq 1..nextEdgeID'
      /\ FreshEdges' /\ \A i : Known(i) => Known(i)'
      /\ \A u \in Threads \ {t} : th'[u].step # "putEdge" /\ Adding(u)' /\ Deleting(u)'
  BY <1>0, <1>1, <1>4, <1>5, <1>7, EdgeFrame
<1>9. Adding(t)' BY <1>5 DEF Adding
<1>10. \A y \in th[t].todo : Known(y[2].id) BY <1>1 DEF EdgeInv, Deleting
<1>11. Known(x[2].id)' /\ \A y \in th'[t].todo : Known(y[2].id)' BY <1>5, <1>8, <1>10
<1>12. Deleting(t)' BY <1>4, <1>5, <1>6, <1>11 DEF Deleting
<1>13. \A i : ~Completing(t, i) BY <1>1 DEF Completing
<1>14. Complete' BY <1>1, <1>3, <1>4, <1>5, <1>13, CompleteKeeps DEF EdgeInv
<1> QED BY <1>0, <1>1, <1>5, <1>8, <1>9, <1>12, <1>14 DEF EdgeInv

\* The second one: the edge is gone, so the entry is nobody's.
LEMMA DropAdjInEdges ==
    ASSUME NodeInv, EdgeInv, NEW t \in Threads, DropAdjInTx(t)
    PROVE  EdgeInv'
<1>0. nextEdgeID \in Nat /\ IsGraph(g) BY DEF EdgeInv, NodeInv, TypeOK
<1>1. /\ th[t].step = "dropAdjIn" /\ faults' = faults /\ nextEdgeID' = nextEdgeID
      /\ g' = DropAdjIn(g, th[t].entry.edge)
      /\ Moves(t, "log", th[t].entry, th[t].todo, th[t].adj, th[t].id)
  BY DropAdjInTxFacts DEF NodeInv
<1>2. PICK e : e = th[t].entry.edge OBVIOUS
<1>3. g'.edges = g.edges /\ g'.adjIn = {a \in g.adjIn : <<a[1], a[2]>> # <<e.to, e.id>>}
  <2>1. g' = DropAdjIn(g, e) BY <1>1, <1>2
  <2>2. /\ DropAdjIn(g, e).edges = g.edges
        /\ DropAdjIn(g, e).adjIn = {a \in g.adjIn : <<a[1], a[2]>> # <<e.to, e.id>>}
    BY <1>0, DropAdjInFields
  <2> QED BY <2>1, <2>2
<1>4. Alone(t) /\ th'[t].step = "log" /\ th'[t].todo = th[t].todo BY <1>1 DEF Moves, Alone
<1>5. PendingEdges(t)' = {} BY <1>4 DEF PendingEdges
<1>6. /\ DOMAIN g'.edges \subseteq 1..nextEdgeID'
      /\ FreshEdges' /\ \A i : Known(i) => Known(i)'
      /\ \A u \in Threads \ {t} : th'[u].step # "putEdge" /\ Adding(u)' /\ Deleting(u)'
  BY <1>0, <1>1, <1>3, <1>4, <1>5, EdgeFrame
<1>7. Adding(t)' BY <1>4 DEF Adding
<1>8. e.id \notin DOMAIN g.edges /\ \A x \in th[t].todo : Known(x[2].id)
  BY <1>1, <1>2 DEF EdgeInv, Deleting
<1>9. Deleting(t)' BY <1>4, <1>6, <1>8 DEF Deleting
<1>10. ASSUME NEW i \in DOMAIN g.edges, <<g.edges[i].to, i, g.edges[i].from>> \in g.adjIn
       PROVE  <<g'.edges[i].to, i, g'.edges[i].from>> \in g'.adjIn
  <2>1. PICK a : a = <<g.edges[i].to, i, g.edges[i].from>> OBVIOUS
  <2>2. a[2] = i BY <2>1
  <2>3. <<a[1], a[2]>> # <<e.to, e.id>> BY <1>8, <2>2
  <2> QED BY <1>3, <1>10, <2>1, <2>3
<1>11. \A i : ~Completing(t, i) BY <1>1 DEF Completing
<1>12. Complete' BY <1>1, <1>3, <1>4, <1>10, <1>11, CompleteKeeps DEF EdgeInv
<1> QED BY <1>0, <1>1, <1>4, <1>6, <1>7, <1>9, <1>12 DEF EdgeInv

\* A step of a call on nodes that deletes none.
NodesOnly(t) ==
    /\ Alone(t) /\ SameEdges(g, g') /\ DOMAIN g.nodes \subseteq DOMAIN g'.nodes
    /\ nextEdgeID' = nextEdgeID /\ faults' = faults
    /\ th[t].step \in {"idle", "putNodes"} /\ th'[t].step \in {"putNodes", "log"}
    /\ th'[t].step = "log" => th'[t].todo = {} /\ th'[t].id = 0

\* Which steps are such.
LEMMA NodesOnlyFacts ==
    ASSUME NodeInv, NEW t \in Threads,
           \/ AddNode(t) \/ AddNodeWithLabels(t) \/ AddNodeBatch(t) \/ UpdateNode(t) \/ SetNodeProps(t)
           \/ AddLabel(t) \/ RemoveLabel(t) \/ PutNodesTx(t)
    PROVE  NodesOnly(t)
<1>0. IsGraph(g) BY DEF NodeInv, TypeOK
<1>1. ASSUME NEW op, NEW N, AllocNodes(op, t, N) PROVE NodesOnly(t)
  BY <1>1, AllocFacts DEF NodeInv, Moves, Alone, NodesOnly, SameEdges
<1>2. ASSUME NEW op, NEW id, NEW h, NEW e, NodeTx(op, t, id, h, e), SameEdges(g, h), DOMAIN h.nodes = DOMAIN g.nodes
      PROVE  NodesOnly(t)
  <2>1. /\ th[t].step = "idle" /\ faults' = faults /\ g' = h /\ nextEdgeID' = nextEdgeID
        /\ Moves(t, "log", e, {}, {}, 0)
    BY <1>2, NodeTxFacts DEF NodeInv
  <2> QED BY <1>2, <2>1 DEF Moves, Alone, NodesOnly
<1>3. CASE AddNode(t) \/ AddNodeWithLabels(t) \/ AddNodeBatch(t)
  BY <1>1, <1>3 DEF AddNode, AddNodeWithLabels, AddNodeBatch
<1>4. CASE UpdateNode(t)
  <2>1. PICK id \in NodeIDs, p \in PropArgs :
          NodeTx("UpdateNode", t, id, MergeNode(g, id, p), [op |-> "UpdateNode", id |-> id, props |-> p])
    BY <1>4 DEF UpdateNode
  <2>2. id \in DOMAIN g.nodes BY <2>1 DEF NodeTx
  <2>3. SameEdges(g, MergeNode(g, id, p)) /\ DOMAIN MergeNode(g, id, p).nodes = DOMAIN g.nodes
    BY <1>0, <2>2, PropFields DEF SameNodes
  <2> QED BY <1>2, <2>1, <2>3
<1>5. CASE SetNodeProps(t)
  <2>1. PICK id \in NodeIDs, p \in PropArgs :
          NodeTx("SetNodeProps", t, id, SetNode(g, id, p), [op |-> "SetNodeProps", id |-> id, props |-> p])
    BY <1>5 DEF SetNodeProps
  <2>2. id \in DOMAIN g.nodes BY <2>1 DEF NodeTx
  <2>3. SameEdges(g, SetNode(g, id, p)) /\ DOMAIN SetNode(g, id, p).nodes = DOMAIN g.nodes
    BY <1>0, <2>2, PropFields DEF SameNodes
  <2> QED BY <1>2, <2>1, <2>3
<1>6. CASE AddLabel(t)
  <2>1. PICK id \in NodeIDs, L \in LabelArgs \ {{}} :
          NodeTx("AddLabel", t, id, AddLabels(g, id, L), [op |-> "AddLabel", id |-> id, labels |-> L])
    BY <1>6 DEF AddLabel
  <2>2. SameEdges(g, AddLabels(g, id, L)) /\ DOMAIN AddLabels(g, id, L).nodes = DOMAIN g.nodes
    BY <1>0, LabelFields
  <2> QED BY <1>2, <2>1, <2>2
<1>7. CASE RemoveLabel(t)
  <2>1. PICK id \in NodeIDs, L \in LabelArgs \ {{}} :
          NodeTx("RemoveLabel", t, id, RemoveLabels(g, id, L), [op |-> "RemoveLabel", id |-> id, labels |-> L])
    BY <1>7 DEF RemoveLabel
  <2>2. SameEdges(g, RemoveLabels(g, id, L)) /\ DOMAIN RemoveLabels(g, id, L).nodes = DOMAIN g.nodes
    BY <1>0, LabelFields
  <2> QED BY <1>2, <2>1, <2>2
<1>8. CASE PutNodesTx(t)
  <2>1. PICK N : g' = PutNodes(g, N) BY <1>8, PutNodesTxFacts DEF NodeInv
  <2>2. /\ th[t].step = "putNodes" /\ faults' = faults /\ nextEdgeID' = nextEdgeID
        /\ Alone(t) /\ th'[t].step \in {"log", "putNodes"}
        /\ th'[t].step = "log" => th'[t].todo = {} /\ th'[t].id = 0
    BY <1>8, PutNodesTxFacts DEF NodeInv, Moves, Alone
  <2>3. SameEdges(g, g') /\ DOMAIN g.nodes \subseteq DOMAIN g'.nodes BY <1>0, <2>1, PutNodesFields
  <2> QED BY <2>2, <2>3 DEF NodesOnly
<1> QED BY <1>3, <1>4, <1>5, <1>6, <1>7, <1>8

\* A step that looks up edges to be deleted: they are there.
Collects(t) ==
    /\ Alone(t) /\ g' = g /\ nextEdgeID' = nextEdgeID /\ faults' = faults
    /\ th[t].step \in {"idle", "collectIn", "fetchIn"} /\ th'[t].step \in {"collectIn", "fetchIn", "cascade"}
    /\ \A x \in th'[t].todo : \/ th[t].step # "idle" /\ x \in th[t].todo
                              \/ \E i \in DOMAIN g.edges : x[2] = EdgeOf(i)

\* Which steps are such.
LEMMA CollectsFacts ==
    ASSUME NodeInv, NEW t \in Threads, DeleteEdge(t) \/ DeleteNode(t) \/ CollectIn(t) \/ FetchIn(t)
    PROVE  Collects(t)
<1>1. \A A : \A x \in Incoming(A) : \E i \in DOMAIN g.edges : x[2] = EdgeOf(i) BY DEF Incoming
<1>2. CASE DeleteEdge(t)
  <2>1. th[t].step = "idle" /\ faults' = faults /\ g' = g /\ nextEdgeID' = nextEdgeID
    BY <1>2, DeleteEdgeFacts DEF NodeInv
  <2>2. PICK id \in DOMAIN g.edges : Moves(t, "cascade", None, {<<"out", EdgeOf(id)>>}, {}, 0)
    BY <1>2, DeleteEdgeFacts DEF NodeInv
  <2>3. Alone(t) /\ th'[t].step = "cascade" /\ th'[t].todo = {<<"out", EdgeOf(id)>>} BY <2>2 DEF Moves, Alone
  <2>4. \A x \in th'[t].todo : x[2] = EdgeOf(id) BY <2>3
  <2> QED BY <2>1, <2>3, <2>4 DEF Collects
<1>3. CASE DeleteNode(t)
  <2>1. th[t].step = "idle" /\ faults' = faults /\ g' = g /\ nextEdgeID' = nextEdgeID
    BY <1>3, DeleteNodeFacts DEF NodeInv
  <2>2. PICK id \in NodeIDs :
                Moves(t, "collectIn", None,
                      {<<"out", EdgeOf(a[2])>> : a \in {b \in g.adjOut : b[1] = id /\ b[2] \in DOMAIN g.edges}},
                      {}, id)
    BY <1>3, DeleteNodeFacts DEF NodeInv
  <2>3. /\ Alone(t) /\ th'[t].step = "collectIn"
        /\ th'[t].todo = {<<"out", EdgeOf(a[2])>> : a \in {b \in g.adjOut : b[1] = id /\ b[2] \in DOMAIN g.edges}}
    BY <2>2 DEF Moves, Alone
  <2>4. \A x \in th'[t].todo : \E i \in DOMAIN g.edges : x[2] = EdgeOf(i) BY <2>3
  <2> QED BY <2>1, <2>3, <2>4 DEF Collects
<1>4. CASE CollectIn(t)
  <2>1. /\ th[t].step = "collectIn" /\ faults' = faults /\ g' = g /\ nextEdgeID' = nextEdgeID
        /\ Alone(t) /\ th'[t].step \in {"cascade", "fetchIn"}
        /\ \E A : th'[t].todo \subseteq th[t].todo \cup Incoming(A)
    BY <1>4, CollectInFacts DEF NodeInv, Moves, Alone
  <2> QED BY <1>1, <2>1 DEF Collects
<1>5. CASE FetchIn(t)
  <2>1. /\ th[t].step = "fetchIn" /\ faults' = faults /\ g' = g /\ nextEdgeID' = nextEdgeID
        /\ Alone(t) /\ th'[t].step \in {"cascade", "fetchIn"}
        /\ \E A : th'[t].todo \subseteq th[t].todo \cup Incoming(A)
    BY <1>5, FetchInFacts DEF NodeInv, Moves, Alone
  <2> QED BY <1>1, <2>1 DEF Collects
<1> QED BY <1>2, <1>3, <1>4, <1>5

\* AddEdge has looked up the source.
LEMMA AddEdgeSource ==
    ASSUME NodeInv, NEW t \in Threads, AddEdge(t)
    PROVE  /\ Alone(t) /\ th[t].step = "idle" /\ faults' = faults /\ g' = g /\ nextEdgeID' = nextEdgeID
           /\ th'[t].step = "checkTo" /\ \A e \in th'[t].todo : IsEdge(e) /\ e.from \in DOMAIN g.nodes
<1>1. th[t].step = "idle" /\ faults' = faults /\ g' = g /\ nextEdgeID' = nextEdgeID
  BY AddEdgeFacts DEF NodeInv
<1>2. PICK f \in DOMAIN g.nodes, o \in NodeIDs, p \in PropArgs :
        Moves(t, "checkTo", None, {[id |-> 0, from |-> f, to |-> o, props |-> p]}, {}, 0)
  BY AddEdgeFacts DEF NodeInv
<1>3. PICK e : e = [id |-> 0, from |-> f, to |-> o, props |-> p] OBVIOUS
<1>4. Alone(t) /\ th'[t].step = "checkTo" /\ th'[t].todo = {e} BY <1>2, <1>3 DEF Moves, Alone
<1>5. f \in Nat BY NodesFinite DEF NodeInv, TypeOK
<1>6. IsEdge(e) /\ e.from = f BY <1>3, <1>5 DEF IsEdge, EdgeFields
<1> QED BY <1>1, <1>4, <1>6

\* The edges found are known, since they are there.
LEMMA CollectsEdges ==
    ASSUME EdgeInv, NEW t \in Threads, Collects(t)
    PROVE  EdgeInv'
<1>1. \A x \in th'[t].todo : Known(x[2].id)
  <2>1. TAKE x \in th'[t].todo
  <2>2. CASE th[t].step # "idle" /\ x \in th[t].todo BY <2>2 DEF Collects, EdgeInv, Deleting
  <2>3. ASSUME NEW i \in DOMAIN g.edges, x[2] = EdgeOf(i) PROVE Known(x[2].id)
    <3>1. x[2].id = i BY <2>3 DEF EdgeOf
    <3> QED BY <3>1, ExistingKnown
  <2> QED BY <2>2, <2>3 DEF Collects
<1>2. faults \in Nat BY DEF EdgeInv
<1> QED BY <1>1, <1>2, EdgeQuiet DEF Collects

\* A step that begins a call.
LEMMA CallEdges ==
    ASSUME NodeInv, EdgeInv, NEW t \in Threads, Call(t), "UpdateEdge" \notin Ops
    PROVE  EdgeInv'
<1>0. faults \in Nat BY DEF EdgeInv
<1>1. CASE NodesOnly(t) BY <1>0, <1>1, EdgeQuiet DEF NodesOnly, SameEdges
<1>2. CASE AddEdge(t) BY <1>0, <1>2, AddEdgeSource, EdgeQuiet
<1>3. CASE AddEdgeBatch(t)
  <2>1. th[t].step = "idle" /\ \E E : EdgesBegun(t, E) BY <1>3, AddEdgeBatchBegins DEF EdgeInv
  <2> QED BY <2>1, EdgesBegin
<1>4. CASE UpdateEdge(t) BY <1>4, UpdateEdgeFacts DEF NodeInv
<1>5. CASE Collects(t) BY <1>5, CollectsEdges
<1> QED BY <1>1, <1>2, <1>3, <1>4, <1>5, NodesOnlyFacts, CollectsFacts DEF Call

\* A step of a call that is under way.
LEMMA ContinueEdges ==
    ASSUME NodeInv, EdgeInv, NEW t \in Threads, Continue(t) \/ LogFails(t) \/ WriteFails(t)
    PROVE  EdgeInv'
<1>0. faults \in Nat /\ IsGraph(g) BY DEF EdgeInv, NodeInv, TypeOK
<1>1. CASE NodesOnly(t) BY <1>0, <1>1, EdgeQuiet DEF NodesOnly, SameEdges
<1>2. CASE CheckTo(t)
  <2>1. nextEdgeID \in Nat /\ Adding(t) BY DEF EdgeInv
  <2>2. /\ th[t].step = "checkTo" /\ faults' = faults /\ g' = g
        /\ \/ Alone(t) /\ th'[t].step = "idle" /\ nextEdgeID' = nextEdgeID
           \/ \E e1 : EdgesBegun(t, {e1})
    BY <1>2, <2>1, CheckToBegins
  <2>3. CASE Alone(t) /\ th'[t].step = "idle" /\ nextEdgeID' = nextEdgeID BY <1>0, <2>2, <2>3, EdgeQuiet
  <2>4. CASE \E e1 : EdgesBegun(t, {e1}) BY <2>2, <2>4, EdgesBegin
  <2> QED BY <2>2, <2>3, <2>4
<1>3. CASE PutEdgesTx(t) BY <1>3, PutEdgesEdges
<1>4. CASE PutAdjInTx(t) BY <1>4, PutAdjInEdges
<1>5. CASE PutEdgeTx(t) BY <1>5 DEF EdgeInv, PutEdgeTx
<1>6. CASE Collects(t) BY <1>6, CollectsEdges
<1>7. CASE DropEdgeTx(t) BY <1>7, DropEdgeEdges
<1>8. CASE DropAdjInTx(t) BY <1>8, DropAdjInEdges
<1>9. CASE DropNodeTx(t)
  <2>1. /\ th[t].step = "cascade" /\ faults' = faults /\ nextEdgeID' = nextEdgeID
        /\ Alone(t) /\ th'[t].step \in {"log", "idle"} /\ th'[t].todo = {}
        /\ g' = g \/ g' = DropNode(g, th[t].id)
    BY <1>9, DropNodeTxFacts DEF NodeInv, Moves, Alone
  <2>2. g'.edges = g.edges /\ g'.adjIn = g.adjIn BY <1>0, <2>1, DropNodeFields DEF SameEdges
  <2> QED BY <1>0, <2>1, <2>2, EdgeQuiet
<1>10. CASE Log(t) \/ LogFails(t)
  <2>1. /\ th[t].step = "log" /\ g' = g /\ nextEdgeID' = nextEdgeID
        /\ faults' = faults \/ faults' = faults + 1
        /\ Alone(t) /\ th'[t].step \in {"cascade", "idle"}
        /\ th'[t].step = "cascade" => th'[t].todo = th[t].todo
    BY <1>10, LogFacts DEF NodeInv, Moves, Alone
  <2>2. faults' \in Nat /\ (faults' = 0 => faults = 0) BY <1>0, <2>1
  <2>3. \A x \in th[t].todo : Known(x[2].id) BY <2>1 DEF EdgeInv, Deleting
  <2> QED BY <2>1, <2>2, <2>3, EdgeQuiet
<1>11. CASE WriteFails(t)
  <2>1. /\ g' = g /\ nextEdgeID' = nextEdgeID /\ faults' = faults + 1
        /\ Alone(t) /\ th'[t].step = "idle"
    BY <1>11, WriteFailsFacts DEF NodeInv, Moves, Alone
  <2>2. faults' \in Nat /\ faults' # 0 BY <1>0, <2>1
  <2> QED BY <2>1, <2>2, EdgeQuiet
<1> QED BY <1>1, <1>2, <1>3, <1>4, <1>5, <1>6, <1>7, <1>8, <1>9, <1>10, <1>11, NodesOnlyFacts, CollectsFacts
        DEF Continue

\* A database without edges.
LEMMA InitEdgeInv == Init => EdgeInv
<1> SUFFICES ASSUME Init PROVE EdgeInv
    OBVIOUS
<1>1. g.edges = << >> /\ nextEdgeID = 0 /\ faults = 0 BY DEF Init, EmptyGraph
<1>2. DOMAIN g.edges = {} BY <1>1
<1>3. \A t \in Threads : th[t] = Idle BY DEF Init
<1>4. \A t \in Threads : th[t].step = "idle" /\ PendingEdges(t) = {}
  BY <1>3, IdleFields DEF PendingEdges
<1>5. FreshEdges /\ Complete BY <1>2, <1>4 DEF FreshEdges, Complete
<1>6. \A t \in Threads : Adding(t) /\ Deleting(t) BY <1>4 DEF Adding, Deleting
<1> QED BY <1>1, <1>2, <1>4, <1>5, <1>6 DEF EdgeInv

\* The invariant of edges and their adj_in entries, for any threads and faults, when
\* nobody calls UpdateEdge.
THEOREM EdgeInvariance ==
    ASSUME "UpdateEdge" \notin Ops
    PROVE  Spec => []EdgeInv
<1>1. NodeInv /\ EdgeInv /\ [Next]_vars => EdgeInv'
  <2> SUFFICES ASSUME NodeInv, EdgeInv, [Next]_vars PROVE EdgeInv'
    OBVIOUS
  <2>1. CASE UNCHANGED vars
    <3>1. g' = g /\ nextEdgeID' = nextEdgeID /\ th' = th /\ faults' = faults BY <2>1 DEF vars
    <3>2. \A t \in Threads : PendingEdges(t)' = PendingEdges(t) BY <3>1 DEF PendingEdges
    <3>3. \A i : Known(i) => Known(i)' BY <3>1, <3>2 DEF Known
    <3>4. FreshEdges' BY <3>1, <3>2 DEF EdgeInv, FreshEdges
    <3>5. \A t \in Threads : Adding(t)' BY <3>1 DEF EdgeInv, Adding
    <3>6. \A t \in Threads : Deleting(t)' BY <3>1, <3>3 DEF EdgeInv, Deleting
    <3>7. \A t \in Threads : \A i : Completing(t, i) => Completing(t, i)' BY <3>1 DEF Completing
    <3>8. Complete' BY <3>1, <3>7 DEF EdgeInv, Complete
    <3> QED BY <3>1, <3>4, <3>5, <3>6, <3>8 DEF EdgeInv
  <2>2. CASE Next BY <2>2, CallEdges, ContinueEdges DEF Next
  <2> QED BY <2>1, <2>2
<1> QED BY <1>1, InitEdgeInv, NodeInvariance, PTL DEF Spec

\* InEdges misses no edge: with no UpdateEdge to bring a deleted one back, for any threads,
\* shards and calls, an edge that exists has its adj_in entry once no call is under way.
THEOREM InEdgesAreComplete ==
    ASSUME "UpdateEdge" \notin Ops
    PROVE  Spec => []InEdgesComplete
<1>1. EdgeInv => InEdgesComplete BY DEF EdgeInv, Complete, InEdgesComplete, Quiet, Completing
<1> QED BY <1>1, EdgeInvariance, PTL

--------------------------------------------------------------------------------
(* One caller at a time, and no transaction fails: the adjacency is exact between      *)
(* calls, and what a call has written of it is known at each of its steps.            *)

OneCaller == (\E t : Threads = {t}) /\ MaxFaults = 0

\* The adjacency entries of the edges I.
OutOf(h, I) == {<<h.edges[i].from, i, h.edges[i].to>> : i \in I}
InOf(h, I)  == {<<h.edges[i].to, i, h.edges[i].from>> : i \in I}

\* The edge e is in the graph, whatever its properties.
Written(h, e) == e.id \in DOMAIN h.edges /\ h.edges[e.id].from = e.from /\ h.edges[e.id].to = e.to

\* The edges whose adj_in entries thread t has yet to write.
Owed(t) == IF th[t].step \in {"putEdges", "putAdjIn"} THEN {e.id : e \in th[t].adj} ELSE {}

\* The edges t has at hand are the graph's: those it adds are written as far as it got,
\* and those it changes or deletes are as it read them.
AtHand(t) ==
    /\ Adding(t)
    /\ PendingEdges(t) \subseteq (1..nextEdgeID) \ DOMAIN g.edges
    /\ th[t].step = "putEdges" => \A e \in th[t].adj \ th[t].todo : Written(g, e)
    /\ th[t].step = "putAdjIn" => \A e \in th[t].adj : Written(g, e)
    /\ th[t].step = "putEdge" => \A e \in th[t].todo : Written(g, e)
    /\ th[t].step \in {"collectIn", "fetchIn", "cascade", "dropAdjIn", "log"} =>
         \A x \in th[t].todo : x[2].id \in DOMAIN g.edges => Written(g, x[2])

\* The incoming entries, up to those that t owes or has yet to delete.
Incomings(t) ==
    IF th[t].step = "dropAdjIn"
    THEN LET e == th[t].entry.edge
         IN /\ e.id \notin DOMAIN g.edges
            /\ InOf(g, DOMAIN g.edges) \subseteq g.adjIn
            /\ g.adjIn \subseteq InOf(g, DOMAIN g.edges) \cup {<<e.to, e.id, e.from>>}
    ELSE g.adjIn = InOf(g, DOMAIN g.edges \ Owed(t))

SeqInv ==
    /\ nextEdgeID \in Nat /\ faults = 0 /\ DOMAIN g.edges \subseteq 1..nextEdgeID
    /\ g.adjOut = OutOf(g, DOMAIN g.edges)
    /\ \A t \in Threads : AtHand(t) /\ Incomings(t)

\* Nodes are not deleted before the edges that have them as an end.
Touches(h, i, n) == n \in {h.edges[i].from, h.edges[i].to}

Listed(t, i) == \E x \in th[t].todo : x[2].id = i

Ends(t) ==
    /\ th[t].step = "checkTo" => \A e \in th[t].todo : e.from \in DOMAIN g.nodes
    /\ th[t].step = "putEdges" => \A e \in th[t].todo : {e.from, e.to} \subseteq DOMAIN g.nodes
    /\ th[t].step \in {"collectIn", "fetchIn"} =>
         \A i \in DOMAIN g.edges : g.edges[i].from = th[t].id => Listed(t, i)
    /\ th[t].step = "fetchIn" =>
         \A i \in DOMAIN g.edges : g.edges[i].to = th[t].id =>
            Listed(t, i) \/ <<g.edges[i].to, i, g.edges[i].from>> \in th[t].adj
    /\ th[t].step \in {"cascade", "dropAdjIn", "log"} /\ th[t].id # 0 =>
         \A i \in DOMAIN g.edges : Touches(g, i, th[t].id) => Listed(t, i)

EndsInv ==
    /\ \A i \in DOMAIN g.edges : {g.edges[i].from, g.edges[i].to} \subseteq DOMAIN g.nodes
    /\ \A t \in Threads : Ends(t)

\* The entries of edges with the same ends are the same.
LEMMA EntriesSame ==
    ASSUME NEW h, NEW h1, NEW I,
           \A i \in I : h1.edges[i].from = h.edges[i].from /\ h1.edges[i].to = h.edges[i].to
    PROVE  InOf(h1, I) = InOf(h, I) /\ OutOf(h1, I) = OutOf(h, I)
BY DEF InOf, OutOf

\* The entries of edges that are written are the edges' own.
LEMMA EntriesWritten ==
    ASSUME NEW h, NEW E, \A e \in E : Written(h, e)
    PROVE  /\ InOf(h, {e.id : e \in E}) = {<<e.to, e.id, e.from>> : e \in E}
           /\ OutOf(h, {e.id : e \in E}) = {<<e.from, e.id, e.to>> : e \in E}
<1>1. InOf(h, {e.id : e \in E}) = {<<e.to, e.id, e.from>> : e \in E}
  <2>1. ASSUME NEW a \in InOf(h, {e.id : e \in E}) PROVE a \in {<<e.to, e.id, e.from>> : e \in E}
    <3>1. PICK e \in E : a = <<h.edges[e.id].to, e.id, h.edges[e.id].from>> BY <2>1 DEF InOf
    <3> QED BY <3>1 DEF Written
  <2>2. ASSUME NEW e \in E PROVE <<e.to, e.id, e.from>> \in InOf(h, {d.id : d \in E})
    BY DEF InOf, Written
  <2> QED BY <2>1, <2>2
<1>2. OutOf(h, {e.id : e \in E}) = {<<e.from, e.id, e.to>> : e \in E}
  <2>1. ASSUME NEW a \in OutOf(h, {e.id : e \in E}) PROVE a \in {<<e.from, e.id, e.to>> : e \in E}
    <3>1. PICK e \in E : a = <<h.edges[e.id].from, e.id, h.edges[e.id].to>> BY <2>1 DEF OutOf
    <3> QED BY <3>1 DEF Written
  <2>2. ASSUME NEW e \in E PROVE <<e.from, e.id, e.to>> \in OutOf(h, {d.id : d \in E})
    BY DEF OutOf, Written
  <2> QED BY <2>1, <2>2
<1> QED BY <1>1, <1>2

\* A step that writes no edge and no entry, between ones that do.
LEMMA SeqQuiet ==
    ASSUME OneCaller, SeqInv, NEW t \in Threads, Alone(t),
           g'.edges = g.edges, g'.adjIn = g.adjIn, g'.adjOut = g.adjOut,
           nextEdgeID' = nextEdgeID, faults' = faults,
           th[t].step \notin {"putEdges", "putAdjIn", "dropAdjIn"},
           th'[t].step \notin {"putEdges", "putAdjIn", "dropAdjIn"},
           th'[t].step = "checkTo" => \A e \in th'[t].todo : IsEdge(e),
           th'[t].step = "putEdge" => \A e \in th'[t].todo : Written(g, e),
           th'[t].step \in {"collectIn", "fetchIn", "cascade", "log"} =>
             \A x \in th'[t].todo : x[2].id \in DOMAIN g.edges => Written(g, x[2])
    PROVE  SeqInv'
<1>1. \A u \in Threads : u = t BY DEF OneCaller
<1>2. PendingEdges(t)' = {} /\ Owed(t)' = {} /\ Owed(t) = {} BY DEF PendingEdges, Owed
<1>3. Adding(t)' BY DEF Adding
<1>4. \A e : Written(g, e)' <=> Written(g, e) BY DEF Written
<1>5. AtHand(t)' BY <1>2, <1>3, <1>4 DEF AtHand
<1>6. InOf(g, DOMAIN g.edges)' = InOf(g, DOMAIN g.edges) /\ OutOf(g, DOMAIN g.edges)' = OutOf(g, DOMAIN g.edges)
  BY DEF InOf, OutOf
<1>7. g.adjIn = InOf(g, DOMAIN g.edges)
  <2>1. g.adjIn = InOf(g, DOMAIN g.edges \ Owed(t)) BY DEF SeqInv, Incomings
  <2>2. DOMAIN g.edges \ Owed(t) = DOMAIN g.edges BY <1>2
  <2> QED BY <2>1, <2>2
<1>8. Incomings(t)'
  <2>1. (DOMAIN g.edges)' \ Owed(t)' = (DOMAIN g.edges)' BY <1>2
  <2>2. g'.adjIn = InOf(g, DOMAIN g.edges)' BY <1>6, <1>7
  <2> QED BY <2>1, <2>2 DEF Incomings
<1> QED BY <1>1, <1>5, <1>6, <1>8 DEF SeqInv

\* A call that has its edges to write.
LEMMA SeqEdgesBegin ==
    ASSUME OneCaller, SeqInv, NEW t \in Threads, NEW E, EdgesBegun(t, E),
           th[t].step \notin {"putEdges", "putAdjIn", "dropAdjIn"}
    PROVE  SeqInv'
<1> USE DEF EdgesBegun
<1>0. \A u \in Threads : u = t BY DEF OneCaller
<1>1. nextEdgeID \in Nat /\ DOMAIN g.edges \subseteq 1..nextEdgeID BY DEF SeqInv
<1>2. DOMAIN g'.edges \subseteq 1..nextEdgeID' BY <1>1
<1>3. PendingEdges(t)' = {e.id : e \in E} /\ Owed(t)' = {e.id : e \in E} /\ Owed(t) = {}
  BY DEF PendingEdges, Owed
<1>4. PendingEdges(t)' \subseteq (1..nextEdgeID)' \ (DOMAIN g.edges)' BY <1>1, <1>3
<1>5. Adding(t)' BY DEF Adding
<1>6. AtHand(t)' BY <1>4, <1>5 DEF AtHand
<1>7. g.adjIn = InOf(g, DOMAIN g.edges)
  <2>1. g.adjIn = InOf(g, DOMAIN g.edges \ Owed(t)) BY DEF SeqInv, Incomings
  <2>2. DOMAIN g.edges \ Owed(t) = DOMAIN g.edges BY <1>3
  <2> QED BY <2>1, <2>2
<1>8. Incomings(t)'
  <2>1. (DOMAIN g.edges)' \ Owed(t)' = DOMAIN g.edges BY <1>3, <1>4
  <2>2. g'.adjIn = InOf(g', DOMAIN g.edges) BY <1>7
  <2> QED BY <2>1, <2>2 DEF Incomings
<1>9. g'.adjOut = OutOf(g', DOMAIN g'.edges) BY DEF SeqInv
<1> QED BY <1>0, <1>2, <1>6, <1>8, <1>9 DEF SeqInv

\* The transactions that write new edges, with or without their adj_in entries.
LEMMA SeqPutEdges ==
    ASSUME OneCaller, NodeInv, SeqInv, NEW t \in Threads, PutEdgesTx(t)
    PROVE  SeqInv'
<1>0. nextEdgeID \in Nat /\ IsGraph(g) /\ \A u \in Threads : u = t BY DEF OneCaller, SeqInv, NodeInv, TypeOK
<1>1. th[t].step = "putEdges" /\ faults' = faults /\ nextEdgeID' = nextEdgeID
  BY PutEdgesTxFacts DEF NodeInv
<1>2. PICK s, group :
        /\ s \in {shardFor(e.from) : e \in th[t].todo}
        /\ group = {e \in th[t].todo : shardFor(e.from) = s}
        /\ \/ /\ OneTx(th[t]) /\ g' = PutAdjIn(PutEdges(g, group), group)
              /\ Moves(t, "log", th[t].entry, {}, {}, 0)
           \/ /\ ~OneTx(th[t]) /\ g' = PutEdges(g, group)
              /\ Moves(t, IF th[t].todo \ group = {} THEN "putAdjIn" ELSE "putEdges",
                       th[t].entry, th[t].todo \ group, th[t].adj, th[t].id)
  BY PutEdgesTxFacts DEF NodeInv
<1> DEFINE A == th[t].adj
<1> DEFINE T == th[t].todo
<1> DEFINE D == DOMAIN g.edges
<1>3. /\ T \subseteq A /\ (ShardCount = 1 => T = A)
      /\ th[t].entry.op = "AddEdge" => T = A /\ \E x \in A : A = {x}
      /\ \A e \in A : e.from \in Nat
      /\ \A d, e \in A : d.id = e.id => d = e
  BY <1>1 DEF SeqInv, AtHand, Adding
<1>4. group \subseteq T /\ group # {} BY <1>2
<1>5. PendingEdges(t) = {e.id : e \in T} /\ Owed(t) = {e.id : e \in A} BY <1>1 DEF PendingEdges, Owed
<1>6. PendingEdges(t) \subseteq (1..nextEdgeID) \ D BY DEF SeqInv, AtHand
<1>7. PICK h : h = PutEdges(g, group) OBVIOUS
<1>8. /\ DOMAIN h.edges = D \cup {e.id : e \in group}
      /\ \A e \in group : h.edges[e.id] = [from |-> e.from, to |-> e.to, props |-> e.props]
      /\ \A i \in D \ {e.id : e \in group} : h.edges[i] = g.edges[i]
  <2>1. \A d, e \in group : d.id = e.id => d = e BY <1>3, <1>4
  <2> QED BY <1>0, <1>7, <2>1, PutEdgesValues
<1>9. \A i \in D : h.edges[i] = g.edges[i] BY <1>4, <1>5, <1>6, <1>8
<1>10. \A e \in group : Written(h, e)
  <2>0. TAKE e \in group
  <2>1. PICK r : r = [from |-> e.from, to |-> e.to, props |-> e.props] OBVIOUS
  <2>2. r.from = e.from /\ r.to = e.to BY <2>1
  <2> QED BY <1>8, <2>1, <2>2 DEF Written
<1>11. /\ IsGraph(h) /\ h.adjIn = g.adjIn
       /\ h.adjOut = g.adjOut \cup {<<e.from, e.id, e.to>> : e \in group}
  BY <1>0, <1>7, PutEdgesFields
<1>12. DOMAIN h.edges \subseteq 1..nextEdgeID BY <1>4, <1>5, <1>6, <1>8 DEF SeqInv
<1>13. h.adjOut = OutOf(h, DOMAIN h.edges)
  <2>1. OutOf(h, D) = OutOf(g, D) BY <1>9, EntriesSame
  <2>2. OutOf(h, {e.id : e \in group}) = {<<e.from, e.id, e.to>> : e \in group} BY <1>10, EntriesWritten
  <2>3. OutOf(h, D \cup {e.id : e \in group}) = OutOf(h, D) \cup OutOf(h, {e.id : e \in group})
    <3>1. PICK G : G = {e.id : e \in group} OBVIOUS
    <3>2. OutOf(h, D \cup G) = OutOf(h, D) \cup OutOf(h, G) BY DEF OutOf
    <3> QED BY <3>1, <3>2
  <2> QED BY <1>8, <1>11, <2>1, <2>2, <2>3 DEF SeqInv
<1>14. g.adjIn = InOf(g, D \ {e.id : e \in A}) BY <1>1, <1>5 DEF SeqInv, Incomings
<1>15. CASE OneTx(th[t]) /\ g' = PutAdjIn(h, group) /\ Moves(t, "log", th[t].entry, {}, {}, 0)
  <2>1. th'[t].step = "log" /\ th'[t].todo = {} BY <1>15 DEF Moves
  <2>2. /\ g'.edges = h.edges /\ g'.adjIn = h.adjIn \cup {<<x.to, x.id, x.from>> : x \in group}
        /\ g'.adjOut = h.adjOut
    BY <1>11, <1>15, PutAdjInFields
  <2>3. PendingEdges(t)' = {} /\ Owed(t)' = {} BY <2>1 DEF PendingEdges, Owed
  <2>4. Adding(t)' BY <2>1 DEF Adding
  <2>5. AtHand(t)' BY <2>1, <2>3, <2>4 DEF AtHand
  <2>6. group = A BY <1>1, <1>2, <1>15, OneTxWhole DEF SeqInv, AtHand
  <2>7. D \ {e.id : e \in A} = D BY <1>4, <1>5, <1>6, <2>6
  <2>8. h.adjIn = InOf(h, D)
    <3>1. InOf(h, D) = InOf(g, D) BY <1>9, EntriesSame
    <3> QED BY <1>11, <1>14, <2>7, <3>1
  <2>9. InOf(h, {e.id : e \in group}) = {<<e.to, e.id, e.from>> : e \in group} BY <1>10, EntriesWritten
  <2>10. InOf(h, D \cup {e.id : e \in group}) = InOf(h, D) \cup InOf(h, {e.id : e \in group})
    <3>1. PICK G : G = {e.id : e \in group} OBVIOUS
    <3>2. InOf(h, D \cup G) = InOf(h, D) \cup InOf(h, G) BY DEF InOf
    <3> QED BY <3>1, <3>2
  <2>11. g'.adjIn = InOf(h, DOMAIN h.edges) BY <1>8, <2>2, <2>8, <2>9, <2>10
  <2>12. InOf(g', DOMAIN g'.edges) = InOf(h, DOMAIN h.edges) /\ OutOf(g', DOMAIN g'.edges) = OutOf(h, DOMAIN h.edges)
    BY <2>2 DEF InOf, OutOf
  <2>13. DOMAIN g'.edges \ Owed(t)' = DOMAIN g'.edges BY <2>3
  <2>14. Incomings(t)' BY <2>1, <2>11, <2>12, <2>13 DEF Incomings
  <2> QED BY <1>0, <1>1, <1>12, <1>13, <2>2, <2>5, <2>12, <2>14 DEF SeqInv
<1>16. CASE /\ ~OneTx(th[t]) /\ g' = h
            /\ Moves(t, IF T \ group = {} THEN "putAdjIn" ELSE "putEdges",
                     th[t].entry, T \ group, A, th[t].id)
  <2>1. /\ th'[t].step \in {"putAdjIn", "putEdges"} /\ th'[t].todo = T \ group
        /\ th'[t].adj = A /\ th'[t].entry = th[t].entry
        /\ th'[t].step = "putEdges" => T \ group # {}
        /\ th'[t].step = "putAdjIn" => T \ group = {}
    BY <1>16 DEF Moves
  <2>2. PendingEdges(t)' \subseteq {e.id : e \in T \ group} /\ Owed(t)' = {e.id : e \in A}
    BY <2>1 DEF PendingEdges, Owed
  <2>3. \A e \in T \ group : e.id \notin {x.id : x \in group} BY <1>3, <1>4
  <2>4. PendingEdges(t)' \subseteq (1..nextEdgeID)' \ (DOMAIN g.edges)'
    BY <1>1, <1>5, <1>6, <1>8, <1>16, <2>2, <2>3
  <2>5. ShardCount # 1 BY <1>16 DEF OneTx
  <2>6. th[t].entry.op = "AddEdge" => T \ group = {} BY <1>3, <1>4
  <2>7. Adding(t)' BY <1>3, <2>1, <2>5, <2>6 DEF Adding
  <2>8. \A e \in A \ T : Written(g, e) BY <1>1 DEF SeqInv, AtHand
  <2>9. \A e : Written(g, e) => Written(h, e) BY <1>8, <1>9 DEF Written
  <2>10. \A e \in A : e \notin T \ group => Written(g', e) BY <1>10, <1>16, <2>8, <2>9
  <2>11. AtHand(t)' BY <2>1, <2>4, <2>7, <2>10 DEF AtHand
  <2>12. DOMAIN h.edges \ {e.id : e \in A} = D \ {e.id : e \in A} BY <1>3, <1>4, <1>8
  <2>13. InOf(h, D \ {e.id : e \in A}) = InOf(g, D \ {e.id : e \in A}) BY <1>9, EntriesSame
  <2>14. g'.adjIn = InOf(g', DOMAIN g'.edges \ Owed(t)') BY <1>11, <1>14, <1>16, <2>2, <2>12, <2>13
  <2>15. Incomings(t)' BY <2>1, <2>14 DEF Incomings
  <2> QED BY <1>0, <1>1, <1>12, <1>13, <1>16, <2>11, <2>15 DEF SeqInv
<1> QED BY <1>2, <1>7, <1>15, <1>16

\* The adj_in entries of new edges.
LEMMA SeqPutAdjIn ==
    ASSUME OneCaller, NodeInv, SeqInv, NEW t \in Threads, PutAdjInTx(t)
    PROVE  SeqInv'
<1>0. nextEdgeID \in Nat /\ IsGraph(g) /\ \A u \in Threads : u = t BY DEF OneCaller, SeqInv, NodeInv, TypeOK
<1>1. th[t].step = "putAdjIn" /\ faults' = faults /\ nextEdgeID' = nextEdgeID
  BY PutAdjInTxFacts DEF NodeInv
<1> DEFINE A == th[t].adj
<1> DEFINE D == DOMAIN g.edges
<1>2. PICK group \in SUBSET A :
                /\ g' = PutAdjIn(g, group)
                /\ \/ /\ A \ group = {}
                      /\ Moves(t, "log", th[t].entry, {}, {}, 0)
                   \/ Moves(t, "putAdjIn", th[t].entry, th[t].todo, A \ group, th[t].id)
  BY PutAdjInTxFacts DEF NodeInv
<1>3. /\ g'.edges = g.edges /\ g'.adjIn = g.adjIn \cup {<<x.to, x.id, x.from>> : x \in group}
      /\ g'.adjOut = g.adjOut
  BY <1>0, <1>2, PutAdjInFields
<1>4. /\ th'[t].step \in {"log", "putAdjIn"}
      /\ th'[t].step = "log" => th'[t].todo = {} /\ A \ group = {}
      /\ th'[t].step = "putAdjIn" => th'[t].adj = A \ group
  BY <1>2 DEF Moves
<1>5. PendingEdges(t)' = {} /\ Owed(t)' = {e.id : e \in A \ group} /\ Owed(t) = {e.id : e \in A}
  BY <1>1, <1>4 DEF PendingEdges, Owed
<1>6. /\ \A e \in A : e.from \in Nat /\ \A d \in A : d.id = e.id => d = e
      /\ \A e \in A : Written(g, e)
  BY <1>1 DEF SeqInv, AtHand, Adding
<1>7. Adding(t)' BY <1>4, <1>6 DEF Adding
<1>8. \A e : Written(g, e)' <=> Written(g, e) BY <1>3 DEF Written
<1>9. AtHand(t)' BY <1>4, <1>5, <1>6, <1>7, <1>8 DEF AtHand
<1>10. g.adjIn = InOf(g, D \ Owed(t)) BY <1>1 DEF SeqInv, Incomings
<1>11. PICK G : G = {e.id : e \in group} OBVIOUS
<1>12. InOf(g, G) = {<<e.to, e.id, e.from>> : e \in group}
  <2>1. \A e \in group : Written(g, e) BY <1>2, <1>6
  <2> QED BY <1>11, <2>1, EntriesWritten
<1>13. InOf(g, (D \ Owed(t)) \cup G) = InOf(g, D \ Owed(t)) \cup InOf(g, G) BY DEF InOf
<1>14. (D \ Owed(t)) \cup G = D \ Owed(t)'
  <2>1. \A e \in A : e.id \in D BY <1>6 DEF Written
  <2>2. \A e \in group : e.id \notin {d.id : d \in A \ group} BY <1>6
  <2> QED BY <1>2, <1>5, <1>11, <2>1, <2>2
<1>15. g'.adjIn = InOf(g, D \ Owed(t)') BY <1>3, <1>10, <1>12, <1>13, <1>14
<1>16. DOMAIN g'.edges = D /\ InOf(g', D \ Owed(t)') = InOf(g, D \ Owed(t)') /\ OutOf(g', D) = OutOf(g, D)
  BY <1>3 DEF InOf, OutOf
<1>17. Incomings(t)' BY <1>4, <1>15, <1>16 DEF Incomings
<1> QED BY <1>0, <1>1, <1>3, <1>9, <1>16, <1>17 DEF SeqInv

\* An edge as it was read, with other properties.
LEMMA PutEdgeSame ==
    ASSUME NodeInv, SeqInv, NEW t \in Threads, PutEdgeTx(t)
    PROVE  /\ th[t].step = "putEdge" /\ faults' = faults /\ nextEdgeID' = nextEdgeID
           /\ Moves(t, "log", th[t].entry, {}, {}, 0)
           /\ g'.adjIn = g.adjIn /\ g'.adjOut = g.adjOut /\ g'.nodes = g.nodes /\ DOMAIN g'.edges = DOMAIN g.edges
           /\ \A i \in DOMAIN g.edges : g'.edges[i].from = g.edges[i].from /\ g'.edges[i].to = g.edges[i].to
<1>0. IsGraph(g) BY DEF NodeInv, TypeOK
<1>1. /\ th[t].step = "putEdge" /\ faults' = faults /\ nextEdgeID' = nextEdgeID
      /\ Moves(t, "log", th[t].entry, {}, {}, 0)
  BY PutEdgeTxFacts DEF NodeInv
<1>2. PICK e \in th[t].todo :
        g' = [g EXCEPT !.edges = Put(g.edges, Bind(e.id, [from |-> e.from, to |-> e.to, props |-> e.props]))]
  BY PutEdgeTxFacts DEF NodeInv
<1>3. PICK r : r = [from |-> e.from, to |-> e.to, props |-> e.props] OBVIOUS
<1>4. r.from = e.from /\ r.to = e.to BY <1>3
<1>5. /\ g'.edges = Put(g.edges, Bind(e.id, r)) /\ g'.adjIn = g.adjIn /\ g'.adjOut = g.adjOut
      /\ g'.nodes = g.nodes
  BY <1>0, <1>2, <1>3 DEF IsGraph, GraphFields
<1>6. Written(g, e) BY <1>1 DEF SeqInv, AtHand
<1>7. /\ DOMAIN g'.edges = DOMAIN g.edges
      /\ \A i \in DOMAIN g.edges : g'.edges[i].from = g.edges[i].from /\ g'.edges[i].to = g.edges[i].to
  BY <1>4, <1>5, <1>6 DEF Put, Bind, Written
<1> QED BY <1>1, <1>5, <1>7

\* Such a step keeps the invariant.
LEMMA SeqPutEdge ==
    ASSUME OneCaller, NodeInv, SeqInv, NEW t \in Threads, PutEdgeTx(t)
    PROVE  SeqInv'
<1>0. nextEdgeID \in Nat /\ \A u \in Threads : u = t BY DEF OneCaller, SeqInv
<1>1. /\ th[t].step = "putEdge" /\ faults' = faults /\ nextEdgeID' = nextEdgeID
      /\ Moves(t, "log", th[t].entry, {}, {}, 0)
  BY PutEdgeSame
<1>5. g'.adjIn = g.adjIn /\ g'.adjOut = g.adjOut BY PutEdgeSame
<1>7. /\ DOMAIN g'.edges = DOMAIN g.edges
      /\ \A i \in DOMAIN g.edges : g'.edges[i].from = g.edges[i].from /\ g'.edges[i].to = g.edges[i].to
  BY PutEdgeSame
<1>8. th'[t].step = "log" /\ th'[t].todo = {} BY <1>1 DEF Moves
<1>9. PendingEdges(t)' = {} /\ Owed(t)' = {} /\ Owed(t) = {} BY <1>1, <1>8 DEF PendingEdges, Owed
<1>10. Adding(t)' BY <1>8 DEF Adding
<1>11. AtHand(t)' BY <1>8, <1>9, <1>10 DEF AtHand
<1>12. PICK D : D = DOMAIN g.edges OBVIOUS
<1>13. InOf(g', D) = InOf(g, D) /\ OutOf(g', D) = OutOf(g, D)
  <2>1. \A i \in D : g'.edges[i].from = g.edges[i].from /\ g'.edges[i].to = g.edges[i].to BY <1>7, <1>12
  <2> QED BY <2>1 DEF InOf, OutOf
<1>14. DOMAIN g.edges \ Owed(t) = D /\ DOMAIN g'.edges \ Owed(t)' = D BY <1>7, <1>9, <1>12
<1>15. g.adjIn = InOf(g, D) BY <1>1, <1>14 DEF SeqInv, Incomings
<1>16. Incomings(t)' BY <1>5, <1>8, <1>13, <1>14, <1>15 DEF Incomings
<1> QED BY <1>0, <1>1, <1>5, <1>7, <1>11, <1>12, <1>13, <1>16 DEF SeqInv

\* The first transaction of a deletion: the edge with its outgoing entry, if it is there still.
LEMMA SeqDropEdge ==
    ASSUME OneCaller, NodeInv, SeqInv, NEW t \in Threads, DropEdgeTx(t)
    PROVE  SeqInv'
<1>0. nextEdgeID \in Nat /\ IsGraph(g) /\ \A u \in Threads : u = t BY DEF OneCaller, SeqInv, NodeInv, TypeOK
<1>1. th[t].step = "cascade" /\ faults' = faults /\ nextEdgeID' = nextEdgeID
  BY DropEdgeTxFacts DEF NodeInv
<1>2. PICK x \in th[t].todo :
           /\ g' = DropEdge(g, x[2])
           /\ Moves(t, "dropAdjIn", [op |-> "DeleteEdge", edge |-> x[2]], th[t].todo \ {x}, th[t].adj, th[t].id)
  BY DropEdgeTxFacts DEF NodeInv
<1>3. PICK e : e = x[2] OBVIOUS
<1>4. /\ g'.edges = Drop(g.edges, {e.id}) /\ g'.adjIn = g.adjIn
      /\ g'.adjOut = {a \in g.adjOut : <<a[1], a[2]>> # <<e.from, e.id>>}
  <2>1. g' = DropEdge(g, e) BY <1>2, <1>3
  <2> QED BY <1>0, <2>1, DropEdgeFields
<1>5. PICK D : D = DOMAIN g.edges OBVIOUS
<1>6. /\ DOMAIN g'.edges = D \ {e.id}
      /\ \A i \in D \ {e.id} : g'.edges[i] = g.edges[i]
  BY <1>4, <1>5 DEF Drop
<1>7. /\ th'[t].step = "dropAdjIn" /\ th'[t].todo = th[t].todo \ {x}
      /\ th'[t].entry = [op |-> "DeleteEdge", edge |-> x[2]]
  BY <1>2 DEF Moves
<1>8. th'[t].entry.edge = e BY <1>3, <1>7
<1>9. \A y \in th[t].todo : y[2].id \in D => Written(g, y[2]) BY <1>1, <1>5 DEF SeqInv, AtHand
<1>10. e.id \in D => Written(g, e) BY <1>3, <1>9
<1>11. PendingEdges(t)' = {} /\ Owed(t) = {} BY <1>1, <1>7 DEF PendingEdges, Owed
<1>12. Adding(t)' BY <1>7 DEF Adding
<1>13. \A d : d.id \in D \ {e.id} /\ Written(g, d) => Written(g', d) BY <1>6 DEF Written
<1>14. AtHand(t)' BY <1>6, <1>7, <1>9, <1>11, <1>12, <1>13 DEF AtHand
<1>15. g.adjOut = OutOf(g, D) /\ g.adjIn = InOf(g, D)
  <2>1. D \ Owed(t) = D BY <1>11
  <2> QED BY <1>1, <1>5, <2>1 DEF SeqInv, Incomings
<1>16. g'.adjOut = OutOf(g', D \ {e.id})
  <2>1. ASSUME NEW a \in g'.adjOut PROVE a \in OutOf(g', D \ {e.id})
    <3>1. PICK i \in D : a = <<g.edges[i].from, i, g.edges[i].to>> BY <1>4, <1>15 DEF OutOf
    <3>2. i # e.id
      <4> SUFFICES ASSUME i = e.id PROVE FALSE
        OBVIOUS
      <4>1. g.edges[i].from = e.from BY <1>10 DEF Written
      <4>2. a[1] = e.from /\ a[2] = e.id BY <3>1, <4>1
      <4> QED BY <1>4, <4>2
    <3>3. g'.edges[i] = g.edges[i] BY <1>6, <3>2
    <3> QED BY <3>1, <3>2, <3>3 DEF OutOf
  <2>2. ASSUME NEW a \in OutOf(g', D \ {e.id}) PROVE a \in g'.adjOut
    <3>1. PICK i \in D \ {e.id} : a = <<g'.edges[i].from, i, g'.edges[i].to>> BY DEF OutOf
    <3>2. a = <<g.edges[i].from, i, g.edges[i].to>> BY <1>6, <3>1
    <3>3. a \in g.adjOut BY <1>15, <3>2 DEF OutOf
    <3>4. a[2] # e.id BY <3>2
    <3> QED BY <1>4, <3>3, <3>4
  <2> QED BY <2>1, <2>2
<1>17. InOf(g', D \ {e.id}) \subseteq g'.adjIn
  <2>1. ASSUME NEW a \in InOf(g', D \ {e.id}) PROVE a \in g'.adjIn
    <3>1. PICK i \in D \ {e.id} : a = <<g'.edges[i].to, i, g'.edges[i].from>> BY DEF InOf
    <3>2. a = <<g.edges[i].to, i, g.edges[i].from>> BY <1>6, <3>1
    <3> QED BY <1>4, <1>15, <3>2 DEF InOf
  <2> QED BY <2>1
<1>18. g'.adjIn \subseteq InOf(g', D \ {e.id}) \cup {<<e.to, e.id, e.from>>}
  <2>1. ASSUME NEW a \in g'.adjIn PROVE a \in InOf(g', D \ {e.id}) \cup {<<e.to, e.id, e.from>>}
    <3>1. PICK i \in D : a = <<g.edges[i].to, i, g.edges[i].from>> BY <1>4, <1>15 DEF InOf
    <3>2. CASE i = e.id BY <1>10, <3>1, <3>2 DEF Written
    <3>3. CASE i # e.id
      <4>1. g'.edges[i] = g.edges[i] BY <1>6, <3>3
      <4> QED BY <3>1, <3>3, <4>1 DEF InOf
    <3> QED BY <3>2, <3>3
  <2> QED BY <2>1
<1>19. Incomings(t)' BY <1>6, <1>7, <1>8, <1>17, <1>18 DEF Incomings
<1>20. DOMAIN g'.edges \subseteq 1..nextEdgeID' BY <1>1, <1>5, <1>6 DEF SeqInv
<1> QED BY <1>0, <1>1, <1>6, <1>14, <1>16, <1>19, <1>20 DEF SeqInv

\* The second one: the incoming entry.
LEMMA SeqDropAdjIn ==
    ASSUME OneCaller, NodeInv, SeqInv, NEW t \in Threads, DropAdjInTx(t)
    PROVE  SeqInv'
<1>0. nextEdgeID \in Nat /\ IsGraph(g) /\ \A u \in Threads : u = t BY DEF OneCaller, SeqInv, NodeInv, TypeOK
<1>1. /\ th[t].step = "dropAdjIn" /\ faults' = faults /\ nextEdgeID' = nextEdgeID
      /\ g' = DropAdjIn(g, th[t].entry.edge)
      /\ Moves(t, "log", th[t].entry, th[t].todo, th[t].adj, th[t].id)
  BY DropAdjInTxFacts DEF NodeInv
<1>2. PICK e : e = th[t].entry.edge OBVIOUS
<1>3. /\ g'.edges = g.edges /\ g'.adjOut = g.adjOut
      /\ g'.adjIn = {a \in g.adjIn : <<a[1], a[2]>> # <<e.to, e.id>>}
  <2>1. g' = DropAdjIn(g, e) BY <1>1, <1>2
  <2> QED BY <1>0, <2>1, DropAdjInFields
<1>4. th'[t].step = "log" /\ th'[t].todo = th[t].todo BY <1>1 DEF Moves
<1>5. PendingEdges(t)' = {} /\ Owed(t)' = {} BY <1>4 DEF PendingEdges, Owed
<1>6. Adding(t)' BY <1>4 DEF Adding
<1>7. \A d : Written(g, d)' <=> Written(g, d) BY <1>3 DEF Written
<1>8. \A x \in th[t].todo : x[2].id \in DOMAIN g.edges => Written(g, x[2]) BY <1>1 DEF SeqInv, AtHand
<1>9. AtHand(t)' BY <1>3, <1>4, <1>5, <1>6, <1>7, <1>8 DEF AtHand
<1>10. PICK D : D = DOMAIN g.edges OBVIOUS
<1>11. /\ e.id \notin D /\ InOf(g, D) \subseteq g.adjIn
       /\ g.adjIn \subseteq InOf(g, D) \cup {<<e.to, e.id, e.from>>}
  BY <1>1, <1>2, <1>10 DEF SeqInv, Incomings
<1>12. g'.adjIn = InOf(g, D)
  <2>1. ASSUME NEW a \in InOf(g, D) PROVE a \in g'.adjIn
    <3>1. PICK i \in D : a = <<g.edges[i].to, i, g.edges[i].from>> BY DEF InOf
    <3>2. a[2] # e.id BY <1>11, <3>1
    <3> QED BY <1>3, <1>11, <3>2
  <2>2. ASSUME NEW a \in g'.adjIn PROVE a \in InOf(g, D)
    <3>1. a \in g.adjIn /\ <<a[1], a[2]>> # <<e.to, e.id>> BY <1>3
    <3>2. a # <<e.to, e.id, e.from>> BY <3>1
    <3> QED BY <1>11, <3>1, <3>2
  <2> QED BY <2>1, <2>2
<1>13. DOMAIN g'.edges \ Owed(t)' = D /\ InOf(g', D) = InOf(g, D) /\ OutOf(g', D) = OutOf(g, D)
  BY <1>3, <1>5, <1>10 DEF InOf, OutOf
<1>14. Incomings(t)' BY <1>4, <1>12, <1>13 DEF Incomings
<1> QED BY <1>0, <1>1, <1>3, <1>9, <1>10, <1>13, <1>14 DEF SeqInv

\* The edges found are as they are in the graph.
LEMMA SeqCollects ==
    ASSUME OneCaller, SeqInv, NEW t \in Threads, Collects(t)
    PROVE  SeqInv'
<1>1. \A x \in th'[t].todo : x[2].id \in DOMAIN g.edges => Written(g, x[2])
  <2>1. TAKE x \in th'[t].todo
  <2>2. CASE th[t].step # "idle" /\ x \in th[t].todo BY <2>2 DEF Collects, SeqInv, AtHand
  <2>3. ASSUME NEW i \in DOMAIN g.edges, x[2] = EdgeOf(i) PROVE Written(g, x[2])
    BY <2>3 DEF EdgeOf, Written
  <2> QED BY <2>2, <2>3 DEF Collects
<1> QED BY <1>1, SeqQuiet DEF Collects

\* A step of the one caller.
LEMMA NextSeq ==
    ASSUME OneCaller, NodeInv, SeqInv, NEW t \in Threads,
           Call(t) \/ Continue(t) \/ LogFails(t) \/ WriteFails(t)
    PROVE  SeqInv'
<1>0. IsGraph(g) /\ faults = 0 /\ nextEdgeID \in Nat /\ MaxFaults = 0 /\ Adding(t)
  BY DEF SeqInv, NodeInv, TypeOK, OneCaller, AtHand
<1>1. CASE NodesOnly(t) BY <1>1, SeqQuiet DEF NodesOnly, SameEdges
<1>2. CASE AddEdge(t) BY <1>2, AddEdgeSource, SeqQuiet
<1>3. CASE AddEdgeBatch(t)
  <2>1. th[t].step = "idle" /\ \E E : EdgesBegun(t, E) BY <1>0, <1>3, AddEdgeBatchBegins
  <2> QED BY <2>1, SeqEdgesBegin
<1>4. CASE UpdateEdge(t)
  <2>1. th[t].step = "idle" /\ faults' = faults /\ g' = g /\ nextEdgeID' = nextEdgeID
    BY <1>4, UpdateEdgeFacts DEF NodeInv
  <2>2. PICK id \in DOMAIN g.edges, p \in PropArgs : \E e :
                /\ e = [EdgeOf(id) EXCEPT !.props = Put(EdgeOf(id).props, p)]
                /\ Moves(t, "putEdge", [op |-> "UpdateEdge", id |-> id, props |-> p], {e}, {}, 0)
    BY <1>4, UpdateEdgeFacts DEF NodeInv
  <2>3. PICK d : d = EdgeOf(id) OBVIOUS
  <2>4. d = [x \in EdgeFields |-> d[x]] /\ d.id = id /\ d.from = g.edges[id].from /\ d.to = g.edges[id].to
    BY <2>3 DEF EdgeOf, EdgeFields
  <2>5. PICK e : /\ e = [d EXCEPT !.props = Put(d.props, p)]
                 /\ Moves(t, "putEdge", [op |-> "UpdateEdge", id |-> id, props |-> p], {e}, {}, 0)
    BY <2>2, <2>3
  <2>6. e.id = id /\ e.from = d.from /\ e.to = d.to BY <2>4, <2>5 DEF EdgeFields
  <2>7. Written(g, e) BY <2>4, <2>6 DEF Written
  <2>8. Alone(t) /\ th'[t].step = "putEdge" /\ th'[t].todo = {e} BY <2>5 DEF Moves, Alone
  <2> QED BY <2>1, <2>7, <2>8, SeqQuiet
<1>5. CASE Collects(t) BY <1>5, SeqCollects
<1>6. CASE CheckTo(t)
  <2>1. /\ th[t].step = "checkTo" /\ faults' = faults /\ g' = g
        /\ \/ Alone(t) /\ th'[t].step = "idle" /\ nextEdgeID' = nextEdgeID
           \/ \E e1 : EdgesBegun(t, {e1})
    BY <1>0, <1>6, CheckToBegins
  <2>2. CASE Alone(t) /\ th'[t].step = "idle" /\ nextEdgeID' = nextEdgeID BY <2>1, <2>2, SeqQuiet
  <2>3. CASE \E e1 : EdgesBegun(t, {e1}) BY <2>1, <2>3, SeqEdgesBegin
  <2> QED BY <2>1, <2>2, <2>3
<1>7. CASE PutEdgesTx(t) BY <1>7, SeqPutEdges
<1>8. CASE PutAdjInTx(t) BY <1>8, SeqPutAdjIn
<1>9. CASE PutEdgeTx(t) BY <1>9, SeqPutEdge
<1>10. CASE DropEdgeTx(t) BY <1>10, SeqDropEdge
<1>11. CASE DropAdjInTx(t) BY <1>11, SeqDropAdjIn
<1>12. CASE DropNodeTx(t)
  <2>1. /\ th[t].step = "cascade" /\ faults' = faults /\ nextEdgeID' = nextEdgeID
        /\ Alone(t) /\ th'[t].step \in {"log", "idle"} /\ th'[t].todo = {}
        /\ g' = g \/ g' = DropNode(g, th[t].id)
    BY <1>12, DropNodeTxFacts DEF NodeInv, Moves, Alone
  <2>2. SameEdges(g, g') BY <1>0, <2>1, DropNodeFields DEF SameEdges
  <2> QED BY <2>1, <2>2, SeqQuiet DEF SameEdges
<1>13. CASE Log(t)
  <2>1. /\ th[t].step = "log" /\ g' = g /\ nextEdgeID' = nextEdgeID
        /\ Alone(t) /\ th'[t].step \in {"cascade", "idle"}
        /\ th'[t].step = "cascade" => th'[t].todo = th[t].todo
    BY <1>13, LogFacts DEF NodeInv, Moves, Alone
  <2>2. faults' = faults BY <1>13 DEF Log, Goto
  <2>3. \A x \in th[t].todo : x[2].id \in DOMAIN g.edges => Written(g, x[2]) BY <2>1 DEF SeqInv, AtHand
  <2> QED BY <2>1, <2>2, <2>3, SeqQuiet
<1>14. CASE LogFails(t) \/ WriteFails(t) BY <1>0, <1>14 DEF LogFails, WriteFails
<1> QED BY <1>1, <1>2, <1>3, <1>4, <1>5, <1>6, <1>7, <1>8, <1>9, <1>10, <1>11, <1>12, <1>13, <1>14,
           NodesOnlyFacts, CollectsFacts DEF Call, Continue

\* A database without edges.
LEMMA InitSeqInv == Init => SeqInv
<1> SUFFICES ASSUME Init PROVE SeqInv
    OBVIOUS
<1>1. g.edges = << >> /\ g.adjOut = {} /\ g.adjIn = {} /\ nextEdgeID = 0 /\ faults = 0 BY DEF Init, EmptyGraph
<1>2. DOMAIN g.edges = {} BY <1>1
<1>3. \A t \in Threads : th[t] = Idle BY DEF Init
<1>4. \A t \in Threads : th[t].step = "idle" /\ PendingEdges(t) = {}
  BY <1>3, IdleFields DEF PendingEdges
<1>5. \A t \in Threads : AtHand(t) BY <1>4 DEF AtHand, Adding
<1>6. InOf(g, {}) = {} /\ OutOf(g, {}) = {} BY DEF InOf, OutOf
<1>7. \A t \in Threads : DOMAIN g.edges \ Owed(t) = {} BY <1>2
<1>8. \A t \in Threads : Incomings(t) BY <1>1, <1>4, <1>6, <1>7 DEF Incomings
<1> QED BY <1>1, <1>2, <1>5, <1>6, <1>8 DEF SeqInv

\* The invariant of the adjacency under one caller and no failures.
THEOREM SequentialInvariance ==
    ASSUME OneCaller
    PROVE  Spec => []SeqInv
<1>1. NodeInv /\ SeqInv /\ [Next]_vars => SeqInv'
  <2> SUFFICES ASSUME NodeInv, SeqInv, [Next]_vars PROVE SeqInv'
    OBVIOUS
  <2>1. CASE UNCHANGED vars
    <3>1. g' = g /\ nextEdgeID' = nextEdgeID /\ th' = th /\ faults' = faults BY <2>1 DEF vars
    <3>2. \A t \in Threads : PendingEdges(t)' = PendingEdges(t) /\ Owed(t)' = Owed(t)
      BY <3>1 DEF PendingEdges, Owed
    <3>3. \A t \in Threads : Adding(t)' BY <3>1 DEF SeqInv, AtHand, Adding
    <3>4. \A e : Written(g, e)' <=> Written(g, e) BY <3>1
    <3>5. \A t \in Threads : AtHand(t)' BY <3>1, <3>2, <3>3, <3>4 DEF SeqInv, AtHand
    <3>6. \A t \in Threads : Incomings(t)' BY <3>1, <3>2 DEF SeqInv, Incomings
    <3> QED BY <3>1, <3>5, <3>6 DEF SeqInv
  <2>2. CASE Next BY <2>2, NextSeq DEF Next
  <2> QED BY <2>1, <2>2
<1> QED BY <1>1, InitSeqInv, NodeInvariance, PTL DEF Spec

\* OutEdges and InEdges tell the truth and agree: with one caller at a time and no failed
\* transaction, for any shards and any sequence of calls, the two adjacency buckets list
\* exactly the edges once the call is over.
THEOREM AdjacencyIsExact ==
    ASSUME OneCaller
    PROVE  Spec => []AdjacencyExact
<1>0. PICK t0 : Threads = {t0} BY DEF OneCaller
<1>1. SeqInv => AdjacencyExact
  <2> SUFFICES ASSUME SeqInv, Quiet
               PROVE  g.adjOut = OutOf(g, DOMAIN g.edges) /\ g.adjIn = InOf(g, DOMAIN g.edges)
    BY DEF AdjacencyExact, OutOf, InOf
  <2>1. th[t0].step = "idle" BY <1>0 DEF Quiet
  <2>2. Owed(t0) = {} BY <2>1 DEF Owed
  <2>3. DOMAIN g.edges \ Owed(t0) = DOMAIN g.edges BY <2>2
  <2> QED BY <1>0, <2>1, <2>3 DEF SeqInv, Incomings
<1> QED BY <1>1, SequentialInvariance, PTL

--------------------------------------------------------------------------------
(* The ends of edges, when moreover nobody calls AddEdgeBatch, which looks up no node.   *)

\* A step that leaves the ends of edges alone and takes no node away.
LEMMA EndsKept ==
    ASSUME OneCaller, EndsInv, NEW t \in Threads, DOMAIN g'.edges \subseteq DOMAIN g.edges,
           \A i \in DOMAIN g'.edges : g'.edges[i].from = g.edges[i].from /\ g'.edges[i].to = g.edges[i].to,
           DOMAIN g.nodes \subseteq DOMAIN g'.nodes, Ends(t)'
    PROVE  EndsInv'
<1>1. \A u \in Threads : u = t BY DEF OneCaller
<1> QED BY <1>1 DEF EndsInv

\* New edges have the ends that were looked up.
LEMMA EndsPutEdges ==
    ASSUME OneCaller, NodeInv, SeqInv, EndsInv, NEW t \in Threads, PutEdgesTx(t)
    PROVE  EndsInv'
<1>0. IsGraph(g) /\ \A u \in Threads : u = t BY DEF OneCaller, NodeInv, TypeOK
<1>1. th[t].step = "putEdges" BY PutEdgesTxFacts DEF NodeInv
<1>2. PICK group :
        /\ group \subseteq th[t].todo
        /\ g' = PutAdjIn(PutEdges(g, group), group) \/ g' = PutEdges(g, group)
        /\ th'[t].step \in {"log", "putAdjIn", "putEdges"}
        /\ th'[t].step = "log" => th'[t].id = 0
        /\ th'[t].step = "putEdges" => th'[t].todo \subseteq th[t].todo
  BY PutEdgesTxFacts DEF NodeInv, Moves
<1>3. \A e \in th[t].todo : {e.from, e.to} \subseteq DOMAIN g.nodes BY <1>1 DEF EndsInv, Ends
<1>4. PICK h : h = PutEdges(g, group) OBVIOUS
<1>5. /\ DOMAIN h.edges = DOMAIN g.edges \cup {e.id : e \in group}
      /\ \A e \in group : h.edges[e.id] = [from |-> e.from, to |-> e.to, props |-> e.props]
      /\ \A i \in DOMAIN g.edges \ {e.id : e \in group} : h.edges[i] = g.edges[i]
  <2>1. \A d, e \in group : d.id = e.id => d = e BY <1>1, <1>2 DEF SeqInv, AtHand, Adding
  <2> QED BY <1>0, <1>4, <2>1, PutEdgesValues
<1>6. IsGraph(h) /\ DOMAIN h.nodes = DOMAIN g.nodes BY <1>0, <1>4, PutEdgesFields DEF SameNodes
<1>7. g'.edges = h.edges /\ DOMAIN g'.nodes = DOMAIN g.nodes
  <2>1. PutAdjIn(h, group).edges = h.edges /\ DOMAIN PutAdjIn(h, group).nodes = DOMAIN h.nodes
    BY <1>6, PutAdjInFields DEF SameNodes
  <2> QED BY <1>2, <1>4, <1>6, <2>1
<1>8. ASSUME NEW i \in DOMAIN g'.edges PROVE {g'.edges[i].from, g'.edges[i].to} \subseteq DOMAIN g'.nodes
  <2>1. CASE i \in {e.id : e \in group}
    <3>1. PICK e \in group : i = e.id BY <2>1
    <3>2. PICK r : r = [from |-> e.from, to |-> e.to, props |-> e.props] OBVIOUS
    <3>3. r.from = e.from /\ r.to = e.to BY <3>2
    <3>4. g'.edges[i] = r BY <1>5, <1>7, <3>1, <3>2
    <3> QED BY <1>2, <1>3, <1>7, <3>1, <3>3, <3>4
  <2>2. CASE i \notin {e.id : e \in group}
    <3>1. i \in DOMAIN g.edges /\ g'.edges[i] = g.edges[i] BY <1>5, <1>7, <2>2
    <3> QED BY <1>7, <3>1 DEF EndsInv
  <2> QED BY <2>1, <2>2
<1>9. Ends(t)' BY <1>2, <1>3, <1>7 DEF Ends
<1> QED BY <1>0, <1>8, <1>9 DEF EndsInv

\* The outgoing edges of the node DeleteNode is to delete.
LEMMA EndsDeleteNode ==
    ASSUME OneCaller, NodeInv, SeqInv, EndsInv, NEW t \in Threads, DeleteNode(t)
    PROVE  EndsInv'
<1>1. g' = g BY DEF DeleteNode
<1>2. PICK id \in NodeIDs :
        Moves(t, "collectIn", None,
              {<<"out", EdgeOf(a[2])>> : a \in {b \in g.adjOut : b[1] = id /\ b[2] \in DOMAIN g.edges}},
              {}, id)
  BY DeleteNodeFacts DEF NodeInv
<1>3. /\ th'[t].step = "collectIn" /\ th'[t].id = id
      /\ th'[t].todo = {<<"out", EdgeOf(a[2])>> : a \in {b \in g.adjOut : b[1] = id /\ b[2] \in DOMAIN g.edges}}
  BY <1>2 DEF Moves
<1>4. ASSUME NEW i \in DOMAIN g.edges, g.edges[i].from = id PROVE Listed(t, i)'
  <2>1. PICK a : a = <<g.edges[i].from, i, g.edges[i].to>> OBVIOUS
  <2>2. a \in g.adjOut BY <2>1 DEF SeqInv, OutOf
  <2>3. a[1] = id /\ a[2] = i BY <1>4, <2>1
  <2>4. PICK x : x = <<"out", EdgeOf(i)>> OBVIOUS
  <2>5. x \in th'[t].todo BY <1>3, <2>2, <2>3, <2>4
  <2>6. x[2].id = i BY <2>4 DEF EdgeOf
  <2> QED BY <2>5, <2>6 DEF Listed
<1>5. Ends(t)' BY <1>1, <1>3, <1>4 DEF Ends
<1> QED BY <1>1, <1>5, EndsKept

\* The incoming ones that are looked up.
LEMMA IncomingListed ==
    ASSUME NEW A, NEW a \in A, a[2] \in DOMAIN g.edges
    PROVE  \E x \in Incoming(A) : x[2].id = a[2]
<1>1. PICK x : x = <<"in", EdgeOf(a[2])>> OBVIOUS
<1>2. x \in Incoming(A) BY <1>1 DEF Incoming
<1>3. x[2].id = a[2] BY <1>1 DEF EdgeOf
<1> QED BY <1>2, <1>3

\* With one shard all incoming edges are listed, with several their entries are.
LEMMA EndsCollectIn ==
    ASSUME OneCaller, NodeInv, SeqInv, EndsInv, NEW t \in Threads, CollectIn(t)
    PROVE  EndsInv'
<1>1. g' = g /\ th[t].step = "collectIn" BY DEF CollectIn
<1>2. PICK found :
        /\ found = {a \in g.adjIn : a[1] = th[t].id}
        /\ \/ /\ ShardCount = 1
              /\ Moves(t, "cascade", th[t].entry, th[t].todo \cup Incoming(found), th[t].adj, th[t].id)
           \/ /\ ShardCount # 1
              /\ Moves(t, IF found = {} THEN "cascade" ELSE "fetchIn", th[t].entry, th[t].todo, found, th[t].id)
  BY CollectInFacts DEF NodeInv
<1>3. \A i \in DOMAIN g.edges : g.edges[i].from = th[t].id => Listed(t, i) BY <1>1 DEF EndsInv, Ends
<1>4. \A i \in DOMAIN g.edges : g.edges[i].to = th[t].id =>
         <<g.edges[i].to, i, g.edges[i].from>> \in found
  <2>1. TAKE i \in DOMAIN g.edges
  <2>2. HAVE g.edges[i].to = th[t].id
  <2>3. Owed(t) = {} BY <1>1 DEF Owed
  <2>4. g.adjIn = InOf(g, DOMAIN g.edges \ Owed(t)) BY <1>1 DEF SeqInv, Incomings
  <2>5. PICK a : a = <<g.edges[i].to, i, g.edges[i].from>> OBVIOUS
  <2>6. a \in g.adjIn BY <2>3, <2>4, <2>5 DEF InOf
  <2>7. a[1] = th[t].id BY <2>2, <2>5
  <2> QED BY <1>2, <2>5, <2>6, <2>7
<1>5. CASE Moves(t, "cascade", th[t].entry, th[t].todo \cup Incoming(found), th[t].adj, th[t].id)
  <2>1. th'[t].step = "cascade" /\ th'[t].id = th[t].id /\ th'[t].todo = th[t].todo \cup Incoming(found)
    BY <1>5 DEF Moves
  <2>2. ASSUME NEW i \in DOMAIN g.edges, Touches(g, i, th[t].id) PROVE Listed(t, i)'
    <3>1. CASE g.edges[i].from = th[t].id BY <1>3, <2>1, <3>1 DEF Listed
    <3>2. CASE g.edges[i].to = th[t].id
      <4>1. PICK a : a = <<g.edges[i].to, i, g.edges[i].from>> OBVIOUS
      <4>2. a \in found /\ a[2] = i BY <1>4, <3>2, <4>1
      <4>3. PICK x \in Incoming(found) : x[2].id = i BY <4>2, IncomingListed
      <4> QED BY <2>1, <4>3 DEF Listed
    <3> QED BY <2>2, <3>1, <3>2 DEF Touches
  <2>3. Ends(t)' BY <1>1, <2>1, <2>2 DEF Ends
  <2> QED BY <1>1, <2>3, EndsKept
<1>6. CASE Moves(t, IF found = {} THEN "cascade" ELSE "fetchIn", th[t].entry, th[t].todo, found, th[t].id)
  <2>1. /\ th'[t].step \in {"cascade", "fetchIn"} /\ th'[t].id = th[t].id /\ th'[t].todo = th[t].todo
        /\ th'[t].adj = found
        /\ th'[t].step = "cascade" <=> found = {}
    BY <1>6 DEF Moves
  <2>2. \A i \in DOMAIN g.edges : Listed(t, i) => Listed(t, i)' BY <2>1 DEF Listed
  <2>3. Ends(t)' BY <1>1, <1>3, <1>4, <2>1, <2>2 DEF Ends, Touches
  <2> QED BY <1>1, <2>3, EndsKept
<1> QED BY <1>2, <1>5, <1>6

\* The edges of the entries that are left, one source shard after another.
LEMMA EndsFetchIn ==
    ASSUME OneCaller, NodeInv, SeqInv, EndsInv, NEW t \in Threads, FetchIn(t)
    PROVE  EndsInv'
<1>1. g' = g /\ th[t].step = "fetchIn" BY DEF FetchIn
<1>2. PICK group \in SUBSET th[t].adj :
        Moves(t, IF th[t].adj \ group = {} THEN "cascade" ELSE "fetchIn", th[t].entry,
              th[t].todo \cup Incoming(group), th[t].adj \ group, th[t].id)
  BY FetchInFacts DEF NodeInv
<1>3. /\ th'[t].step \in {"cascade", "fetchIn"} /\ th'[t].id = th[t].id
      /\ th'[t].todo = th[t].todo \cup Incoming(group) /\ th'[t].adj = th[t].adj \ group
      /\ th'[t].step = "cascade" <=> th[t].adj \ group = {}
  BY <1>2 DEF Moves
<1>4. \A i \in DOMAIN g.edges : Listed(t, i) => Listed(t, i)' BY <1>3 DEF Listed
<1>5. \A i \in DOMAIN g.edges : g.edges[i].from = th[t].id => Listed(t, i)' BY <1>1, <1>4 DEF EndsInv, Ends
<1>6. ASSUME NEW i \in DOMAIN g.edges, g.edges[i].to = th[t].id
      PROVE  Listed(t, i)' \/ <<g.edges[i].to, i, g.edges[i].from>> \in th'[t].adj
  <2>1. PICK a : a = <<g.edges[i].to, i, g.edges[i].from>> OBVIOUS
  <2>2. a[2] = i BY <2>1
  <2>3. Listed(t, i) \/ a \in th[t].adj BY <1>1, <1>6, <2>1 DEF EndsInv, Ends
  <2>4. CASE a \in group
    <3>1. PICK x \in Incoming(group) : x[2].id = i BY <2>2, <2>4, IncomingListed
    <3> QED BY <1>3, <3>1 DEF Listed
  <2> QED BY <1>3, <1>4, <2>1, <2>3, <2>4
<1>7. Ends(t)' BY <1>1, <1>3, <1>5, <1>6 DEF Ends, Touches
<1> QED BY <1>1, <1>7, EndsKept

\* One of the listed edges goes; the others stay listed.
LEMMA EndsDropEdge ==
    ASSUME OneCaller, NodeInv, EndsInv, NEW t \in Threads, DropEdgeTx(t)
    PROVE  EndsInv'
<1>0. IsGraph(g) BY DEF NodeInv, TypeOK
<1>1. th[t].step = "cascade" BY DEF DropEdgeTx
<1>2. PICK x \in th[t].todo :
           /\ g' = DropEdge(g, x[2])
           /\ Moves(t, "dropAdjIn", [op |-> "DeleteEdge", edge |-> x[2]], th[t].todo \ {x}, th[t].adj, th[t].id)
  BY DropEdgeTxFacts DEF NodeInv
<1>3. g'.edges = Drop(g.edges, {x[2].id}) /\ DOMAIN g'.nodes = DOMAIN g.nodes
  <2>1. g'.edges = Drop(g.edges, {x[2].id}) /\ SameNodes(g, g') BY <1>0, <1>2, DropEdgeFields
  <2> QED BY <2>1 DEF SameNodes
<1>4. /\ DOMAIN g'.edges = DOMAIN g.edges \ {x[2].id}
      /\ \A i \in DOMAIN g'.edges : g'.edges[i] = g.edges[i]
  BY <1>3 DEF Drop
<1>5. th'[t].step = "dropAdjIn" /\ th'[t].todo = th[t].todo \ {x} /\ th'[t].id = th[t].id BY <1>2 DEF Moves
<1>6. \A i \in DOMAIN g'.edges : Listed(t, i) => Listed(t, i)' BY <1>4, <1>5 DEF Listed
<1>7. Ends(t)' BY <1>1, <1>4, <1>5, <1>6 DEF EndsInv, Ends, Touches
<1> QED BY <1>3, <1>4, <1>7, EndsKept

\* The node goes when no edge has it as an end any more.
LEMMA EndsDropNode ==
    ASSUME OneCaller, NodeInv, EndsInv, NEW t \in Threads, DropNodeTx(t)
    PROVE  EndsInv'
<1>0. IsGraph(g) /\ \A u \in Threads : u = t BY DEF OneCaller, NodeInv, TypeOK
<1>1. /\ th[t].step = "cascade" /\ th[t].todo = {}
      /\ th'[t].step \in {"log", "idle"} /\ th'[t].id = 0
      /\ \/ th[t].id \in DOMAIN g.nodes /\ g' = DropNode(g, th[t].id)
         \/ g' = g
  BY DropNodeTxFacts DEF NodeInv, Moves
<1>2. Ends(t)' BY <1>1 DEF Ends
<1>3. CASE g' = g BY <1>2, <1>3, EndsKept
<1>4. CASE th[t].id \in DOMAIN g.nodes /\ g' = DropNode(g, th[t].id)
  <2>1. th[t].id # 0 BY <1>4, NodesFinite DEF NodeInv, TypeOK
  <2>2. \A i \in DOMAIN g.edges : ~Touches(g, i, th[t].id) BY <1>1, <2>1 DEF EndsInv, Ends, Listed
  <2>3. g'.edges = g.edges /\ DOMAIN g'.nodes = DOMAIN g.nodes \ {th[t].id}
    BY <1>0, <1>4, DropNodeFields DEF SameEdges
  <2>4. \A i \in DOMAIN g'.edges : {g'.edges[i].from, g'.edges[i].to} \subseteq DOMAIN g'.nodes
    BY <2>2, <2>3 DEF EndsInv, Touches
  <2> QED BY <1>0, <1>2, <2>4 DEF EndsInv
<1> QED BY <1>1, <1>3, <1>4

\* A step of the one caller.
LEMMA NextEnds ==
    ASSUME OneCaller, "AddEdgeBatch" \notin Ops, NodeInv, SeqInv, EndsInv, NEW t \in Threads,
           Call(t) \/ Continue(t) \/ LogFails(t) \/ WriteFails(t)
    PROVE  EndsInv'
<1>0. IsGraph(g) /\ faults = 0 /\ nextEdgeID \in Nat /\ MaxFaults = 0 /\ Adding(t)
  BY DEF SeqInv, NodeInv, TypeOK, OneCaller, AtHand
<1>1. CASE NodesOnly(t)
  <2>1. Ends(t)' BY <1>1 DEF NodesOnly, Ends
  <2> QED BY <1>1, <2>1, EndsKept DEF NodesOnly, SameEdges
<1>2. CASE AddEdge(t)
  <2>1. g' = g /\ th'[t].step = "checkTo" /\ \A e \in th'[t].todo : e.from \in DOMAIN g.nodes
    BY <1>2, AddEdgeSource
  <2>2. Ends(t)' BY <2>1 DEF Ends
  <2> QED BY <2>1, <2>2, EndsKept
<1>3. CASE AddEdgeBatch(t) BY <1>3, AddEdgeBatchFacts DEF NodeInv
<1>4. CASE UpdateEdge(t)
  <2>1. g' = g /\ th'[t].step = "putEdge" BY <1>4, UpdateEdgeFacts DEF NodeInv, Moves
  <2>2. Ends(t)' BY <2>1 DEF Ends
  <2> QED BY <2>1, <2>2, EndsKept
<1>5. CASE DeleteEdge(t)
  <2>1. g' = g /\ th'[t].step = "cascade" /\ th'[t].id = 0 BY <1>5, DeleteEdgeFacts DEF NodeInv, Moves
  <2>2. Ends(t)' BY <2>1 DEF Ends
  <2> QED BY <2>1, <2>2, EndsKept
<1>6. CASE DeleteNode(t) BY <1>6, EndsDeleteNode
<1>7. CASE CheckTo(t)
  <2>1. th[t].step = "checkTo" /\ g' = g BY <1>0, <1>7, CheckToBegins
  <2>2. CASE th'[t].step = "idle"
    <3>1. Ends(t)' BY <2>2 DEF Ends
    <3> QED BY <2>1, <3>1, EndsKept
  <2>3. ASSUME NEW e \in th[t].todo, NEW e1, e.to \in DOMAIN g.nodes, e1.from = e.from, e1.to = e.to,
               EdgesBegun(t, {e1})
        PROVE  EndsInv'
    <3>1. e.from \in DOMAIN g.nodes BY <2>1 DEF EndsInv, Ends
    <3>2. th'[t].step = "putEdges" /\ th'[t].todo = {e1} BY <2>3 DEF EdgesBegun
    <3>3. Ends(t)' BY <2>1, <2>3, <3>1, <3>2 DEF Ends
    <3> QED BY <2>1, <3>3, EndsKept
  <2> QED BY <1>0, <1>7, <2>2, <2>3, CheckToBegins
<1>8. CASE PutEdgesTx(t) BY <1>8, EndsPutEdges
<1>9. CASE PutAdjInTx(t)
  <2>1. /\ \E group : g' = PutAdjIn(g, group)
        /\ th'[t].step \in {"log", "putAdjIn"}
        /\ th'[t].step = "log" => th'[t].id = 0
    BY <1>9, PutAdjInTxFacts DEF NodeInv, Moves
  <2>2. g'.edges = g.edges /\ DOMAIN g'.nodes = DOMAIN g.nodes BY <1>0, <2>1, PutAdjInFields DEF SameNodes
  <2>3. Ends(t)' BY <2>1 DEF Ends
  <2> QED BY <2>2, <2>3, EndsKept
<1>10. CASE PutEdgeTx(t)
  <2>1. /\ Moves(t, "log", th[t].entry, {}, {}, 0) /\ g'.nodes = g.nodes /\ DOMAIN g'.edges = DOMAIN g.edges
        /\ \A i \in DOMAIN g.edges : g'.edges[i].from = g.edges[i].from /\ g'.edges[i].to = g.edges[i].to
    BY <1>10, PutEdgeSame
  <2>2. th'[t].step = "log" /\ th'[t].id = 0 BY <2>1 DEF Moves
  <2>3. Ends(t)' BY <2>2 DEF Ends
  <2> QED BY <2>1, <2>3, EndsKept
<1>11. CASE CollectIn(t) BY <1>11, EndsCollectIn
<1>12. CASE FetchIn(t) BY <1>12, EndsFetchIn
<1>13. CASE DropEdgeTx(t) BY <1>13, EndsDropEdge
<1>14. CASE DropAdjInTx(t)
  <2>1. /\ th[t].step = "dropAdjIn" /\ \E e : g' = DropAdjIn(g, e)
        /\ th'[t].step = "log" /\ th'[t].todo = th[t].todo /\ th'[t].id = th[t].id
    BY <1>14, DropAdjInTxFacts DEF NodeInv, Moves
  <2>2. g'.edges = g.edges /\ DOMAIN g'.nodes = DOMAIN g.nodes
    <3>1. PICK e : g' = DropAdjIn(g, e) BY <2>1
    <3>2. g'.edges = g.edges /\ SameNodes(g, g') BY <1>0, <3>1, DropAdjInFields
    <3> QED BY <3>2 DEF SameNodes
  <2>3. \A i : Listed(t, i) => Listed(t, i)' BY <2>1 DEF Listed
  <2>4. Ends(t)' BY <2>1, <2>2, <2>3 DEF EndsInv, Ends, Touches
  <2> QED BY <2>2, <2>4, EndsKept
<1>15. CASE DropNodeTx(t) BY <1>15, EndsDropNode
<1>16. CASE Log(t)
  <2>1. /\ th[t].step = "log" /\ g' = g /\ th'[t].step \in {"cascade", "idle"}
        /\ th'[t].step = "cascade" => th'[t].todo = th[t].todo /\ th'[t].id = th[t].id
    BY <1>16, LogFacts DEF NodeInv, Moves
  <2>2. th'[t].step = "cascade" => \A i : Listed(t, i) => Listed(t, i)' BY <2>1 DEF Listed
  <2>3. Ends(t)' BY <2>1, <2>2 DEF EndsInv, Ends
  <2> QED BY <2>1, <2>3, EndsKept
<1>17. CASE LogFails(t) \/ WriteFails(t) BY <1>0, <1>17 DEF LogFails, WriteFails
<1> QED BY <1>1, <1>2, <1>3, <1>4, <1>5, <1>6, <1>7, <1>8, <1>9, <1>10, <1>11, <1>12, <1>13, <1>14, <1>15,
           <1>16, <1>17, NodesOnlyFacts DEF Call, Continue

\* No edge has a missing end: with one caller at a time, no failed transaction and no
\* AddEdgeBatch, for any shards and any sequence of calls, DeleteNode has deleted all the
\* edges of a node before the node, incoming ones of other shards and self-loops included.
THEOREM EdgesDoNotDangle ==
    ASSUME OneCaller, "AddEdgeBatch" \notin Ops
    PROVE  Spec => []NoDangling
<1>1. Init => EndsInv
  <2> SUFFICES ASSUME Init PROVE EndsInv
    OBVIOUS
  <2>1. g.edges = << >> BY DEF Init, EmptyGraph
  <2>2. DOMAIN g.edges = {} BY <2>1
  <2>3. \A t \in Threads : th[t] = Idle BY DEF Init
  <2>4. \A t \in Threads : th[t].step = "idle" BY <2>3, IdleFields
  <2> QED BY <2>2, <2>4 DEF EndsInv, Ends
<1>2. NodeInv /\ SeqInv /\ EndsInv /\ [Next]_vars => EndsInv'
  <2> SUFFICES ASSUME NodeInv, SeqInv, EndsInv, [Next]_vars PROVE EndsInv'
    OBVIOUS
  <2>1. CASE UNCHANGED vars
    <3>1. g' = g /\ th' = th BY <2>1 DEF vars
    <3>2. \A t \in Threads : \A i : Listed(t, i) => Listed(t, i)' BY <3>1 DEF Listed
    <3>3. \A t \in Threads : Ends(t)' BY <3>1, <3>2 DEF EndsInv, Ends
    <3> QED BY <3>1, <3>3 DEF EndsInv
  <2>2. CASE Next BY <2>2, NextEnds DEF Next
  <2> QED BY <2>1, <2>2
<1>3. EndsInv => NoDangling BY DEF EndsInv, NoDangling
<1> QED BY <1>1, <1>2, <1>3, NodeInvariance, SequentialInvariance, PTL DEF Spec

--------------------------------------------------------------------------------
(* Replaying the log.                                                       *)

\* Where a replay starts.
Start == [g |-> EmptyGraph, failed |-> FALSE]

\* f is what Replay holds after each of the first n entries.
Follows(f, log, n) ==
    f = [k \in 0..n |-> IF k = 0 THEN Start ELSE ApplyNext(f[k - 1], log[k])]

\* The nodes, or edges, of N have IDs of their own; the maps from the IDs.
OwnIDs(N) == \A m, n \in N : m.id = n.id => m = n
NodeMap(N) == [i \in {n.id : n \in N} |-> (CHOOSE n \in N : n.id = i).props]
EdgeMap(E) == [i \in {e.id : e \in E} |->
                 LET e == CHOOSE e \in E : e.id = i
                 IN [from |-> e.from, to |-> e.to, props |-> e.props]]

\* A bucket is a map.
IsMap(m) == m = [k \in DOMAIN m |-> m[k]]

\* An edge has its three fields.
EdgeValue(v) == v = [from |-> v.from, to |-> v.to, props |-> v.props]

\* The buckets are maps, edges have their fields, and the counters are numbers.
GraphOK(h) ==
    /\ IsGraph(h) /\ IsMap(h.nodes) /\ IsMap(h.edges)
    /\ \A i \in DOMAIN h.edges : EdgeValue(h.edges[i])
    /\ h.nodeCount \in 0..UintMod - 1 /\ h.edgeCount \in 0..UintMod - 1

\* The entry of a call that adds nodes tells them apart, and what is left to do is part
\* of it.
AddsNodes(r) ==
    /\ r.entry.op \in NodeAdds /\ IsFiniteSet(r.entry.nodes) /\ OwnIDs(r.entry.nodes)
    /\ r.todo \subseteq r.entry.nodes

\* The same for edges.
AddsEdges(r) ==
    /\ r.entry.op \in EdgeAdds /\ IsFiniteSet(EntryEdges(r.entry)) /\ OwnIDs(EntryEdges(r.entry))
    /\ r.adj \subseteq EntryEdges(r.entry)
    /\ r.step = "putEdges" => r.todo \subseteq EntryEdges(r.entry) /\ r.adj = EntryEdges(r.entry)

\* What the call of the record r has done to the graph x that the log leads to h of.
Ahead(r, x, h) ==
    /\ r.step \in {"idle", "checkTo", "putEdge", "collectIn", "fetchIn", "cascade"} => x = h
    /\ r.step = "putNodes" => AddsNodes(r) /\ x = PutNodes(h, r.entry.nodes \ r.todo)
    /\ r.step = "putEdges" => AddsEdges(r) /\ x = PutEdges(h, EntryEdges(r.entry) \ r.todo)
    /\ r.step = "putAdjIn" =>
         AddsEdges(r) /\ x = PutAdjIn(PutEdges(h, EntryEdges(r.entry)), EntryEdges(r.entry) \ r.adj)
    /\ r.step = "putEdge" =>
         /\ r.entry.op = "UpdateEdge" /\ r.entry.id \in DOMAIN x.edges
         /\ r.todo = {[id |-> r.entry.id, from |-> x.edges[r.entry.id].from, to |-> x.edges[r.entry.id].to,
                       props |-> Put(x.edges[r.entry.id].props, r.entry.props)]}
    /\ r.step = "dropAdjIn" => r.entry.op = "DeleteEdge" /\ x = DropEdge(h, r.entry.edge)
    /\ r.step = "log" => Applicable(h, r.entry) /\ x = applyOp(h, r.entry)

\* The log meets no entry its handler refuses, and the leader's graph is ahead of where it
\* leads by what the call under way has done.
ReplayInv ==
    /\ GraphOK(g) /\ GraphOK(Replay(wal).g) /\ Replay(wal).failed = FALSE
    /\ \A t \in Threads : Ahead(th[t], g, Replay(wal).g)

\* There is such an f for every log, ...
LEMMA FollowsExists ==
    ASSUME NEW log, NEW n \in Nat
    PROVE  \E f : Follows(f, log, n)
<1> DEFINE Bad == {k \in Nat : ~\E f : Follows(f, log, k)}
<1>1. SUFFICES ASSUME Bad # {} PROVE FALSE
  OBVIOUS
<1>2. PICK b \in Bad : \A y \in Bad : b <= y BY <1>1, NatLeast
<1>3. b # 0
  <2>1. Follows([k \in 0..0 |-> Start], log, 0) BY DEF Follows
  <2> QED BY <1>2, <2>1
<1>4. PICK f : Follows(f, log, b - 1) BY <1>2, <1>3
<1> DEFINE h == [k \in 0..b |-> IF k = b THEN ApplyNext(f[b - 1], log[b]) ELSE f[k]]
<1>5. Follows(h, log, b)
  <2>1. \A k \in 0..b - 1 : h[k] = f[k] BY <1>2
  <2>2. ASSUME NEW k \in 0..b PROVE h[k] = IF k = 0 THEN Start ELSE ApplyNext(h[k - 1], log[k])
    <3>1. CASE k = 0 BY <1>3, <1>4, <2>1, <3>1 DEF Follows
    <3>2. CASE k # 0 /\ k # b
      <4>1. k \in 0..b - 1 /\ k - 1 \in 0..b - 1 BY <1>2, <3>2
      <4>2. f[k] = ApplyNext(f[k - 1], log[k]) BY <1>4, <4>1, <3>2 DEF Follows
      <4> QED BY <2>1, <3>2, <4>1, <4>2
    <3>3. CASE k = b BY <1>2, <1>3, <2>1, <3>3
    <3> QED BY <3>1, <3>2, <3>3
  <2> HIDE DEF h
  <2>3. h = [k \in 0..b |-> h[k]] BY DEF h
  <2> QED BY <2>2, <2>3 DEF Follows
<1> QED BY <1>2, <1>5

\* ... and only one, which depends on no entry after the n-th.
LEMMA FollowsUnique ==
    ASSUME NEW log, NEW log1, NEW m \in Nat, NEW n \in Nat, m <= n,
           NEW f, NEW f1, Follows(f, log, m), Follows(f1, log1, n),
           \A k \in 1..m : log1[k] = log[k]
    PROVE  f[m] = f1[m]
<1> DEFINE Bad == {k \in 0..m : f[k] # f1[k]}
<1>1. SUFFICES ASSUME Bad # {} PROVE FALSE
  OBVIOUS
<1>2. Bad \subseteq Nat OBVIOUS
<1>3. PICK b \in Bad : \A y \in Bad : b <= y BY <1>1, <1>2, NatLeast
<1>4. CASE b = 0 BY <1>3, <1>4 DEF Follows
<1>5. CASE b # 0
  <2>1. b - 1 \in 0..m /\ b - 1 \notin Bad BY <1>3, <1>5
  <2>2. f[b - 1] = f1[b - 1] /\ log1[b] = log[b] BY <2>1, <1>5
  <2>3. f[b] = ApplyNext(f[b - 1], log[b]) /\ f1[b] = ApplyNext(f1[b - 1], log1[b])
    BY <1>3, <1>5 DEF Follows
  <2> QED BY <1>3, <2>2, <2>3
<1> QED BY <1>4, <1>5

\* ... and Replay is what it ends with.
LEMMA ReplayFollows ==
    ASSUME NEW S, NEW log \in Seq(S)
    PROVE  \E f : Follows(f, log, Len(log)) /\ Replay(log) = f[Len(log)]
<1> DEFINE f == CHOOSE f : Follows(f, log, Len(log))
<1>1. Follows(f, log, Len(log)) BY FollowsExists
<1>2. Replay(log) = f[Len(log)] BY DEF Replay, Follows, Start
<1> QED BY <1>1, <1>2

\* Replay of the empty log, and of one entry more.
LEMMA ReplayEmpty == Replay(<< >>) = Start
<1>1. << >> \in Seq({}) /\ Len(<< >>) = 0 OBVIOUS
<1>2. PICK f : Follows(f, << >>, 0) /\ Replay(<< >>) = f[0] BY <1>1, ReplayFollows
<1> QED BY <1>2 DEF Follows

\* One entry more is one application more.
LEMMA ReplayAppend ==
    ASSUME NEW S, NEW log \in Seq(S), NEW e
    PROVE  Replay(Append(log, e)) = ApplyNext(Replay(log), e)
<1>1. PICK f : Follows(f, log, Len(log)) /\ Replay(log) = f[Len(log)] BY ReplayFollows
<1>2. PICK T : T = S \cup {e} OBVIOUS
<1>3. log \in Seq(T) /\ e \in T BY <1>2
<1>4. PICK log1 : log1 = Append(log, e) OBVIOUS
<1>5. log1 \in Seq(T) /\ Len(log1) = Len(log) + 1 /\ log1[Len(log) + 1] = e /\ Len(log) \in Nat
      /\ \A k \in 1..Len(log) : log1[k] = log[k]
  BY <1>3, <1>4
<1>6. PICK f1 : Follows(f1, log1, Len(log1)) /\ Replay(log1) = f1[Len(log1)] BY <1>5, ReplayFollows
<1>7. f[Len(log)] = f1[Len(log)]
  <2>1. PICK m \in Nat, n \in Nat : m = Len(log) /\ n = Len(log1) BY <1>5
  <2>2. m <= n /\ Follows(f, log, m) /\ Follows(f1, log1, n) /\ \A k \in 1..m : log1[k] = log[k]
    BY <1>1, <1>5, <1>6, <2>1
  <2>3. f[m] = f1[m] BY <2>2, FollowsUnique
  <2> QED BY <2>1, <2>3
<1>8. f1[Len(log) + 1] = ApplyNext(f1[Len(log)], log1[Len(log) + 1]) BY <1>5, <1>6 DEF Follows
<1> QED BY <1>1, <1>4, <1>5, <1>6, <1>7, <1>8

\* Its outcome is a record of the two.
LEMMA ReplayRecord ==
    ASSUME NEW S, NEW log \in Seq(S)
    PROVE  Replay(log) = [g |-> Replay(log).g, failed |-> Replay(log).failed]
<1>1. PICK f : Follows(f, log, Len(log)) /\ Replay(log) = f[Len(log)] BY ReplayFollows
<1>2. Len(log) \in Nat OBVIOUS
<1>3. PICK n \in Nat : n = Len(log) BY <1>2
<1>4. n \in 0..n BY <1>3
<1>5. f[n] = IF n = 0 THEN Start ELSE ApplyNext(f[n - 1], log[n]) BY <1>1, <1>3, <1>4 DEF Follows
<1>6. \E a, b : f[n] = [g |-> a, failed |-> b] BY <1>5 DEF Start, ApplyNext
<1> QED BY <1>1, <1>3, <1>6

\* The counters: the remainder is the only number of its range at a multiple of the modulus.
LEMMA Remainder ==
    ASSUME NEW m \in Nat \ {0}, NEW q \in Int, NEW r \in 0..m - 1
    PROVE  (q * m + r) % m = r
<1>1. PICK x \in Int : x = q * m + r OBVIOUS
<1>2. PICK q1 \in Int : q1 = x \div m OBVIOUS
<1>3. x = q1 * m + (x % m) /\ x % m \in 0..m - 1 BY <1>2
<1>4. PICK d \in Int : d = q - q1 OBVIOUS
<1>5. d * m = q * m - q1 * m BY <1>4
<1>6. d * m < m /\ -m < d * m BY <1>1, <1>3, <1>5
<1>7. d = 0
  <2>1. ASSUME d >= 1 PROVE FALSE
    <3>1. d * m >= m BY <2>1
    <3> QED BY <1>6, <3>1
  <2>2. ASSUME d <= -1 PROVE FALSE
    <3>1. d * m <= -m BY <2>2
    <3> QED BY <1>6, <3>1
  <2> QED BY <2>1, <2>2
<1> QED BY <1>1, <1>3, <1>4, <1>7

\* Two additions are one.
LEMMA AddTwice ==
    ASSUME NEW n \in Int, NEW a \in Int, NEW b \in Int
    PROVE  Add(Add(n, a), b) = Add(n, a + b) /\ Add(n, a) \in 0..UintMod - 1
<1>1. PICK m \in Nat \ {0} : m = UintMod BY BucketsAssumption
<1>2. PICK x \in Int : x = n + a OBVIOUS
<1>3. PICK q \in Int : q = x \div m OBVIOUS
<1>4. x = q * m + (x % m) /\ x % m \in 0..m - 1 BY <1>3
<1>5. PICK r \in 0..m - 1 : r = x % m BY <1>4
<1>6. PICK y \in Int : y = r + b OBVIOUS
<1>7. PICK q1 \in Int : q1 = y \div m OBVIOUS
<1>8. y = q1 * m + (y % m) /\ y % m \in 0..m - 1 BY <1>7
<1>9. PICK r1 \in 0..m - 1 : r1 = y % m BY <1>8
<1>10. PICK q2 \in Int : q2 = q + q1 OBVIOUS
<1>11. q2 * m = q * m + q1 * m BY <1>10
<1>12. x = q * m + r /\ y = q1 * m + r1 BY <1>4, <1>5, <1>8, <1>9
<1>13. x + b = q2 * m + r1 BY <1>6, <1>11, <1>12
<1>14. (q2 * m + r1) % m = r1 BY Remainder
<1>15. n + (a + b) = x + b BY <1>2
<1>16. Add(n, a) = r /\ Add(r, b) = r1 /\ Add(n, a + b) = r1
  BY <1>1, <1>2, <1>5, <1>6, <1>9, <1>13, <1>14, <1>15 DEF Add
<1> QED BY <1>1, <1>16

\* Buckets are equal when their fields are.
LEMMA GraphEqual ==
    ASSUME NEW a, NEW b, IsGraph(a), IsGraph(b),
           a.nodes = b.nodes, a.labels = b.labels, a.labelIdx = b.labelIdx, a.nodeCount = b.nodeCount,
           a.edges = b.edges, a.adjOut = b.adjOut, a.adjIn = b.adjIn, a.edgeCount = b.edgeCount
    PROVE  a = b
<1>1. \A x \in GraphFields : a[x] = b[x] BY DEF GraphFields
<1> QED BY <1>1 DEF IsGraph

\* Adding nothing to a counter.
LEMMA AddNothing == ASSUME NEW n \in 0..UintMod - 1 PROVE Add(n, 0) = n
<1>1. PICK m \in Nat \ {0} : m = UintMod BY BucketsAssumption
<1>2. n \in 0..m - 1 /\ n + 0 = n BY <1>1
<1>3. (0 * m + n) % m = n BY <1>2, Remainder
<1>4. 0 * m + n = n BY <1>2
<1> QED BY <1>1, <1>2, <1>3, <1>4 DEF Add

\* The nodes of a batch by their IDs.
LEMMA NodeMapValues ==
    ASSUME NEW N, OwnIDs(N)
    PROVE  DOMAIN NodeMap(N) = {n.id : n \in N} /\ \A n \in N : NodeMap(N)[n.id] = n.props
<1>1. ASSUME NEW n \in N PROVE NodeMap(N)[n.id] = n.props
  <2>1. PICK m : m = CHOOSE x \in N : x.id = n.id OBVIOUS
  <2>2. m \in N /\ m.id = n.id BY <2>1
  <2>3. m = n BY <2>2 DEF OwnIDs
  <2> QED BY <2>1, <2>3 DEF NodeMap
<1> QED BY <1>1 DEF NodeMap

\* The same for edges.
LEMMA EdgeMapValues ==
    ASSUME NEW E, OwnIDs(E)
    PROVE  /\ DOMAIN EdgeMap(E) = {e.id : e \in E}
           /\ \A e \in E : EdgeMap(E)[e.id] = [from |-> e.from, to |-> e.to, props |-> e.props]
<1>1. ASSUME NEW e \in E PROVE EdgeMap(E)[e.id] = [from |-> e.from, to |-> e.to, props |-> e.props]
  <2>1. PICK m : m = CHOOSE x \in E : x.id = e.id OBVIOUS
  <2>2. m \in E /\ m.id = e.id BY <2>1
  <2>3. m = e BY <2>2 DEF OwnIDs
  <2> QED BY <2>1, <2>3 DEF EdgeMap
<1> QED BY <1>1 DEF EdgeMap

\* The map c has the keys and the values of a and b.
Joins(a, b, c) ==
    /\ DOMAIN c = DOMAIN a \cup DOMAIN b
    /\ \A k \in DOMAIN a : c[k] = a[k]
    /\ \A k \in DOMAIN b : c[k] = b[k]

\* Putting both is putting one after the other.
LEMMA PutTwice ==
    ASSUME NEW m, NEW a, NEW b, NEW c, Joins(a, b, c)
    PROVE  Put(Put(m, a), b) = Put(m, c)
<1> USE DEF Joins
<1>1. DOMAIN Put(m, a) \cup DOMAIN b = DOMAIN m \cup DOMAIN c BY DEF Put
<1>2. ASSUME NEW k \in DOMAIN m \cup DOMAIN c
      PROVE  (IF k \in DOMAIN b THEN b[k] ELSE Put(m, a)[k]) = IF k \in DOMAIN c THEN c[k] ELSE m[k]
  BY DEF Put
<1> QED BY <1>1, <1>2 DEF Put

\* The maps of two disjoint batches and of both together.
LEMMA NodeMapUnion ==
    ASSUME NEW m, NEW A, NEW B, A \cap B = {}, OwnIDs(A \cup B)
    PROVE  Put(Put(m, NodeMap(A)), NodeMap(B)) = Put(m, NodeMap(A \cup B))
<1>1. OwnIDs(A) /\ OwnIDs(B) BY DEF OwnIDs
<1>2. PICK C : C = A \cup B OBVIOUS
<1>3. OwnIDs(C) BY <1>2
<1>4. /\ DOMAIN NodeMap(A) = {n.id : n \in A} /\ \A n \in A : NodeMap(A)[n.id] = n.props
      /\ DOMAIN NodeMap(B) = {n.id : n \in B} /\ \A n \in B : NodeMap(B)[n.id] = n.props
      /\ DOMAIN NodeMap(C) = {n.id : n \in C} /\ \A n \in C : NodeMap(C)[n.id] = n.props
  BY <1>1, <1>3, NodeMapValues
<1>5. DOMAIN NodeMap(C) = DOMAIN NodeMap(A) \cup DOMAIN NodeMap(B) BY <1>2, <1>4
<1>6. \A k \in DOMAIN NodeMap(B) : NodeMap(C)[k] = NodeMap(B)[k]
  <2>1. TAKE k \in DOMAIN NodeMap(B)
  <2>2. PICK n \in B : k = n.id BY <1>4
  <2> QED BY <1>2, <1>4, <2>2
<1>7. \A k \in DOMAIN NodeMap(A) : NodeMap(C)[k] = NodeMap(A)[k]
  <2>1. TAKE k \in DOMAIN NodeMap(A)
  <2>2. PICK n \in A : k = n.id BY <1>4
  <2> QED BY <1>2, <1>4, <2>2
<1>8. Put(Put(m, NodeMap(A)), NodeMap(B)) = Put(m, NodeMap(C))
  <2>1. Joins(NodeMap(A), NodeMap(B), NodeMap(C)) BY <1>5, <1>6, <1>7 DEF Joins
  <2> QED BY <2>1, PutTwice
<1> QED BY <1>2, <1>8

\* The same for edges.
LEMMA EdgeMapUnion ==
    ASSUME NEW m, NEW A, NEW B, A \cap B = {}, OwnIDs(A \cup B)
    PROVE  Put(Put(m, EdgeMap(A)), EdgeMap(B)) = Put(m, EdgeMap(A \cup B))
<1>1. OwnIDs(A) /\ OwnIDs(B) BY DEF OwnIDs
<1>2. PICK C : C = A \cup B OBVIOUS
<1>3. OwnIDs(C) BY <1>2
<1> DEFINE val(e) == [from |-> e.from, to |-> e.to, props |-> e.props]
<1>4. /\ DOMAIN EdgeMap(A) = {n.id : n \in A} /\ \A n \in A : EdgeMap(A)[n.id] = val(n)
      /\ DOMAIN EdgeMap(B) = {n.id : n \in B} /\ \A n \in B : EdgeMap(B)[n.id] = val(n)
      /\ DOMAIN EdgeMap(C) = {n.id : n \in C} /\ \A n \in C : EdgeMap(C)[n.id] = val(n)
  BY <1>1, <1>3, EdgeMapValues
<1> HIDE DEF val
<1>5. DOMAIN EdgeMap(C) = DOMAIN EdgeMap(A) \cup DOMAIN EdgeMap(B) BY <1>2, <1>4
<1>6. \A k \in DOMAIN EdgeMap(B) : EdgeMap(C)[k] = EdgeMap(B)[k]
  <2>1. TAKE k \in DOMAIN EdgeMap(B)
  <2>2. PICK n \in B : k = n.id BY <1>4
  <2> QED BY <1>2, <1>4, <2>2
<1>7. \A k \in DOMAIN EdgeMap(A) : EdgeMap(C)[k] = EdgeMap(A)[k]
  <2>1. TAKE k \in DOMAIN EdgeMap(A)
  <2>2. PICK n \in A : k = n.id BY <1>4
  <2> QED BY <1>2, <1>4, <2>2
<1>8. Put(Put(m, EdgeMap(A)), EdgeMap(B)) = Put(m, EdgeMap(C))
  <2>1. Joins(EdgeMap(A), EdgeMap(B), EdgeMap(C)) BY <1>5, <1>6, <1>7 DEF Joins
  <2> QED BY <2>1, PutTwice
<1> QED BY <1>2, <1>8

\* Nothing put into a map.
LEMMA PutNothing == ASSUME NEW m, IsMap(m), NEW f, DOMAIN f = {} PROVE Put(m, f) = m
<1>1. DOMAIN m \cup DOMAIN f = DOMAIN m OBVIOUS
<1>2. \A k \in DOMAIN m : (IF k \in DOMAIN f THEN f[k] ELSE m[k]) = m[k] OBVIOUS
<1> QED BY <1>1, <1>2 DEF Put, IsMap

\* Disjoint sets add up.
LEMMA CardUnion ==
    ASSUME NEW A, NEW B, IsFiniteSet(A), IsFiniteSet(B), A \cap B = {}
    PROVE  /\ IsFiniteSet(A \cup B) /\ Cardinality(A) \in Nat /\ Cardinality(B) \in Nat
           /\ Cardinality(A \cup B) = Cardinality(A) + Cardinality(B)
<1>1. /\ IsFiniteSet(A \cup B)
      /\ Cardinality(A \cup B) = Cardinality(A) + Cardinality(B) - Cardinality(A \cap B)
  BY FS_Union
<1>2. Cardinality(A \cap B) = 0 BY FS_EmptySet
<1>3. Cardinality(A) \in Nat /\ Cardinality(B) \in Nat BY FS_CardinalityType
<1> QED BY <1>1, <1>2, <1>3

\* What is put into a map makes a map.
LEMMA PutIsMap == ASSUME NEW m, NEW f PROVE IsMap(Put(m, f)) /\ \A K : IsMap(Drop(m, K))
BY DEF IsMap, Put, Drop

\* The whole of the buckets after a transaction that adds nodes.
LEMMA PutNodesAll ==
    ASSUME NEW h, GraphOK(h), NEW N, IsFiniteSet(N)
    PROVE  /\ GraphOK(PutNodes(h, N)) /\ SameEdges(h, PutNodes(h, N))
           /\ PutNodes(h, N).edgeCount = h.edgeCount
           /\ PutNodes(h, N).nodes = Put(h.nodes, NodeMap(N))
           /\ PutNodes(h, N).labels
                = {p \in h.labels : p[1] \notin {q[1] : q \in LabelPairs(N)}} \cup LabelPairs(N)
           /\ PutNodes(h, N).labelIdx = h.labelIdx \cup LabelPairs(N)
           /\ PutNodes(h, N).nodeCount = Add(h.nodeCount, Cardinality(N))
<1>1. PICK h1 : h1 = PutNodes(h, N) OBVIOUS
<1>2. /\ IsGraph(h1) /\ SameEdges(h, h1)
      /\ h1.labels = {p \in h.labels : p[1] \notin {q[1] : q \in LabelPairs(N)}} \cup LabelPairs(N)
      /\ h1.labelIdx = h.labelIdx \cup LabelPairs(N)
      /\ h1.nodeCount = Add(h.nodeCount, Cardinality(N))
  BY <1>1, PutNodesFields DEF GraphOK
<1>3. h1.nodes = Put(h.nodes, NodeMap(N)) /\ h1.edgeCount = h.edgeCount
  <2> DEFINE a == Put(h.nodes, NodeMap(N))
  <2> DEFINE b == {p \in h.labels : p[1] \notin {q[1] : q \in LabelPairs(N)}} \cup LabelPairs(N)
  <2> DEFINE c == h.labelIdx \cup LabelPairs(N)
  <2> DEFINE d == Add(h.nodeCount, Cardinality(N))
  <2>1. h1 = [h EXCEPT !.nodes = a, !.labels = b, !.labelIdx = c, !.nodeCount = d]
    BY <1>1 DEF PutNodes, NodeMap
  <2> HIDE DEF a, b, c, d
  <2>2. h1.nodes = a /\ h1.edgeCount = h.edgeCount BY <2>1 DEF GraphOK, IsGraph, GraphFields
  <2> QED BY <2>2 DEF a
<1>4. IsMap(h1.nodes) BY <1>3, PutIsMap
<1>5. h1.nodeCount \in 0..UintMod - 1
  <2>1. Cardinality(N) \in Int /\ h.nodeCount \in Int BY FS_CardinalityType DEF GraphOK
  <2> QED BY <1>2, <2>1, AddTwice
<1>6. GraphOK(h1) BY <1>2, <1>3, <1>4, <1>5 DEF GraphOK, SameEdges
<1> QED BY <1>1, <1>2, <1>3, <1>6

\* And edges.
LEMMA PutEdgesAll ==
    ASSUME NEW h, GraphOK(h), NEW E, IsFiniteSet(E), OwnIDs(E)
    PROVE  /\ GraphOK(PutEdges(h, E)) /\ SameNodes(h, PutEdges(h, E))
           /\ PutEdges(h, E).nodes = h.nodes /\ PutEdges(h, E).adjIn = h.adjIn
           /\ PutEdges(h, E).edges = Put(h.edges, EdgeMap(E))
           /\ PutEdges(h, E).adjOut = h.adjOut \cup {<<e.from, e.id, e.to>> : e \in E}
           /\ PutEdges(h, E).edgeCount = Add(h.edgeCount, Cardinality(E))
<1>1. PICK h1 : h1 = PutEdges(h, E) OBVIOUS
<1>2. /\ IsGraph(h1) /\ SameNodes(h, h1) /\ h1.adjIn = h.adjIn
      /\ h1.adjOut = h.adjOut \cup {<<e.from, e.id, e.to>> : e \in E}
  BY <1>1, PutEdgesFields DEF GraphOK
<1>3. /\ h1.nodes = h.nodes /\ h1.edges = Put(h.edges, EdgeMap(E))
      /\ h1.edgeCount = Add(h.edgeCount, Cardinality(E))
  <2> DEFINE a == Put(h.edges, EdgeMap(E))
  <2> DEFINE b == h.adjOut \cup {<<e.from, e.id, e.to>> : e \in E}
  <2> DEFINE d == Add(h.edgeCount, Cardinality(E))
  <2>1. h1 = [h EXCEPT !.edges = a, !.adjOut = b, !.edgeCount = d] BY <1>1 DEF PutEdges, EdgeMap
  <2> HIDE DEF a, b, d
  <2>2. h1.edges = a /\ h1.nodes = h.nodes /\ h1.edgeCount = d BY <2>1 DEF GraphOK, IsGraph, GraphFields
  <2> QED BY <2>2 DEF a, d
<1>4. IsMap(h1.edges) BY <1>3, PutIsMap
<1>5. h1.edgeCount \in 0..UintMod - 1
  <2>1. Cardinality(E) \in Int /\ h.edgeCount \in Int BY FS_CardinalityType DEF GraphOK
  <2> QED BY <1>3, <2>1, AddTwice
<1>6. \A i \in DOMAIN h1.edges : EdgeValue(h1.edges[i])
  <2>1. TAKE i \in DOMAIN h1.edges
  <2>2. DOMAIN EdgeMap(E) = {e.id : e \in E} BY EdgeMapValues
  <2>3. CASE i \in DOMAIN EdgeMap(E)
    <3>1. PICK e \in E : i = e.id BY <2>2, <2>3
    <3>2. EdgeMap(E)[i] = [from |-> e.from, to |-> e.to, props |-> e.props] BY <3>1, EdgeMapValues
    <3>3. h1.edges[i] = EdgeMap(E)[i] BY <1>3, <2>3 DEF Put
    <3> QED BY <3>2, <3>3 DEF EdgeValue
  <2>4. CASE i \notin DOMAIN EdgeMap(E)
    <3>1. i \in DOMAIN h.edges /\ h1.edges[i] = h.edges[i] BY <1>3, <2>4 DEF Put
    <3> QED BY <3>1 DEF GraphOK
  <2> QED BY <2>3, <2>4
<1>7. GraphOK(h1) BY <1>2, <1>3, <1>4, <1>5, <1>6 DEF GraphOK, SameNodes
<1> QED BY <1>1, <1>2, <1>3, <1>7

\* And adj_in entries.
LEMMA PutAdjInAll ==
    ASSUME NEW h, GraphOK(h), NEW E
    PROVE  /\ GraphOK(PutAdjIn(h, E)) /\ SameNodes(h, PutAdjIn(h, E))
           /\ PutAdjIn(h, E).nodes = h.nodes /\ PutAdjIn(h, E).edges = h.edges
           /\ PutAdjIn(h, E).adjOut = h.adjOut /\ PutAdjIn(h, E).edgeCount = h.edgeCount
           /\ PutAdjIn(h, E).adjIn = h.adjIn \cup {<<x.to, x.id, x.from>> : x \in E}
<1>1. PICK h1 : h1 = PutAdjIn(h, E) OBVIOUS
<1>2. /\ IsGraph(h1) /\ SameNodes(h, h1) /\ h1.edges = h.edges /\ h1.adjOut = h.adjOut
      /\ h1.adjIn = h.adjIn \cup {<<x.to, x.id, x.from>> : x \in E}
  BY <1>1, PutAdjInFields DEF GraphOK
<1>3. h1.nodes = h.nodes /\ h1.edgeCount = h.edgeCount
  BY <1>1 DEF PutAdjIn, GraphOK, IsGraph, GraphFields
<1>4. GraphOK(h1) BY <1>2, <1>3 DEF GraphOK, SameNodes
<1> QED BY <1>1, <1>2, <1>3, <1>4

\* Nothing added.
LEMMA PutNone ==
    ASSUME NEW h, GraphOK(h)
    PROVE  PutNodes(h, {}) = h /\ PutEdges(h, {}) = h /\ PutAdjIn(h, {}) = h
<1>1. IsFiniteSet({}) /\ Cardinality({}) = 0 BY FS_EmptySet
<1>2. OwnIDs({}) BY DEF OwnIDs
<1>3. Add(h.nodeCount, 0) = h.nodeCount /\ Add(h.edgeCount, 0) = h.edgeCount
  BY AddNothing DEF GraphOK
<1>4. LabelPairs({}) = {} BY DEF LabelPairs
<1>5. Put(h.nodes, NodeMap({})) = h.nodes /\ Put(h.edges, EdgeMap({})) = h.edges
  <2>1. DOMAIN NodeMap({}) = {} /\ DOMAIN EdgeMap({}) = {} BY DEF NodeMap, EdgeMap
  <2> QED BY <2>1, PutNothing DEF GraphOK
<1>6. PutNodes(h, {}) = h
  <2>1. PICK h1 : h1 = PutNodes(h, {}) OBVIOUS
  <2>2. /\ GraphOK(h1) /\ SameEdges(h, h1) /\ h1.edgeCount = h.edgeCount /\ h1.nodes = h.nodes
        /\ h1.labels = {p \in h.labels : p[1] \notin {q[1] : q \in LabelPairs({})}} \cup LabelPairs({})
        /\ h1.labelIdx = h.labelIdx \cup LabelPairs({}) /\ h1.nodeCount = h.nodeCount
    BY <1>1, <1>3, <1>5, <2>1, PutNodesAll
  <2>3. h1.labels = h.labels /\ h1.labelIdx = h.labelIdx BY <1>4, <2>2
  <2> QED BY <2>1, <2>2, <2>3, GraphEqual DEF GraphOK, SameEdges
<1>7. PutEdges(h, {}) = h
  <2>1. PICK h1 : h1 = PutEdges(h, {}) OBVIOUS
  <2>2. /\ GraphOK(h1) /\ SameNodes(h, h1) /\ h1.edgeCount = h.edgeCount /\ h1.nodes = h.nodes
        /\ h1.edges = h.edges /\ h1.adjIn = h.adjIn
        /\ h1.adjOut = h.adjOut \cup {<<e.from, e.id, e.to>> : e \in {}}
    BY <1>1, <1>2, <1>3, <1>5, <2>1, PutEdgesAll
  <2>3. h1.adjOut = h.adjOut BY <2>2
  <2> QED BY <2>1, <2>2, <2>3, GraphEqual DEF GraphOK, SameNodes
<1>8. PutAdjIn(h, {}) = h
  <2>1. PICK h1 : h1 = PutAdjIn(h, {}) OBVIOUS
  <2>2. /\ GraphOK(h1) /\ SameNodes(h, h1) /\ h1.edgeCount = h.edgeCount /\ h1.nodes = h.nodes
        /\ h1.edges = h.edges /\ h1.adjOut = h.adjOut
        /\ h1.adjIn = h.adjIn \cup {<<e.to, e.id, e.from>> : e \in {}}
    BY <2>1, PutAdjInAll
  <2>3. h1.adjIn = h.adjIn BY <2>2
  <2> QED BY <2>1, <2>2, <2>3, GraphEqual DEF GraphOK, SameNodes
<1> QED BY <1>6, <1>7, <1>8

\* Two batches one after the other are one.
LEMMA PutNodesTwice ==
    ASSUME NEW h, GraphOK(h), NEW A, NEW B, IsFiniteSet(A), IsFiniteSet(B), A \cap B = {}, OwnIDs(A \cup B)
    PROVE  PutNodes(PutNodes(h, A), B) = PutNodes(h, A \cup B)
<1>1. PICK a, b, C : a = PutNodes(h, A) /\ b = PutNodes(a, B) /\ C = A \cup B OBVIOUS
<1>2. PICK c : c = PutNodes(h, C) OBVIOUS
<1>3. /\ IsFiniteSet(C) /\ Cardinality(C) = Cardinality(A) + Cardinality(B)
      /\ Cardinality(A) \in Int /\ Cardinality(B) \in Int
  BY <1>1, CardUnion
<1> DEFINE K(N) == {q[1] : q \in LabelPairs(N)}
<1>4. /\ GraphOK(a) /\ SameEdges(h, a) /\ a.edgeCount = h.edgeCount /\ a.nodes = Put(h.nodes, NodeMap(A))
      /\ a.labels = {p \in h.labels : p[1] \notin K(A)} \cup LabelPairs(A)
      /\ a.labelIdx = h.labelIdx \cup LabelPairs(A) /\ a.nodeCount = Add(h.nodeCount, Cardinality(A))
  BY <1>1, PutNodesAll
<1>5. /\ GraphOK(b) /\ SameEdges(a, b) /\ b.edgeCount = a.edgeCount /\ b.nodes = Put(a.nodes, NodeMap(B))
      /\ b.labels = {p \in a.labels : p[1] \notin K(B)} \cup LabelPairs(B)
      /\ b.labelIdx = a.labelIdx \cup LabelPairs(B) /\ b.nodeCount = Add(a.nodeCount, Cardinality(B))
  BY <1>1, <1>4, PutNodesAll
<1>6. /\ GraphOK(c) /\ SameEdges(h, c) /\ c.edgeCount = h.edgeCount /\ c.nodes = Put(h.nodes, NodeMap(C))
      /\ c.labels = {p \in h.labels : p[1] \notin K(C)} \cup LabelPairs(C)
      /\ c.labelIdx = h.labelIdx \cup LabelPairs(C) /\ c.nodeCount = Add(h.nodeCount, Cardinality(C))
  BY <1>2, <1>3, PutNodesAll
<1>7. b.nodes = c.nodes BY <1>1, <1>4, <1>5, <1>6, NodeMapUnion
<1>8. b.nodeCount = c.nodeCount
  <2>1. PICK n \in Int, x \in Int, y \in Int : n = h.nodeCount /\ x = Cardinality(A) /\ y = Cardinality(B)
    BY <1>3 DEF GraphOK
  <2>2. Add(Add(n, x), y) = Add(n, x + y) BY AddTwice
  <2> QED BY <1>3, <1>4, <1>5, <1>6, <2>1, <2>2
<1>9. LabelPairs(C) = LabelPairs(A) \cup LabelPairs(B) BY <1>1 DEF LabelPairs
<1>10. K(C) = K(A) \cup K(B) BY <1>9
<1>11. \A p \in LabelPairs(A) : p[1] \notin K(B)
  <2>1. ASSUME NEW p \in LabelPairs(A), NEW q \in LabelPairs(B), p[1] = q[1] PROVE FALSE
    <3>1. PICK m \in A : p \in {m.id} \X m.labels BY DEF LabelPairs
    <3>2. PICK n \in B : q \in {n.id} \X n.labels BY DEF LabelPairs
    <3>3. m.id = n.id BY <2>1, <3>1, <3>2
    <3>4. m = n BY <3>3 DEF OwnIDs
    <3> QED BY <3>4
  <2> QED BY <2>1
<1> HIDE DEF K
<1>12. b.labels = c.labels BY <1>4, <1>5, <1>6, <1>9, <1>10, <1>11
<1>13. b.labelIdx = c.labelIdx BY <1>4, <1>5, <1>6, <1>9
<1>14. b = c BY <1>4, <1>5, <1>6, <1>7, <1>8, <1>12, <1>13, GraphEqual DEF GraphOK, SameEdges
<1> QED BY <1>1, <1>2, <1>14

\* The same for edges, ...
LEMMA PutEdgesTwice ==
    ASSUME NEW h, GraphOK(h), NEW A, NEW B, IsFiniteSet(A), IsFiniteSet(B), A \cap B = {}, OwnIDs(A \cup B)
    PROVE  PutEdges(PutEdges(h, A), B) = PutEdges(h, A \cup B)
<1>1. PICK a, b, C : a = PutEdges(h, A) /\ b = PutEdges(a, B) /\ C = A \cup B OBVIOUS
<1>2. PICK c : c = PutEdges(h, C) OBVIOUS
<1>3. /\ IsFiniteSet(C) /\ Cardinality(C) = Cardinality(A) + Cardinality(B)
      /\ Cardinality(A) \in Int /\ Cardinality(B) \in Int
      /\ OwnIDs(A) /\ OwnIDs(B) /\ OwnIDs(C)
  BY <1>1, CardUnion DEF OwnIDs
<1> DEFINE O(E) == {<<e.from, e.id, e.to>> : e \in E}
<1>4. /\ GraphOK(a) /\ SameNodes(h, a) /\ a.nodes = h.nodes /\ a.adjIn = h.adjIn
      /\ a.edges = Put(h.edges, EdgeMap(A)) /\ a.adjOut = h.adjOut \cup O(A)
      /\ a.edgeCount = Add(h.edgeCount, Cardinality(A))
  BY <1>1, <1>3, PutEdgesAll
<1>5. /\ GraphOK(b) /\ SameNodes(a, b) /\ b.nodes = a.nodes /\ b.adjIn = a.adjIn
      /\ b.edges = Put(a.edges, EdgeMap(B)) /\ b.adjOut = a.adjOut \cup O(B)
      /\ b.edgeCount = Add(a.edgeCount, Cardinality(B))
  BY <1>1, <1>3, <1>4, PutEdgesAll
<1>6. /\ GraphOK(c) /\ SameNodes(h, c) /\ c.nodes = h.nodes /\ c.adjIn = h.adjIn
      /\ c.edges = Put(h.edges, EdgeMap(C)) /\ c.adjOut = h.adjOut \cup O(C)
      /\ c.edgeCount = Add(h.edgeCount, Cardinality(C))
  BY <1>2, <1>3, PutEdgesAll
<1>7. b.edges = c.edges BY <1>1, <1>4, <1>5, <1>6, EdgeMapUnion
<1>8. b.edgeCount = c.edgeCount
  <2>1. PICK n \in Int, x \in Int, y \in Int : n = h.edgeCount /\ x = Cardinality(A) /\ y = Cardinality(B)
    BY <1>3 DEF GraphOK
  <2>2. Add(Add(n, x), y) = Add(n, x + y) BY AddTwice
  <2> QED BY <1>3, <1>4, <1>5, <1>6, <2>1, <2>2
<1>9. O(C) = O(A) \cup O(B) BY <1>1
<1> HIDE DEF O
<1>10. b.adjOut = c.adjOut BY <1>4, <1>5, <1>6, <1>9
<1>11. b = c BY <1>4, <1>5, <1>6, <1>7, <1>8, <1>10, GraphEqual DEF GraphOK, SameNodes
<1> QED BY <1>1, <1>2, <1>11

\* ... and adj_in entries.
LEMMA PutAdjInTwice ==
    ASSUME NEW h, GraphOK(h), NEW A, NEW B
    PROVE  PutAdjIn(PutAdjIn(h, A), B) = PutAdjIn(h, A \cup B)
<1>1. PICK a, b, C : a = PutAdjIn(h, A) /\ b = PutAdjIn(a, B) /\ C = A \cup B OBVIOUS
<1>2. PICK c : c = PutAdjIn(h, C) OBVIOUS
<1> DEFINE I(E) == {<<e.to, e.id, e.from>> : e \in E}
<1>3. /\ GraphOK(a) /\ SameNodes(h, a) /\ a.nodes = h.nodes /\ a.edges = h.edges /\ a.adjOut = h.adjOut
      /\ a.edgeCount = h.edgeCount /\ a.adjIn = h.adjIn \cup I(A)
  BY <1>1, PutAdjInAll
<1>4. /\ GraphOK(b) /\ SameNodes(a, b) /\ b.nodes = a.nodes /\ b.edges = a.edges /\ b.adjOut = a.adjOut
      /\ b.edgeCount = a.edgeCount /\ b.adjIn = a.adjIn \cup I(B)
  BY <1>1, <1>3, PutAdjInAll
<1>5. /\ GraphOK(c) /\ SameNodes(h, c) /\ c.nodes = h.nodes /\ c.edges = h.edges /\ c.adjOut = h.adjOut
      /\ c.edgeCount = h.edgeCount /\ c.adjIn = h.adjIn \cup I(C)
  BY <1>2, PutAdjInAll
<1>6. I(C) = I(A) \cup I(B) BY <1>1
<1> HIDE DEF I
<1>7. b.adjIn = c.adjIn BY <1>3, <1>4, <1>5, <1>6
<1>8. b = c BY <1>3, <1>4, <1>5, <1>7, GraphEqual DEF GraphOK, SameNodes
<1> QED BY <1>1, <1>2, <1>8

\* The other transactions keep the buckets in shape.
LEMMA OtherTxOK ==
    ASSUME NEW h, GraphOK(h)
    PROVE  /\ \A id, p : id \in DOMAIN h.nodes => GraphOK(MergeNode(h, id, p))
           /\ \A id, p : GraphOK(SetNode(h, id, p))
           /\ \A id, L : GraphOK(AddLabels(h, id, L)) /\ GraphOK(RemoveLabels(h, id, L))
           /\ \A id : GraphOK(DropNode(h, id))
           /\ \A e : GraphOK(DropEdge(h, e)) /\ GraphOK(DropAdjIn(h, e))
<1>0. IsGraph(h) BY DEF GraphOK
<1>1. ASSUME NEW h1, IsGraph(h1), IsMap(h1.nodes), h1.edges = h.edges,
             h1.edgeCount = h.edgeCount, h1.nodeCount = h.nodeCount \/ h1.nodeCount = Add(h.nodeCount, -1)
      PROVE  GraphOK(h1)
  <2>1. PICK n \in Int : n = h.nodeCount BY DEF GraphOK
  <2>2. Add(n, -1) \in 0..UintMod - 1 BY AddTwice
  <2>3. h1.nodeCount \in 0..UintMod - 1 BY <1>1, <2>1, <2>2 DEF GraphOK
  <2> QED BY <1>1, <2>3 DEF GraphOK
<1>2. ASSUME NEW id, NEW p, id \in DOMAIN h.nodes PROVE GraphOK(MergeNode(h, id, p))
  <2>1. PICK m : m = [h.nodes EXCEPT ![id] = Put(h.nodes[id], p)] OBVIOUS
  <2>2. PICK h1 : h1 = [h EXCEPT !.nodes = m] OBVIOUS
  <2>3. MergeNode(h, id, p) = h1 BY <1>0, <2>1, <2>2 DEF MergeNode, IsGraph, GraphFields
  <2>4. IsMap(m) BY <2>1 DEF IsMap
  <2>5. /\ IsGraph(h1) /\ h1.nodes = m /\ h1.edges = h.edges /\ h1.edgeCount = h.edgeCount
        /\ h1.nodeCount = h.nodeCount
    BY <1>0, <2>2 DEF IsGraph, GraphFields
  <2> QED BY <1>1, <2>3, <2>4, <2>5
<1>3. ASSUME NEW id, NEW p PROVE GraphOK(SetNode(h, id, p))
  <2>1. PICK m : m = Put(h.nodes, Bind(id, p)) OBVIOUS
  <2>2. PICK h1 : h1 = [h EXCEPT !.nodes = m] OBVIOUS
  <2>3. SetNode(h, id, p) = h1 BY <2>1, <2>2 DEF SetNode
  <2>4. IsMap(m) BY <2>1, PutIsMap
  <2>5. /\ IsGraph(h1) /\ h1.nodes = m /\ h1.edges = h.edges /\ h1.edgeCount = h.edgeCount
        /\ h1.nodeCount = h.nodeCount
    BY <1>0, <2>2 DEF IsGraph, GraphFields
  <2> QED BY <1>1, <2>3, <2>4, <2>5
<1>4. ASSUME NEW a, NEW b PROVE GraphOK([h EXCEPT !.labels = a, !.labelIdx = b])
  <2>1. PICK h1 : h1 = [h EXCEPT !.labels = a, !.labelIdx = b] OBVIOUS
  <2>2. /\ IsGraph(h1) /\ h1.nodes = h.nodes /\ h1.edges = h.edges /\ h1.edgeCount = h.edgeCount
        /\ h1.nodeCount = h.nodeCount
    BY <1>0, <2>1 DEF IsGraph, GraphFields
  <2>3. IsMap(h1.nodes) BY <2>2 DEF GraphOK
  <2> QED BY <1>1, <2>1, <2>2, <2>3
<1>5. ASSUME NEW id, NEW L PROVE GraphOK(AddLabels(h, id, L)) /\ GraphOK(RemoveLabels(h, id, L))
  <2>1. PICK P : P = {id} \X L OBVIOUS
  <2>2. AddLabels(h, id, L) = [h EXCEPT !.labels = h.labels \cup P, !.labelIdx = h.labelIdx \cup P]
    BY <2>1 DEF AddLabels
  <2>3. RemoveLabels(h, id, L) = [h EXCEPT !.labels = h.labels \ P, !.labelIdx = h.labelIdx \ P]
    BY <2>1 DEF RemoveLabels
  <2>4. PICK a, b, c, d : a = h.labels \cup P /\ b = h.labelIdx \cup P /\ c = h.labels \ P /\ d = h.labelIdx \ P
    OBVIOUS
  <2>5. GraphOK([h EXCEPT !.labels = a, !.labelIdx = b]) /\ GraphOK([h EXCEPT !.labels = c, !.labelIdx = d])
    BY <1>4
  <2> QED BY <2>2, <2>3, <2>4, <2>5
<1>6. ASSUME NEW id PROVE GraphOK(DropNode(h, id))
  <2>1. PICK m, a, b, n : /\ m = Drop(h.nodes, {id}) /\ a = h.labels \ {p \in h.labels : p[1] = id}
                          /\ b = h.labelIdx \ {p \in h.labels : p[1] = id} /\ n = Add(h.nodeCount, -1)
    OBVIOUS
  <2>2. PICK h1 : h1 = [h EXCEPT !.nodes = m, !.labels = a, !.labelIdx = b, !.nodeCount = n] OBVIOUS
  <2>3. DropNode(h, id) = h1 BY <2>1, <2>2 DEF DropNode
  <2>4. IsMap(m) BY <2>1, PutIsMap
  <2>5. /\ IsGraph(h1) /\ h1.nodes = m /\ h1.edges = h.edges /\ h1.edgeCount = h.edgeCount /\ h1.nodeCount = n
    BY <1>0, <2>2 DEF IsGraph, GraphFields
  <2>6. IsMap(h1.nodes) /\ h1.nodeCount = Add(h.nodeCount, -1) BY <2>1, <2>4, <2>5
  <2>7. GraphOK(h1) BY <1>1, <2>5, <2>6
  <2> QED BY <2>3, <2>7
<1>7. ASSUME NEW e PROVE GraphOK(DropEdge(h, e))
  <2>1. PICK m, a, n : /\ m = Drop(h.edges, {e.id}) /\ n = Add(h.edgeCount, -1)
                       /\ a = {x \in h.adjOut : <<x[1], x[2]>> # <<e.from, e.id>>}
    OBVIOUS
  <2>2. PICK h1 : h1 = [h EXCEPT !.edges = m, !.adjOut = a, !.edgeCount = n] OBVIOUS
  <2>3. DropEdge(h, e) = h1 BY <2>1, <2>2 DEF DropEdge
  <2>4. IsMap(m) BY <2>1, PutIsMap
  <2>5. /\ IsGraph(h1) /\ h1.nodes = h.nodes /\ h1.edges = m /\ h1.edgeCount = n /\ h1.nodeCount = h.nodeCount
    BY <1>0, <2>2 DEF IsGraph, GraphFields
  <2>6. PICK c \in Int : c = h.edgeCount BY DEF GraphOK
  <2>7. Add(c, -1) \in 0..UintMod - 1 BY AddTwice
  <2>8. \A i \in DOMAIN m : EdgeValue(m[i]) BY <2>1 DEF Drop, GraphOK
  <2>9. n \in 0..UintMod - 1 BY <2>1, <2>6, <2>7
  <2> QED BY <2>3, <2>4, <2>5, <2>8, <2>9 DEF GraphOK
<1>8. ASSUME NEW e PROVE GraphOK(DropAdjIn(h, e))
  <2>1. PICK a : a = {x \in h.adjIn : <<x[1], x[2]>> # <<e.to, e.id>>} OBVIOUS
  <2>2. PICK h1 : h1 = [h EXCEPT !.adjIn = a] OBVIOUS
  <2>3. DropAdjIn(h, e) = h1 BY <2>1, <2>2 DEF DropAdjIn
  <2>4. /\ IsGraph(h1) /\ h1.nodes = h.nodes /\ h1.edges = h.edges /\ h1.edgeCount = h.edgeCount
        /\ h1.nodeCount = h.nodeCount
    BY <1>0, <2>2 DEF IsGraph, GraphFields
  <2> QED BY <2>3, <2>4 DEF GraphOK
<1> QED BY <1>2, <1>3, <1>5, <1>6, <1>7, <1>8

\* The merge of a copy that is up to date and the merge in place.
MergeEdge(h, i, p) == [h EXCEPT !.edges[i].props = Put(@, p)]

\* The two are the same, edge by edge.
LEMMA UpdateEdgeInPlace ==
    ASSUME NEW h, GraphOK(h), NEW i \in DOMAIN h.edges, NEW p
    PROVE  LET h1 == [h EXCEPT !.edges = Put(h.edges, Bind(i, [from |-> h.edges[i].from, to |-> h.edges[i].to,
                                                               props |-> Put(h.edges[i].props, p)]))]
           IN /\ h1 = MergeEdge(h, i, p)
              /\ GraphOK(h1)
<1>0. IsGraph(h) BY DEF GraphOK
<1>1. PICK q : q = Put(h.edges[i].props, p) OBVIOUS
<1>2. PICK v : v = [from |-> h.edges[i].from, to |-> h.edges[i].to, props |-> q] OBVIOUS
<1>3. PICK m : m = Put(h.edges, Bind(i, v)) OBVIOUS
<1>4. [h.edges[i] EXCEPT !.props = q] = v
  <2>1. PICK w : w = h.edges[i] OBVIOUS
  <2>2. w = [from |-> w.from, to |-> w.to, props |-> w.props] BY <2>1 DEF GraphOK, EdgeValue
  <2>3. [w EXCEPT !.props = q] = [from |-> w.from, to |-> w.to, props |-> q] BY <2>2
  <2> QED BY <1>2, <2>1, <2>3
<1>5. m = [h.edges EXCEPT ![i] = v]
  <2>1. DOMAIN Bind(i, v) = {i} /\ Bind(i, v)[i] = v BY DEF Bind
  <2>2. DOMAIN h.edges \cup {i} = DOMAIN h.edges OBVIOUS
  <2>3. m = [k \in DOMAIN h.edges |-> IF k \in {i} THEN Bind(i, v)[k] ELSE h.edges[k]] BY <1>3, <2>1, <2>2 DEF Put
  <2>4. h.edges = [k \in DOMAIN h.edges |-> h.edges[k]] BY DEF GraphOK, IsMap
  <2> QED BY <2>1, <2>3, <2>4
<1>6. [h EXCEPT !.edges[i].props = Put(@, p)] = [h EXCEPT !.edges = m]
  <2>1. PICK E : E = h.edges OBVIOUS
  <2>2. [h EXCEPT !.edges[i].props = Put(@, p)] = [h EXCEPT !.edges[i].props = q]
    BY <1>1
  <2>3. [h EXCEPT !.edges[i].props = q] = [h EXCEPT !.edges = [h.edges EXCEPT ![i] = [h.edges[i] EXCEPT !.props = q]]]
    OBVIOUS
  <2> QED BY <1>4, <1>5, <2>2, <2>3
<1>7. PICK h1 : h1 = [h EXCEPT !.edges = m] OBVIOUS
<1>8. /\ IsGraph(h1) /\ h1.nodes = h.nodes /\ h1.edges = m /\ h1.edgeCount = h.edgeCount
      /\ h1.nodeCount = h.nodeCount
  BY <1>0, <1>7 DEF IsGraph, GraphFields
<1>9. IsMap(m) BY <1>3, PutIsMap
<1>10. EdgeValue(v) BY <1>2 DEF EdgeValue
<1>11. \A k \in DOMAIN m : EdgeValue(m[k]) BY <1>5, <1>10 DEF GraphOK
<1>12. GraphOK(h1) BY <1>8, <1>9, <1>11 DEF GraphOK
<1> QED BY <1>1, <1>2, <1>3, <1>6, <1>7, <1>12 DEF MergeEdge

\* The dispatch of applyOp.
LEMMA ApplyEdgeAdds ==
    ASSUME NEW h, NEW e, e.op \in EdgeAdds
    PROVE  Applicable(h, e) /\ applyOp(h, e) = PutAdjIn(PutEdges(h, EntryEdges(e)), EntryEdges(e))
BY DEF EdgeAdds, EntryEdges, Applicable, applyOp, applyAddEdge, applyAddEdgeBatch

\* The same for UpdateEdge, ...
LEMMA ApplyUpdateEdge ==
    ASSUME NEW h, NEW e, e.op = "UpdateEdge", e.id \in DOMAIN h.edges
    PROVE  Applicable(h, e) /\ applyOp(h, e) = MergeEdge(h, e.id, e.props)
BY DEF Applicable, applyOp, applyUpdateEdge, MergeEdge

\* ... and for the operations on nodes and DeleteEdge.
LEMMA ApplyOps ==
    ASSUME NEW h, NEW e
    PROVE  /\ e.op \in NodeAdds => Applicable(h, e) /\ applyOp(h, e) = PutNodes(h, e.nodes)
           /\ e.op = "UpdateNode" /\ e.id \in DOMAIN h.nodes =>
                Applicable(h, e) /\ applyOp(h, e) = MergeNode(h, e.id, e.props)
           /\ e.op = "SetNodeProps" => Applicable(h, e) /\ applyOp(h, e) = SetNode(h, e.id, e.props)
           /\ e.op = "AddLabel" /\ e.id \in DOMAIN h.nodes =>
                Applicable(h, e) /\ applyOp(h, e) = AddLabels(h, e.id, e.labels)
           /\ e.op = "RemoveLabel" /\ e.id \in DOMAIN h.nodes =>
                Applicable(h, e) /\ applyOp(h, e) = RemoveLabels(h, e.id, e.labels)
           /\ e.op = "DeleteNode" /\ e.id \in DOMAIN h.nodes =>
                Applicable(h, e) /\ applyOp(h, e) = DropNode(h, e.id)
           /\ e.op = "DeleteEdge" => Applicable(h, e) /\ applyOp(h, e) = DropAdjIn(DropEdge(h, e.edge), e.edge)
<1>1. ASSUME e.op \in NodeAdds PROVE Applicable(h, e) /\ applyOp(h, e) = PutNodes(h, e.nodes)
  BY <1>1 DEF NodeAdds, Applicable, applyOp, applyAddNode, applyAddNodeBatch, applyAddNodeWithLabels
<1>2. e.op = "UpdateNode" /\ e.id \in DOMAIN h.nodes => Applicable(h, e) /\ applyOp(h, e) = MergeNode(h, e.id, e.props)
  BY DEF Applicable, applyOp, applyUpdateNode
<1>3. e.op = "SetNodeProps" => Applicable(h, e) /\ applyOp(h, e) = SetNode(h, e.id, e.props)
  BY DEF Applicable, applyOp, applySetNodeProps
<1>4. e.op = "AddLabel" /\ e.id \in DOMAIN h.nodes => Applicable(h, e) /\ applyOp(h, e) = AddLabels(h, e.id, e.labels)
  BY DEF Applicable, applyOp, applyAddLabel
<1>5. e.op = "RemoveLabel" /\ e.id \in DOMAIN h.nodes =>
        Applicable(h, e) /\ applyOp(h, e) = RemoveLabels(h, e.id, e.labels)
  BY DEF Applicable, applyOp, applyRemoveLabel
<1>6. e.op = "DeleteNode" /\ e.id \in DOMAIN h.nodes => Applicable(h, e) /\ applyOp(h, e) = DropNode(h, e.id)
  BY DEF Applicable, applyOp, applyDeleteNode
<1>7. e.op = "DeleteEdge" => Applicable(h, e) /\ applyOp(h, e) = DropAdjIn(DropEdge(h, e.edge), e.edge)
  BY DEF Applicable, applyOp, applyDeleteEdge
<1> QED BY <1>1, <1>2, <1>3, <1>4, <1>5, <1>6, <1>7

\* A step of t that logs nothing.
LEMMA ReplayStep ==
    ASSUME OneCaller, ReplayInv, NEW t \in Threads, wal' = wal, GraphOK(g'),
           Ahead(th'[t], g', Replay(wal).g)
    PROVE  ReplayInv'
<1>1. \A u \in Threads : u = t BY DEF OneCaller
<1>2. Replay(wal') = Replay(wal) OBVIOUS
<1> QED BY <1>1, <1>2 DEF ReplayInv

\* A step between two that leave the graph where the log leads to.
LEMMA ReplayStays ==
    ASSUME OneCaller, ReplayInv, NEW t \in Threads, wal' = wal, g' = g,
           th[t].step \in {"idle", "checkTo", "putEdge", "collectIn", "fetchIn", "cascade"},
           th'[t].step \in {"idle", "checkTo", "collectIn", "fetchIn", "cascade"}
    PROVE  ReplayInv'
<1>1. g = Replay(wal).g BY DEF ReplayInv, Ahead
<1>2. Ahead(th'[t], g', Replay(wal).g) BY <1>1 DEF Ahead
<1>3. GraphOK(g') BY DEF ReplayInv
<1> QED BY <1>2, <1>3, ReplayStep

\* A call takes the IDs of its nodes.
LEMMA ReplayAlloc ==
    ASSUME OneCaller, NodeInv, ReplayInv, NEW t \in Threads,
           AddNode(t) \/ AddNodeWithLabels(t) \/ AddNodeBatch(t)
    PROVE  ReplayInv'
<1>1. PICK op \in NodeAdds : \E N :
        AllocNodes(op, t, N) /\ IsFiniteSet(N) /\ \A m, n \in N : m.id = n.id => m = n
  BY AllocatesNodes DEF NodeAdds
<1>2. PICK N : AllocNodes(op, t, N) /\ IsFiniteSet(N) /\ \A m, n \in N : m.id = n.id => m = n BY <1>1
<1>3. /\ th[t].step = "idle" /\ g' = g /\ wal' = wal
      /\ Moves(t, "putNodes", [op |-> op, nodes |-> N], N, {}, 0)
  BY <1>2, AllocFacts DEF NodeInv
<1>4. PICK h : h = Replay(wal).g OBVIOUS
<1>5. g = h /\ GraphOK(h) BY <1>3, <1>4 DEF ReplayInv, Ahead
<1>6. PICK r : r = th'[t] OBVIOUS
<1>7. r.step = "putNodes" /\ r.entry = [op |-> op, nodes |-> N] /\ r.todo = N BY <1>3, <1>6 DEF Moves
<1>8. r.entry.op = op /\ r.entry.nodes = N BY <1>7
<1>9. AddsNodes(r) BY <1>2, <1>7, <1>8 DEF AddsNodes, OwnIDs
<1>10. r.entry.nodes \ r.todo = {} BY <1>7, <1>8
<1>11. h = PutNodes(h, r.entry.nodes \ r.todo) BY <1>5, <1>10, PutNone
<1>12. Ahead(r, g', h) BY <1>3, <1>5, <1>7, <1>9, <1>11 DEF Ahead
<1> QED BY <1>3, <1>4, <1>5, <1>6, <1>12, ReplayStep

\* A transaction writes some of them, or the last of them.
LEMMA ReplayPutNodes ==
    ASSUME OneCaller, NodeInv, ReplayInv, NEW t \in Threads, PutNodesTx(t)
    PROVE  ReplayInv'
<1>1. PICK group \in SUBSET th[t].todo :
        /\ g' = PutNodes(g, group)
        /\ \/ th[t].todo \ group = {} /\ Moves(t, "log", th[t].entry, {}, {}, 0)
           \/ Moves(t, "putNodes", th[t].entry, th[t].todo \ group, th[t].adj, th[t].id)
  BY PutNodesTxFacts DEF NodeInv
<1>2. th[t].step = "putNodes" /\ wal' = wal BY PutNodesTxFacts DEF NodeInv
<1>3. PICK h, e, N, T : h = Replay(wal).g /\ e = th[t].entry /\ N = e.nodes /\ T = th[t].todo OBVIOUS
<1>4. /\ GraphOK(h) /\ g = PutNodes(h, N \ T) /\ e.op \in NodeAdds
      /\ IsFiniteSet(N) /\ OwnIDs(N) /\ T \subseteq N /\ group \subseteq T
  BY <1>2, <1>3 DEF ReplayInv, Ahead, AddsNodes
<1>5. g' = PutNodes(h, N \ (T \ group))
  <2>1. PICK A : A = N \ T OBVIOUS
  <2>2. IsFiniteSet(A) /\ IsFiniteSet(group) BY <1>4, <2>1, FS_Subset
  <2>3. A \cap group = {} BY <1>4, <2>1
  <2>4. OwnIDs(A \cup group) BY <1>4, <2>1 DEF OwnIDs
  <2>5. PutNodes(PutNodes(h, A), group) = PutNodes(h, A \cup group)
    BY <1>4, <2>2, <2>3, <2>4, PutNodesTwice
  <2>6. A \cup group = N \ (T \ group) BY <1>4, <2>1
  <2> QED BY <1>1, <1>4, <2>1, <2>5, <2>6
<1>6. GraphOK(g')
  <2>1. PICK C : C = N \ (T \ group) OBVIOUS
  <2>2. IsFiniteSet(C) BY <1>4, <2>1, FS_Subset
  <2> QED BY <1>4, <1>5, <2>1, <2>2, PutNodesAll
<1>7. PICK r : r = th'[t] OBVIOUS
<1>8. CASE T \ group = {} /\ Moves(t, "log", th[t].entry, {}, {}, 0)
  <2>1. r.step = "log" /\ r.entry = e BY <1>3, <1>7, <1>8 DEF Moves
  <2>2. N \ (T \ group) = N BY <1>8
  <2>3. g' = PutNodes(h, N) BY <1>5, <2>2
  <2>4. Applicable(h, e) /\ applyOp(h, e) = g' BY <1>3, <1>4, <2>3, ApplyOps
  <2>5. Ahead(r, g', h) BY <2>1, <2>4 DEF Ahead
  <2> QED BY <1>2, <1>3, <1>6, <1>7, <2>5, ReplayStep
<1>9. CASE Moves(t, "putNodes", th[t].entry, th[t].todo \ group, th[t].adj, th[t].id)
  <2>1. r.step = "putNodes" /\ r.entry = e /\ r.todo = T \ group BY <1>3, <1>7, <1>9 DEF Moves
  <2>2. AddsNodes(r) BY <1>3, <1>4, <2>1 DEF AddsNodes
  <2>3. Ahead(r, g', h) BY <1>3, <1>5, <2>1, <2>2 DEF Ahead
  <2> QED BY <1>2, <1>3, <1>6, <1>7, <2>3, ReplayStep
<1> QED BY <1>1, <1>3, <1>8, <1>9

\* A call of one transaction: what it writes is what its entry does.
LEMMA ReplayOneTx ==
    ASSUME OneCaller, ReplayInv, NEW t \in Threads, th[t].step \in {"idle", "cascade", "putEdge"}, wal' = wal,
           NEW e, th'[t].step = "log", th'[t].entry = e, Applicable(g, e), g' = applyOp(g, e), GraphOK(g')
    PROVE  ReplayInv'
<1>1. g = Replay(wal).g BY DEF ReplayInv, Ahead
<1>2. Ahead(th'[t], g', Replay(wal).g) BY <1>1 DEF Ahead
<1> QED BY <1>2, ReplayStep

\* The operations on one node are such calls.
LEMMA ReplayNodeTx ==
    ASSUME OneCaller, NodeInv, ReplayInv, NEW t \in Threads,
           UpdateNode(t) \/ SetNodeProps(t) \/ AddLabel(t) \/ RemoveLabel(t)
    PROVE  ReplayInv'
<1>0. GraphOK(g) BY DEF ReplayInv
<1>1. ASSUME NEW op, NEW id, NEW h, NEW e, NodeTx(op, t, id, h, e), Applicable(g, e), h = applyOp(g, e), GraphOK(h)
      PROVE  ReplayInv'
  <2>1. th[t].step = "idle" /\ g' = h /\ wal' = wal /\ Moves(t, "log", e, {}, {}, 0)
    BY <1>1, NodeTxFacts DEF NodeInv
  <2>2. th'[t].step = "log" /\ th'[t].entry = e BY <2>1 DEF Moves
  <2> QED BY <1>1, <2>1, <2>2, ReplayOneTx
<1>2. CASE UpdateNode(t)
  <2>1. PICK id \in NodeIDs, p \in PropArgs :
          NodeTx("UpdateNode", t, id, MergeNode(g, id, p), [op |-> "UpdateNode", id |-> id, props |-> p])
    BY <1>2 DEF UpdateNode
  <2>2. id \in DOMAIN g.nodes BY <2>1 DEF NodeTx
  <2>3. PICK e : e = [op |-> "UpdateNode", id |-> id, props |-> p] OBVIOUS
  <2>4. e.op = "UpdateNode" /\ e.id = id /\ e.props = p BY <2>3
  <2>5. Applicable(g, e) /\ applyOp(g, e) = MergeNode(g, id, p) BY <2>2, <2>4, ApplyOps
  <2>6. GraphOK(MergeNode(g, id, p)) BY <1>0, <2>2, OtherTxOK
  <2> QED BY <1>1, <2>1, <2>3, <2>5, <2>6
<1>3. CASE SetNodeProps(t)
  <2>1. PICK id \in NodeIDs, p \in PropArgs :
          NodeTx("SetNodeProps", t, id, SetNode(g, id, p), [op |-> "SetNodeProps", id |-> id, props |-> p])
    BY <1>3 DEF SetNodeProps
  <2>3. PICK e : e = [op |-> "SetNodeProps", id |-> id, props |-> p] OBVIOUS
  <2>4. e.op = "SetNodeProps" /\ e.id = id /\ e.props = p BY <2>3
  <2>5. Applicable(g, e) /\ applyOp(g, e) = SetNode(g, id, p) BY <2>4, ApplyOps
  <2>6. GraphOK(SetNode(g, id, p)) BY <1>0, OtherTxOK
  <2> QED BY <1>1, <2>1, <2>3, <2>5, <2>6
<1>4. CASE AddLabel(t)
  <2>1. PICK id \in NodeIDs, L \in LabelArgs \ {{}} :
          NodeTx("AddLabel", t, id, AddLabels(g, id, L), [op |-> "AddLabel", id |-> id, labels |-> L])
    BY <1>4 DEF AddLabel
  <2>2. id \in DOMAIN g.nodes BY <2>1 DEF NodeTx
  <2>3. PICK e : e = [op |-> "AddLabel", id |-> id, labels |-> L] OBVIOUS
  <2>4. e.op = "AddLabel" /\ e.id = id /\ e.labels = L BY <2>3
  <2>5. Applicable(g, e) /\ applyOp(g, e) = AddLabels(g, id, L) BY <2>2, <2>4, ApplyOps
  <2>6. GraphOK(AddLabels(g, id, L)) BY <1>0, OtherTxOK
  <2> QED BY <1>1, <2>1, <2>3, <2>5, <2>6
<1>5. CASE RemoveLabel(t)
  <2>1. PICK id \in NodeIDs, L \in LabelArgs \ {{}} :
          NodeTx("RemoveLabel", t, id, RemoveLabels(g, id, L), [op |-> "RemoveLabel", id |-> id, labels |-> L])
    BY <1>5 DEF RemoveLabel
  <2>2. id \in DOMAIN g.nodes BY <2>1 DEF NodeTx
  <2>3. PICK e : e = [op |-> "RemoveLabel", id |-> id, labels |-> L] OBVIOUS
  <2>4. e.op = "RemoveLabel" /\ e.id = id /\ e.labels = L BY <2>3
  <2>5. Applicable(g, e) /\ applyOp(g, e) = RemoveLabels(g, id, L) BY <2>2, <2>4, ApplyOps
  <2>6. GraphOK(RemoveLabels(g, id, L)) BY <1>0, OtherTxOK
  <2> QED BY <1>1, <2>1, <2>3, <2>5, <2>6
<1> QED BY <1>2, <1>3, <1>4, <1>5

\* A call takes the IDs of its edges.
LEMMA ReplayEdgesBegin ==
    ASSUME OneCaller, ReplayInv, NEW t \in Threads, NEW E, EdgesBegun(t, E), th[t].step \in {"idle", "checkTo"}
    PROVE  ReplayInv'
<1>1. PICK h, r : h = Replay(wal).g /\ r = th'[t] OBVIOUS
<1>2. g = h /\ GraphOK(h) BY <1>1 DEF ReplayInv, Ahead
<1>3. /\ r.step = "putEdges" /\ r.todo = E /\ r.adj = E /\ r.entry.op \in EdgeAdds
      /\ EntryEdges(r.entry) = E /\ IsFiniteSet(E) /\ OwnIDs(E) /\ g' = g /\ wal' = wal
  BY <1>1 DEF EdgesBegun, OwnIDs
<1>4. AddsEdges(r) BY <1>3 DEF AddsEdges
<1>5. EntryEdges(r.entry) \ r.todo = {} BY <1>3
<1>6. h = PutEdges(h, EntryEdges(r.entry) \ r.todo) BY <1>2, <1>5, PutNone
<1>7. Ahead(r, g', h) BY <1>2, <1>3, <1>4, <1>6 DEF Ahead
<1> QED BY <1>1, <1>2, <1>3, <1>7, ReplayStep

\* The transactions that write them.
LEMMA ReplayPutEdges ==
    ASSUME OneCaller, NodeInv, SeqInv, ReplayInv, NEW t \in Threads, PutEdgesTx(t)
    PROVE  ReplayInv'
<1>1. th[t].step = "putEdges" /\ wal' = wal BY PutEdgesTxFacts DEF NodeInv
<1>2. PICK s, group :
        /\ s \in {shardFor(e.from) : e \in th[t].todo}
        /\ group = {e \in th[t].todo : shardFor(e.from) = s}
        /\ \/ /\ OneTx(th[t]) /\ g' = PutAdjIn(PutEdges(g, group), group)
              /\ Moves(t, "log", th[t].entry, {}, {}, 0)
           \/ /\ ~OneTx(th[t]) /\ g' = PutEdges(g, group)
              /\ Moves(t, IF th[t].todo \ group = {} THEN "putAdjIn" ELSE "putEdges",
                       th[t].entry, th[t].todo \ group, th[t].adj, th[t].id)
  BY PutEdgesTxFacts DEF NodeInv
<1>3. PICK h, e, N, T : h = Replay(wal).g /\ e = th[t].entry /\ N = EntryEdges(e) /\ T = th[t].todo OBVIOUS
<1>4. /\ GraphOK(h) /\ g = PutEdges(h, N \ T) /\ e.op \in EdgeAdds /\ th[t].adj = N
      /\ IsFiniteSet(N) /\ OwnIDs(N) /\ T \subseteq N
  BY <1>1, <1>3 DEF ReplayInv, Ahead, AddsEdges
<1>5. group \subseteq T BY <1>2, <1>3
<1>6. PICK x : x = PutEdges(g, group) OBVIOUS
<1>7. x = PutEdges(h, N \ (T \ group))
  <2>1. PICK A : A = N \ T OBVIOUS
  <2>2. IsFiniteSet(A) /\ IsFiniteSet(group)
    <3>1. A \subseteq N /\ group \subseteq N BY <1>4, <1>5, <2>1
    <3> QED BY <1>4, <3>1, FS_Subset
  <2>3. A \cap group = {} BY <1>5, <2>1
  <2>4. OwnIDs(A \cup group) BY <1>4, <1>5, <2>1 DEF OwnIDs
  <2>5. PutEdges(PutEdges(h, A), group) = PutEdges(h, A \cup group)
    BY <1>4, <2>2, <2>3, <2>4, PutEdgesTwice
  <2>6. A \cup group = N \ (T \ group) BY <1>4, <1>5, <2>1
  <2> QED BY <1>4, <1>6, <2>1, <2>5, <2>6
<1>8. GraphOK(x)
  <2>1. PICK C : C = N \ (T \ group) OBVIOUS
  <2>2. IsFiniteSet(C) BY <1>4, <2>1, FS_Subset
  <2>3. OwnIDs(C) BY <1>4, <2>1 DEF OwnIDs
  <2> QED BY <1>4, <1>7, <2>1, <2>2, <2>3, PutEdgesAll
<1>9. PICK r : r = th'[t] OBVIOUS
<1>10. CASE OneTx(th[t]) /\ g' = PutAdjIn(x, group) /\ Moves(t, "log", th[t].entry, {}, {}, 0)
  <2>1. group = N BY <1>1, <1>2, <1>4, <1>10, OneTxWhole DEF SeqInv, AtHand
  <2>2. N \ (T \ group) = N BY <1>4, <1>5, <2>1
  <2>3. g' = PutAdjIn(PutEdges(h, N), N) BY <1>7, <1>10, <2>1, <2>2
  <2>4. r.step = "log" /\ r.entry = e BY <1>3, <1>9, <1>10 DEF Moves
  <2>5. Applicable(h, e) /\ applyOp(h, e) = g' BY <1>3, <1>4, <2>3, ApplyEdgeAdds
  <2>6. Ahead(r, g', h) BY <2>4, <2>5 DEF Ahead
  <2>7. GraphOK(g') BY <1>8, <1>10, PutAdjInAll
  <2> QED BY <1>1, <1>3, <1>9, <2>6, <2>7, ReplayStep
<1>11. CASE /\ g' = x
            /\ Moves(t, IF T \ group = {} THEN "putAdjIn" ELSE "putEdges", th[t].entry, T \ group, th[t].adj, th[t].id)
  <2>1. /\ r.step = IF T \ group = {} THEN "putAdjIn" ELSE "putEdges"
        /\ r.entry = e /\ r.todo = T \ group /\ r.adj = N
    BY <1>3, <1>4, <1>9, <1>11 DEF Moves
  <2>2. AddsEdges(r) BY <1>3, <1>4, <2>1 DEF AddsEdges
  <2>3. CASE T \ group = {}
    <3>1. N \ (T \ group) = N /\ N \ r.adj = {} BY <2>1, <2>3
    <3>2. g' = PutEdges(h, N) BY <1>7, <1>11, <3>1
    <3>3. g' = PutAdjIn(PutEdges(h, N), N \ r.adj) BY <1>8, <1>11, <3>1, <3>2, PutNone
    <3>4. r.step = "putAdjIn" BY <2>1, <2>3
    <3>5. Ahead(r, g', h) BY <1>3, <2>1, <2>2, <3>3, <3>4 DEF Ahead
    <3> QED BY <1>1, <1>3, <1>8, <1>9, <1>11, <3>5, ReplayStep
  <2>4. CASE T \ group # {}
    <3>1. r.step = "putEdges" BY <2>1, <2>4
    <3>2. Ahead(r, g', h) BY <1>3, <1>7, <1>11, <2>1, <2>2, <3>1 DEF Ahead
    <3> QED BY <1>1, <1>3, <1>8, <1>9, <1>11, <3>2, ReplayStep
  <2> QED BY <2>3, <2>4
<1> QED BY <1>2, <1>3, <1>6, <1>10, <1>11

\* The transactions that write their adj_in entries.
LEMMA ReplayPutAdjIn ==
    ASSUME OneCaller, NodeInv, ReplayInv, NEW t \in Threads, PutAdjInTx(t)
    PROVE  ReplayInv'
<1>1. th[t].step = "putAdjIn" /\ wal' = wal BY PutAdjInTxFacts DEF NodeInv
<1>2. PICK group \in SUBSET th[t].adj :
        /\ g' = PutAdjIn(g, group)
        /\ \/ /\ th[t].adj \ group = {}
              /\ Moves(t, "log", th[t].entry, {}, {}, 0)
           \/ Moves(t, "putAdjIn", th[t].entry, th[t].todo, th[t].adj \ group, th[t].id)
  BY PutAdjInTxFacts DEF NodeInv
<1>3. PICK h, e, N, A : h = Replay(wal).g /\ e = th[t].entry /\ N = EntryEdges(e) /\ A = th[t].adj OBVIOUS
<1>4. PICK x : x = PutEdges(h, N) OBVIOUS
<1>5. /\ GraphOK(h) /\ g = PutAdjIn(x, N \ A) /\ e.op \in EdgeAdds
      /\ IsFiniteSet(N) /\ OwnIDs(N) /\ A \subseteq N
  BY <1>1, <1>3, <1>4 DEF ReplayInv, Ahead, AddsEdges
<1>6. GraphOK(x) BY <1>4, <1>5, PutEdgesAll
<1>7. g' = PutAdjIn(x, N \ (A \ group))
  <2>1. PICK B : B = N \ A OBVIOUS
  <2>2. PutAdjIn(PutAdjIn(x, B), group) = PutAdjIn(x, B \cup group) BY <1>6, PutAdjInTwice
  <2>3. B \cup group = N \ (A \ group) BY <1>2, <1>3, <1>5, <2>1
  <2> QED BY <1>2, <1>5, <2>1, <2>2, <2>3
<1>8. GraphOK(g') BY <1>6, <1>7, PutAdjInAll
<1>9. PICK r : r = th'[t] OBVIOUS
<1>10. CASE A \ group = {} /\ Moves(t, "log", th[t].entry, {}, {}, 0)
  <2>1. r.step = "log" /\ r.entry = e BY <1>3, <1>9, <1>10 DEF Moves
  <2>2. N \ (A \ group) = N BY <1>10
  <2>3. g' = PutAdjIn(PutEdges(h, N), N) BY <1>4, <1>7, <2>2
  <2>4. Applicable(h, e) /\ applyOp(h, e) = g' BY <1>3, <1>5, <2>3, ApplyEdgeAdds
  <2>5. Ahead(r, g', h) BY <2>1, <2>4 DEF Ahead
  <2> QED BY <1>1, <1>3, <1>8, <1>9, <2>5, ReplayStep
<1>11. CASE Moves(t, "putAdjIn", th[t].entry, th[t].todo, A \ group, th[t].id)
  <2>1. r.step = "putAdjIn" /\ r.entry = e /\ r.adj = A \ group BY <1>3, <1>9, <1>11 DEF Moves
  <2>2. AddsEdges(r) BY <1>3, <1>5, <2>1 DEF AddsEdges
  <2>3. g' = PutAdjIn(PutEdges(h, EntryEdges(r.entry)), EntryEdges(r.entry) \ r.adj)
    BY <1>3, <1>4, <1>7, <2>1
  <2>4. Ahead(r, g', h) BY <2>1, <2>2, <2>3 DEF Ahead
  <2> QED BY <1>1, <1>3, <1>8, <1>9, <2>4, ReplayStep
<1> QED BY <1>2, <1>3, <1>10, <1>11

\* UpdateEdge reads the edge.
LEMMA ReplayUpdateEdge ==
    ASSUME OneCaller, NodeInv, ReplayInv, NEW t \in Threads, UpdateEdge(t)
    PROVE  ReplayInv'
<1>1. th[t].step = "idle" /\ g' = g /\ wal' = wal BY UpdateEdgeFacts DEF NodeInv
<1>2. PICK id \in DOMAIN g.edges, p \in PropArgs : \E e :
        /\ e = [EdgeOf(id) EXCEPT !.props = Put(EdgeOf(id).props, p)]
        /\ Moves(t, "putEdge", [op |-> "UpdateEdge", id |-> id, props |-> p], {e}, {}, 0)
  BY UpdateEdgeFacts DEF NodeInv
<1>3. PICK r, v : r = th'[t] /\ v = g.edges[id] OBVIOUS
<1>4. PICK e : e = [id |-> id, from |-> v.from, to |-> v.to, props |-> Put(v.props, p)] OBVIOUS
<1>5. [EdgeOf(id) EXCEPT !.props = Put(EdgeOf(id).props, p)] = e BY <1>3, <1>4 DEF EdgeOf
<1>6. r.step = "putEdge" /\ r.entry = [op |-> "UpdateEdge", id |-> id, props |-> p] /\ r.todo = {e}
  BY <1>2, <1>3, <1>5 DEF Moves
<1>7. r.entry.op = "UpdateEdge" /\ r.entry.id = id /\ r.entry.props = p BY <1>6
<1>8. g = Replay(wal).g /\ GraphOK(g) BY <1>1 DEF ReplayInv, Ahead
<1>9. Ahead(r, g', Replay(wal).g)
  <2>1. r.todo = {[id |-> r.entry.id, from |-> g.edges[r.entry.id].from, to |-> g.edges[r.entry.id].to,
                   props |-> Put(g.edges[r.entry.id].props, r.entry.props)]}
    BY <1>3, <1>4, <1>6, <1>7
  <2> QED BY <1>1, <1>6, <1>7, <1>8, <2>1 DEF Ahead
<1> QED BY <1>1, <1>3, <1>8, <1>9, ReplayStep

\* And writes its copy, which nobody else has made out of date.
LEMMA ReplayPutEdge ==
    ASSUME OneCaller, NodeInv, ReplayInv, NEW t \in Threads, PutEdgeTx(t)
    PROVE  ReplayInv'
<1>1. th[t].step = "putEdge" /\ Moves(t, "log", th[t].entry, {}, {}, 0) /\ wal' = wal
  BY PutEdgeTxFacts DEF NodeInv
<1>2. PICK e \in th[t].todo :
        g' = [g EXCEPT !.edges = Put(g.edges, Bind(e.id, [from |-> e.from, to |-> e.to, props |-> e.props]))]
  BY PutEdgeTxFacts DEF NodeInv
<1>3. PICK y, i, v, p : y = th[t].entry /\ i = y.id /\ v = g.edges[i] /\ p = y.props OBVIOUS
<1>4. /\ g = Replay(wal).g /\ GraphOK(g) /\ y.op = "UpdateEdge" /\ i \in DOMAIN g.edges
      /\ e = [id |-> i, from |-> v.from, to |-> v.to, props |-> Put(v.props, p)]
  BY <1>1, <1>2, <1>3 DEF ReplayInv, Ahead
<1>5. e.id = i /\ e.from = v.from /\ e.to = v.to /\ e.props = Put(v.props, p) BY <1>4
<1>6. g' = [g EXCEPT !.edges = Put(g.edges, Bind(i, [from |-> g.edges[i].from, to |-> g.edges[i].to,
                                                     props |-> Put(g.edges[i].props, p)]))]
  BY <1>2, <1>3, <1>5
<1>7. g' = MergeEdge(g, i, p) /\ GraphOK(g') BY <1>4, <1>6, UpdateEdgeInPlace
<1>8. Applicable(g, y) /\ applyOp(g, y) = g' BY <1>3, <1>4, <1>7, ApplyUpdateEdge
<1>9. th'[t].step = "log" /\ th'[t].entry = y BY <1>1, <1>3 DEF Moves
<1> QED BY <1>1, <1>7, <1>8, <1>9, ReplayOneTx

\* The transactions of a deletion.
LEMMA ReplayDeletes ==
    ASSUME OneCaller, NodeInv, ReplayInv, NEW t \in Threads, DropEdgeTx(t) \/ DropAdjInTx(t) \/ DropNodeTx(t)
    PROVE  ReplayInv'
<1>0. GraphOK(g) BY DEF ReplayInv
<1>1. CASE DropEdgeTx(t)
  <2>1. th[t].step = "cascade" /\ wal' = wal BY <1>1, DropEdgeTxFacts DEF NodeInv
  <2>2. PICK x \in th[t].todo :
          /\ g' = DropEdge(g, x[2])
          /\ Moves(t, "dropAdjIn", [op |-> "DeleteEdge", edge |-> x[2]], th[t].todo \ {x}, th[t].adj, th[t].id)
    BY <1>1, DropEdgeTxFacts DEF NodeInv
  <2>3. PICK r : r = th'[t] OBVIOUS
  <2>4. r.step = "dropAdjIn" /\ r.entry = [op |-> "DeleteEdge", edge |-> x[2]] BY <2>2, <2>3 DEF Moves
  <2>5. r.entry.op = "DeleteEdge" /\ r.entry.edge = x[2] BY <2>4
  <2>6. g = Replay(wal).g BY <2>1 DEF ReplayInv, Ahead
  <2>7. Ahead(r, g', Replay(wal).g) BY <2>2, <2>4, <2>5, <2>6 DEF Ahead
  <2>8. GraphOK(g') BY <1>0, <2>2, OtherTxOK
  <2> QED BY <2>1, <2>3, <2>7, <2>8, ReplayStep
<1>2. CASE DropAdjInTx(t)
  <2>1. /\ th[t].step = "dropAdjIn" /\ wal' = wal /\ g' = DropAdjIn(g, th[t].entry.edge)
        /\ Moves(t, "log", th[t].entry, th[t].todo, th[t].adj, th[t].id)
    BY <1>2, DropAdjInTxFacts DEF NodeInv
  <2>2. PICK r, e, h : r = th'[t] /\ e = th[t].entry /\ h = Replay(wal).g OBVIOUS
  <2>3. r.step = "log" /\ r.entry = e BY <2>1, <2>2 DEF Moves
  <2>4. e.op = "DeleteEdge" /\ g = DropEdge(h, e.edge) BY <2>1, <2>2 DEF ReplayInv, Ahead
  <2>5. g' = DropAdjIn(DropEdge(h, e.edge), e.edge) BY <2>1, <2>2, <2>4
  <2>6. Applicable(h, e) /\ applyOp(h, e) = g' BY <2>4, <2>5, ApplyOps
  <2>7. Ahead(r, g', h) BY <2>3, <2>6 DEF Ahead
  <2>8. GraphOK(g') BY <1>0, <2>1, OtherTxOK
  <2> QED BY <2>1, <2>2, <2>7, <2>8, ReplayStep
<1>3. CASE DropNodeTx(t)
  <2>1. /\ th[t].step = "cascade" /\ wal' = wal
        /\ \/ /\ th[t].id \in DOMAIN g.nodes /\ g' = DropNode(g, th[t].id)
              /\ Moves(t, "log", [op |-> "DeleteNode", id |-> th[t].id], {}, {}, 0)
           \/ g' = g /\ Moves(t, "idle", None, {}, {}, 0)
    BY <1>3, DropNodeTxFacts DEF NodeInv
  <2>2. CASE g' = g /\ Moves(t, "idle", None, {}, {}, 0)
    <3>1. th'[t].step = "idle" BY <2>2 DEF Moves
    <3> QED BY <2>1, <2>2, <3>1, ReplayStays
  <2>3. CASE /\ th[t].id \in DOMAIN g.nodes /\ g' = DropNode(g, th[t].id)
             /\ Moves(t, "log", [op |-> "DeleteNode", id |-> th[t].id], {}, {}, 0)
    <3>1. PICK e : e = [op |-> "DeleteNode", id |-> th[t].id] OBVIOUS
    <3>2. e.op = "DeleteNode" /\ e.id = th[t].id BY <3>1
    <3>3. th'[t].step = "log" /\ th'[t].entry = e BY <2>3, <3>1 DEF Moves
    <3>4. Applicable(g, e) /\ applyOp(g, e) = g' BY <2>3, <3>2, ApplyOps
    <3>5. GraphOK(g') BY <1>0, <2>3, OtherTxOK
    <3> QED BY <2>1, <3>3, <3>4, <3>5, ReplayOneTx
  <2> QED BY <2>1, <2>2, <2>3
<1> QED BY <1>1, <1>2, <1>3

\* The append: the log catches up with the graph.
LEMMA ReplayLog ==
    ASSUME OneCaller, NodeInv, ReplayInv, NEW t \in Threads, Log(t)
    PROVE  ReplayInv'
<1>1. /\ th[t].step = "log" /\ g' = g
      /\ \/ Moves(t, "idle", None, {}, {}, 0)
         \/ Moves(t, "cascade", None, th[t].todo, th[t].adj, th[t].id)
  BY LogFacts DEF NodeInv
<1>2. PICK e, R : e = th[t].entry /\ R = Replay(wal) OBVIOUS
<1>3. wal' = Append(wal, e) BY <1>2 DEF Log
<1>4. PICK S : wal \in Seq(S) BY DEF NodeInv, TypeOK
<1>5. Replay(wal') = ApplyNext(R, e) BY <1>2, <1>3, <1>4, ReplayAppend
<1>6. Applicable(R.g, e) /\ g = applyOp(R.g, e) /\ R.failed = FALSE BY <1>1, <1>2 DEF ReplayInv, Ahead
<1>7. Replay(wal').g = g /\ Replay(wal').failed = FALSE
  <2>1. PICK A : A = applyOp(R.g, e) OBVIOUS
  <2>2. Replay(wal') = [g |-> A, failed |-> R.failed \/ ~Applicable(R.g, e)] BY <1>5, <2>1 DEF ApplyNext
  <2>3. (R.failed \/ ~Applicable(R.g, e)) = FALSE BY <1>6
  <2>4. Replay(wal') = [g |-> g, failed |-> FALSE] BY <1>6, <2>1, <2>2, <2>3
  <2> QED BY <2>4
<1>8. th'[t].step \in {"idle", "cascade"} BY <1>1 DEF Moves
<1>9. Ahead(th'[t], g', Replay(wal').g) BY <1>1, <1>7, <1>8 DEF Ahead
<1>10. \A u \in Threads : u = t BY DEF OneCaller
<1> QED BY <1>1, <1>7, <1>9, <1>10 DEF ReplayInv

\* Every step, when there is one caller and nothing fails.
LEMMA NextReplay ==
    ASSUME OneCaller, NodeInv, SeqInv, ReplayInv, NEW t \in Threads,
           Call(t) \/ Continue(t) \/ LogFails(t) \/ WriteFails(t)
    PROVE  ReplayInv'
<1>0. faults = 0 /\ MaxFaults = 0 /\ nextEdgeID \in Nat /\ Adding(t) BY DEF OneCaller, SeqInv, AtHand
<1>1. CASE AddNode(t) \/ AddNodeWithLabels(t) \/ AddNodeBatch(t) BY <1>1, ReplayAlloc
<1>2. CASE UpdateNode(t) \/ SetNodeProps(t) \/ AddLabel(t) \/ RemoveLabel(t) BY <1>2, ReplayNodeTx
<1>3. CASE PutNodesTx(t) BY <1>3, ReplayPutNodes
<1>4. CASE AddEdge(t)
  <2>1. th[t].step = "idle" /\ g' = g /\ th'[t].step = "checkTo" BY <1>4, AddEdgeSource
  <2>2. wal' = wal BY <1>4 DEF AddEdge
  <2> QED BY <2>1, <2>2, ReplayStays
<1>5. CASE CheckTo(t)
  <2>1. /\ th[t].step = "checkTo" /\ g' = g
        /\ \/ Alone(t) /\ th'[t].step = "idle" /\ nextEdgeID' = nextEdgeID
           \/ \E e1 : EdgesBegun(t, {e1})
    BY <1>0, <1>5, CheckToBegins
  <2>2. wal' = wal BY <1>5 DEF CheckTo
  <2>3. CASE th'[t].step = "idle" BY <2>1, <2>2, <2>3, ReplayStays
  <2>4. CASE \E e1 : EdgesBegun(t, {e1}) BY <2>1, <2>4, ReplayEdgesBegin
  <2> QED BY <2>1, <2>3, <2>4
<1>6. CASE AddEdgeBatch(t)
  <2>1. th[t].step = "idle" /\ \E E : EdgesBegun(t, E) BY <1>0, <1>6, AddEdgeBatchBegins
  <2> QED BY <2>1, ReplayEdgesBegin
<1>7. CASE PutEdgesTx(t) BY <1>7, ReplayPutEdges
<1>8. CASE PutAdjInTx(t) BY <1>8, ReplayPutAdjIn
<1>9. CASE UpdateEdge(t) BY <1>9, ReplayUpdateEdge
<1>10. CASE PutEdgeTx(t) BY <1>10, ReplayPutEdge
<1>11. CASE DeleteEdge(t) \/ DeleteNode(t) \/ CollectIn(t) \/ FetchIn(t)
  <2>1. /\ g' = g /\ th[t].step \in {"idle", "collectIn", "fetchIn"}
        /\ th'[t].step \in {"collectIn", "fetchIn", "cascade"}
    BY <1>11, CollectsFacts DEF Collects
  <2>2. wal' = wal BY <1>11 DEF DeleteEdge, DeleteNode, CollectIn, FetchIn
  <2> QED BY <2>1, <2>2, ReplayStays
<1>12. CASE DropEdgeTx(t) \/ DropAdjInTx(t) \/ DropNodeTx(t) BY <1>12, ReplayDeletes
<1>13. CASE Log(t) BY <1>13, ReplayLog
<1>14. CASE LogFails(t) \/ WriteFails(t) BY <1>0, <1>14 DEF LogFails, WriteFails
<1> QED BY <1>1, <1>2, <1>3, <1>4, <1>5, <1>6, <1>7, <1>8, <1>9, <1>10, <1>11, <1>12, <1>13, <1>14
        DEF Call, Continue

\* The empty graph is one, and a replay starts from it.
LEMMA EmptyOK == GraphOK(EmptyGraph) /\ Start.g = EmptyGraph /\ Start.failed = FALSE
<1>1. PICK m \in Nat \ {0} : m = UintMod BY BucketsAssumption
<1>2. 0 \in 0..UintMod - 1 BY <1>1
<1>3. /\ IsGraph(EmptyGraph) /\ EmptyGraph.nodes = << >> /\ EmptyGraph.edges = << >>
      /\ EmptyGraph.nodeCount = 0 /\ EmptyGraph.edgeCount = 0
  BY DEF EmptyGraph, IsGraph, GraphFields
<1>4. << >> = [k \in DOMAIN << >> |-> << >>[k]] /\ DOMAIN << >> = {} OBVIOUS
<1> QED BY <1>2, <1>3, <1>4 DEF GraphOK, IsMap, Start

\* The graph is where the log leads to and what the call under way has added to it: the
\* invariant behind LogReplaysToTheGraph, for one caller and no failures.
THEOREM ReplayInvariance ==
    ASSUME OneCaller
    PROVE  Spec => []ReplayInv
<1>1. Init => ReplayInv
  <2> SUFFICES ASSUME Init PROVE ReplayInv
    OBVIOUS
  <2>1. Replay(wal) = Start /\ g = EmptyGraph BY ReplayEmpty DEF Init
  <2>2. \A t \in Threads : th[t] = Idle BY DEF Init
  <2>3. \A t \in Threads : th[t].step = "idle" BY <2>2, IdleFields
  <2>4. \A t \in Threads : Ahead(th[t], g, Replay(wal).g) BY <2>1, <2>3, EmptyOK DEF Ahead
  <2> QED BY <2>1, <2>4, EmptyOK DEF ReplayInv
<1>2. NodeInv /\ SeqInv /\ ReplayInv /\ [Next]_vars => ReplayInv'
  <2> SUFFICES ASSUME NodeInv, SeqInv, ReplayInv, [Next]_vars PROVE ReplayInv'
    OBVIOUS
  <2>1. CASE UNCHANGED vars
    <3>1. g' = g /\ th' = th /\ wal' = wal BY <2>1 DEF vars
    <3> QED BY <3>1 DEF ReplayInv
  <2>2. CASE Next BY <2>2, NextReplay DEF Next
  <2> QED BY <2>1, <2>2
<1> QED BY <1>1, <1>2, NodeInvariance, SequentialInvariance, PTL DEF Spec

\* A follower that applies the log from the start ends with the leader's database, counters
\* included, and no handler refuses an entry: for any shards and any sequence of calls of
\* one caller at a time, as long as no transaction or append fails.
THEOREM LogReplaysToTheGraph ==
    ASSUME OneCaller
    PROVE  Spec => []ReplayEqual
<1>1. TypeOK /\ ReplayInv => ReplayEqual
  <2> SUFFICES ASSUME TypeOK, ReplayInv, Quiet PROVE Replay(wal) = [g |-> g, failed |-> FALSE]
    BY DEF ReplayEqual
  <2>1. PICK t : t \in Threads BY DEF OneCaller
  <2>2. g = Replay(wal).g /\ Replay(wal).failed = FALSE BY <2>1 DEF ReplayInv, Ahead, Quiet
  <2>3. Replay(wal) = [g |-> Replay(wal).g, failed |-> Replay(wal).failed] BY ReplayRecord DEF TypeOK
  <2> QED BY <2>2, <2>3
<1>2. NodeInv => TypeOK BY DEF NodeInv
<1> QED BY <1>1, <1>2, NodeInvariance, ReplayInvariance, PTL

--------------------------------------------------------------------------------
(* Additions of any number of callers.                                        *)

\* A copy to be written is of an edge whose ID was in use.
Copying(t) ==
    th[t].step = "putEdge" => th[t].entry.op = "UpdateEdge" /\ \A e \in th[t].todo : Known(e.id)

\* What the entry of a call says of its step.
EntryOK(r) ==
    /\ r.step = "putNodes" => AddsNodes(r)
    /\ r.step \in {"putEdges", "putAdjIn"} => AddsEdges(r)
    /\ r.step = "dropAdjIn" => r.entry.op = "DeleteEdge"

\* Edge IDs are handed out once, whatever calls run beside each other and fail.
IdInv ==
    /\ nextEdgeID \in Nat /\ faults \in Nat /\ DOMAIN g.edges \subseteq 1..nextEdgeID /\ FreshEdges
    /\ \A t \in Threads : Adding(t) /\ Copying(t) /\ EntryOK(th[t])

\* The additions whose order in the log does not matter, and what an entry adds.
Additions == {"AddNodeBatch", "AddEdge", "AddEdgeBatch"}
NodesIn(e) == IF e.op = "AddNodeBatch" THEN e.nodes ELSE {}
EdgesIn(e) == IF e.op \in EdgeAdds THEN EntryEdges(e) ELSE {}

\* The nodes that the call of the record r has written and not logged.
NodesBy(r) ==
    CASE r.step = "putNodes" -> NodesIn(r.entry) \ r.todo
      [] r.step = "log"      -> NodesIn(r.entry)
      [] OTHER               -> {}

\* The same for edges, ...
EdgesBy(r) ==
    CASE r.step = "putEdges"             -> EdgesIn(r.entry) \ r.todo
      [] r.step \in {"putAdjIn", "log"}  -> EdgesIn(r.entry)
      [] OTHER                           -> {}

\* ... and for adj_in entries.
AdjBy(r) ==
    CASE r.step = "putAdjIn" -> EdgesIn(r.entry) \ r.adj
      [] r.step = "log"      -> EdgesIn(r.entry)
      [] OTHER               -> {}

\* What is logged, and what is written.
LoggedNodes == UNION {NodesIn(wal[k]) : k \in DOMAIN wal}
LoggedEdges == UNION {EdgesIn(wal[k]) : k \in DOMAIN wal}
WrittenNodes == LoggedNodes \cup UNION {NodesBy(th[t]) : t \in Threads}
WrittenEdges == LoggedEdges \cup UNION {EdgesBy(th[t]) : t \in Threads}
WrittenAdj == LoggedEdges \cup UNION {AdjBy(th[t]) : t \in Threads}

\* The database of the nodes N, the edges E and the adj_in entries of the edges A.
Built(N, E, A) == PutAdjIn(PutEdges(PutNodes(EmptyGraph, N), E), A)

\* Nothing but additions so far, and nothing failed: a call that changes the graph in
\* another way has its entry before the log has it.
OnlyAdditions ==
    /\ faults = 0 /\ \A k \in DOMAIN wal : wal[k].op \in Additions
    /\ \A t \in Threads :
         th[t].step \in {"putNodes", "putEdges", "putAdjIn", "putEdge", "dropAdjIn", "log"}
           => th[t].entry.op \in Additions

\* Nobody has what another call has written, or the log has.
Apart ==
    \A t \in Threads :
        /\ NodesBy(th[t]) \cap LoggedNodes = {} /\ EdgesBy(th[t]) \cap LoggedEdges = {}
        /\ \A u \in Threads \ {t} : /\ NodesBy(th[t]) \cap NodesBy(th[u]) = {}
                                    /\ EdgesBy(th[t]) \cap EdgesBy(th[u]) = {}

\* The graph is built from what is written, and the log leads to the graph built from
\* what is logged: neither depends on an order.
BuiltInv ==
    /\ IsFiniteSet(WrittenNodes) /\ OwnIDs(WrittenNodes)
    /\ IsFiniteSet(WrittenEdges) /\ OwnIDs(WrittenEdges)
    /\ Apart
    /\ g = Built(WrittenNodes, WrittenEdges, WrittenAdj)
    /\ Replay(wal).g = Built(LoggedNodes, LoggedEdges, LoggedEdges) /\ Replay(wal).failed = FALSE

\* The invariant of AdditionsInvariance.
AdditionsInv == OnlyAdditions => BuiltInv

\* Transactions on different buckets commute.
LEMMA PutsCommute ==
    ASSUME NEW h, GraphOK(h), NEW N, IsFiniteSet(N), NEW E, IsFiniteSet(E), OwnIDs(E), NEW A
    PROVE  /\ PutNodes(PutEdges(h, E), N) = PutEdges(PutNodes(h, N), E)
           /\ PutNodes(PutAdjIn(h, A), N) = PutAdjIn(PutNodes(h, N), A)
           /\ PutEdges(PutAdjIn(h, A), E) = PutAdjIn(PutEdges(h, E), A)
<1>1. PICK n, e, a : n = PutNodes(h, N) /\ e = PutEdges(h, E) /\ a = PutAdjIn(h, A) OBVIOUS
<1>2. GraphOK(n) /\ GraphOK(e) /\ GraphOK(a) BY <1>1, PutNodesAll, PutEdgesAll, PutAdjInAll
<1> DEFINE L(x) == {p \in x : p[1] \notin {q[1] : q \in LabelPairs(N)}} \cup LabelPairs(N)
<1> DEFINE O == {<<x.from, x.id, x.to>> : x \in E}
<1> DEFINE I == {<<x.to, x.id, x.from>> : x \in A}
<1> DEFINE AddsN(x, y) == /\ GraphOK(y) /\ SameEdges(x, y) /\ y.edgeCount = x.edgeCount
                          /\ y.nodes = Put(x.nodes, NodeMap(N)) /\ y.labels = L(x.labels)
                          /\ y.labelIdx = x.labelIdx \cup LabelPairs(N)
                          /\ y.nodeCount = Add(x.nodeCount, Cardinality(N))
<1> DEFINE AddsE(x, y) == /\ GraphOK(y) /\ SameNodes(x, y) /\ y.nodes = x.nodes /\ y.adjIn = x.adjIn
                          /\ y.edges = Put(x.edges, EdgeMap(E)) /\ y.adjOut = x.adjOut \cup O
                          /\ y.edgeCount = Add(x.edgeCount, Cardinality(E))
<1> DEFINE AddsA(x, y) == /\ GraphOK(y) /\ SameNodes(x, y) /\ y.nodes = x.nodes /\ y.edges = x.edges
                          /\ y.adjOut = x.adjOut /\ y.edgeCount = x.edgeCount /\ y.adjIn = x.adjIn \cup I
<1>3. \A x : GraphOK(x) => AddsN(x, PutNodes(x, N)) BY PutNodesAll
<1>4. \A x : GraphOK(x) => AddsE(x, PutEdges(x, E)) BY PutEdgesAll
<1>5. \A x : GraphOK(x) => AddsA(x, PutAdjIn(x, A)) BY PutAdjInAll
<1>6. AddsN(h, n) /\ AddsE(h, e) /\ AddsA(h, a) BY <1>1, <1>3, <1>4, <1>5
<1> HIDE DEF L, O, I
<1>7. PutNodes(e, N) = PutEdges(n, E)
  <2>1. PICK x, y : x = PutNodes(e, N) /\ y = PutEdges(n, E) OBVIOUS
  <2>2. AddsN(e, x) /\ AddsE(n, y) BY <1>2, <1>3, <1>4, <2>1
  <2>n. /\ x.nodes = y.nodes /\ x.labels = y.labels /\ x.labelIdx = y.labelIdx
        /\ x.nodeCount = y.nodeCount
    BY <1>6, <2>2 DEF SameNodes
  <2>e. /\ x.edges = y.edges /\ x.adjOut = y.adjOut /\ x.adjIn = y.adjIn
        /\ x.edgeCount = y.edgeCount
    BY <1>6, <2>2 DEF SameEdges
  <2>3. x = y BY <2>2, <2>n, <2>e, GraphEqual DEF GraphOK
  <2> QED BY <2>1, <2>3
<1>8. PutNodes(a, N) = PutAdjIn(n, A)
  <2>1. PICK x, y : x = PutNodes(a, N) /\ y = PutAdjIn(n, A) OBVIOUS
  <2>2. AddsN(a, x) /\ AddsA(n, y) BY <1>2, <1>3, <1>5, <2>1
  <2>3. x = y BY <1>6, <2>2, GraphEqual DEF GraphOK, SameNodes, SameEdges
  <2> QED BY <2>1, <2>3
<1>9. PutEdges(a, E) = PutAdjIn(e, A)
  <2>1. PICK x, y : x = PutEdges(a, E) /\ y = PutAdjIn(e, A) OBVIOUS
  <2>2. AddsE(a, x) /\ AddsA(e, y) BY <1>2, <1>4, <1>5, <2>1
  <2>3. x = y BY <1>6, <2>2, GraphEqual DEF GraphOK, SameNodes
  <2> QED BY <2>1, <2>3
<1> QED BY <1>1, <1>7, <1>8, <1>9

\* What a graph that is built has in it.
LEMMA BuiltKeys ==
    ASSUME NEW N, IsFiniteSet(N), OwnIDs(N), NEW E, IsFiniteSet(E), OwnIDs(E), NEW A
    PROVE  /\ GraphOK(Built(N, E, A))
           /\ DOMAIN Built(N, E, A).nodes = {n.id : n \in N}
           /\ DOMAIN Built(N, E, A).edges = {e.id : e \in E}
<1>1. PICK n : n = PutNodes(EmptyGraph, N) OBVIOUS
<1>2. PICK e : e = PutEdges(n, E) OBVIOUS
<1>3. PICK a : a = PutAdjIn(e, A) OBVIOUS
<1>4. GraphOK(n) /\ n.nodes = Put(EmptyGraph.nodes, NodeMap(N)) /\ n.edges = EmptyGraph.edges
  BY <1>1, EmptyOK, PutNodesAll DEF SameEdges
<1>5. GraphOK(e) /\ e.nodes = n.nodes /\ e.edges = Put(n.edges, EdgeMap(E)) BY <1>2, <1>4, PutEdgesAll
<1>6. GraphOK(a) /\ a.nodes = e.nodes /\ a.edges = e.edges BY <1>3, <1>5, PutAdjInAll
<1>7. EmptyGraph.nodes = << >> /\ EmptyGraph.edges = << >> /\ DOMAIN << >> = {} BY DEF EmptyGraph
<1>8. DOMAIN NodeMap(N) = {x.id : x \in N} /\ DOMAIN EdgeMap(E) = {x.id : x \in E}
  BY NodeMapValues, EdgeMapValues
<1>9. DOMAIN a.nodes = {x.id : x \in N} BY <1>4, <1>5, <1>6, <1>7, <1>8 DEF Put
<1>10. DOMAIN a.edges = {x.id : x \in E} BY <1>4, <1>5, <1>6, <1>7, <1>8 DEF Put
<1> QED BY <1>1, <1>2, <1>3, <1>6, <1>9, <1>10 DEF Built

\* Two sets of nodes, or of edges, with IDs of their own.
Separate(N, M) == IsFiniteSet(N) /\ IsFiniteSet(M) /\ N \cap M = {} /\ OwnIDs(N \cup M)

\* More is built from more.
LEMMA BuiltMore ==
    ASSUME NEW N, NEW M, Separate(N, M), NEW E, NEW F, Separate(E, F), NEW A, NEW B
    PROVE  PutAdjIn(PutEdges(PutNodes(Built(N, E, A), M), F), B) = Built(N \cup M, E \cup F, A \cup B)
<1> USE DEF Separate
<1>1. PICK n, n1 : n = PutNodes(EmptyGraph, N) /\ n1 = PutNodes(EmptyGraph, N \cup M) OBVIOUS
<1>2. OwnIDs(N) /\ OwnIDs(E) /\ OwnIDs(F) BY DEF OwnIDs
<1>3. IsFiniteSet(N \cup M) /\ IsFiniteSet(E \cup F) BY CardUnion
<1>4. GraphOK(n) /\ GraphOK(n1) BY <1>1, <1>3, EmptyOK, PutNodesAll
<1>5. PutNodes(n, M) = n1 BY <1>1, EmptyOK, PutNodesTwice
<1>6. PICK e, e1 : e = PutEdges(n, E) /\ e1 = PutEdges(n1, E) OBVIOUS
<1>7. GraphOK(e) /\ GraphOK(e1) BY <1>2, <1>4, <1>6, PutEdgesAll
<1>8. PutNodes(e, M) = e1 BY <1>2, <1>4, <1>5, <1>6, PutsCommute
<1>9. PutNodes(PutAdjIn(e, A), M) = PutAdjIn(e1, A) BY <1>2, <1>7, <1>8, PutsCommute
<1>10. PICK f : f = PutEdges(n1, E \cup F) OBVIOUS
<1>11. PutEdges(e1, F) = f BY <1>4, <1>6, <1>10, PutEdgesTwice
<1>12. PutEdges(PutAdjIn(e1, A), F) = PutAdjIn(f, A)
  <2>1. IsFiniteSet({}) BY FS_EmptySet
  <2> QED BY <1>2, <1>7, <1>11, <2>1, PutsCommute
<1>13. GraphOK(f) BY <1>3, <1>4, <1>10, PutEdgesAll
<1>14. PutAdjIn(PutAdjIn(f, A), B) = PutAdjIn(f, A \cup B) BY <1>13, PutAdjInTwice
<1>15. Built(N, E, A) = PutAdjIn(e, A) /\ Built(N \cup M, E \cup F, A \cup B) = PutAdjIn(f, A \cup B)
  BY <1>1, <1>6, <1>10 DEF Built
<1> QED BY <1>9, <1>12, <1>14, <1>15

\* What a step of t leaves of the other threads' IDs.
LEMMA IdFrame ==
    ASSUME IdInv, NEW t \in Threads, Alone(t), faults' \in Nat,
           nextEdgeID' \in Nat, nextEdgeID <= nextEdgeID',
           PendingEdges(t)' \subseteq (1..nextEdgeID') \ DOMAIN g'.edges,
           \A i \in PendingEdges(t)' : i \in PendingEdges(t) \/ i > nextEdgeID,
           \A i \in DOMAIN g'.edges : i \in DOMAIN g.edges \/ i \in PendingEdges(t) \/ Known(i),
           Adding(t)', EntryOK(th'[t]),
           th'[t].step = "putEdge" => th'[t].entry.op = "UpdateEdge" /\ \A e \in th'[t].todo : Known(e.id)
    PROVE  IdInv'
<1>0. nextEdgeID \in Nat BY DEF IdInv
<1>1. \A u \in Threads \ {t} : th'[u] = th[u] BY DEF Alone
<1>2. \A u \in Threads \ {t} : PendingEdges(u)' = PendingEdges(u) BY <1>1 DEF PendingEdges
<1>3. \A i \in 1..nextEdgeID : i \in 1..nextEdgeID' /\ ~(i > nextEdgeID) BY <1>0
<1>5. \A u \in Threads : PendingEdges(u) \subseteq (1..nextEdgeID) \ DOMAIN g.edges
  BY DEF IdInv, FreshEdges
<1>6. \A u \in Threads \ {t} : PendingEdges(u) \cap PendingEdges(t) = {} BY DEF IdInv, FreshEdges
<1>4. DOMAIN g'.edges \subseteq 1..nextEdgeID' BY <1>3, <1>5 DEF IdInv, Known
<1>7. FreshEdges'
  <2>1. \A u \in Threads : PendingEdges(u)' \subseteq (1..nextEdgeID)' \ DOMAIN g'.edges
    BY <1>2, <1>3, <1>5, <1>6 DEF Known
  <2>2. \A u \in Threads \ {t} : PendingEdges(u)' \cap PendingEdges(t)' = {}
    BY <1>2, <1>3, <1>5, <1>6
  <2>3. \A u \in Threads \ {t}, v \in Threads \ {t} : u # v => PendingEdges(u)' \cap PendingEdges(v)' = {}
    BY <1>2 DEF IdInv, FreshEdges
  <2> QED BY <2>1, <2>2, <2>3 DEF FreshEdges
<1>8. \A i : Known(i) => Known(i)' BY <1>2, <1>3 DEF Known
<1>9. \A u \in Threads \ {t} : Adding(u)' /\ EntryOK(th'[u]) BY <1>1 DEF IdInv, Adding
<1>10. \A u \in Threads \ {t} : Copying(u)' BY <1>1, <1>8 DEF IdInv, Copying
<1>11. Copying(t)' BY <1>8 DEF Copying
<1> QED BY <1>4, <1>7, <1>9, <1>10, <1>11 DEF IdInv

\* A step that adds no edge.
LEMMA IdQuiet ==
    ASSUME IdInv, NEW t \in Threads, Alone(t), faults' \in Nat, nextEdgeID' = nextEdgeID,
           \A i \in DOMAIN g'.edges : i \in DOMAIN g.edges \/ Known(i),
           th'[t].step \notin {"putEdges", "putAdjIn"}, EntryOK(th'[t]),
           th'[t].step = "checkTo" => \A e \in th'[t].todo : IsEdge(e),
           th'[t].step = "putEdge" => th'[t].entry.op = "UpdateEdge" /\ \A e \in th'[t].todo : Known(e.id)
    PROVE  IdInv'
<1>1. PendingEdges(t)' = {} BY DEF PendingEdges
<1>2. Adding(t)' BY DEF Adding
<1>3. nextEdgeID \in Nat BY DEF IdInv
<1> QED BY <1>1, <1>2, <1>3, IdFrame

\* A call takes the IDs of its edges.
LEMMA IdBegins ==
    ASSUME IdInv, NEW t \in Threads, NEW E, EdgesBegun(t, E)
    PROVE  IdInv'
<1> USE DEF EdgesBegun
<1>0. nextEdgeID \in Nat /\ faults' \in Nat BY DEF IdInv
<1>1. PendingEdges(t)' = {e.id : e \in E} BY DEF PendingEdges
<1>2. \A i \in PendingEdges(t)' : i \in (1..nextEdgeID') \ (1..nextEdgeID) BY <1>1
<1>3. \A i \in (1..nextEdgeID') \ (1..nextEdgeID) : i > nextEdgeID BY <1>0
<1>4. PendingEdges(t)' \subseteq (1..nextEdgeID') \ DOMAIN g'.edges BY <1>2 DEF IdInv
<1>5. Adding(t)' BY DEF Adding
<1>6. PICK r : r = th'[t] OBVIOUS
<1>7. AddsEdges(r) BY <1>6 DEF AddsEdges, OwnIDs
<1>8. EntryOK(th'[t]) BY <1>6, <1>7 DEF EntryOK
<1>9. Alone(t) /\ nextEdgeID' \in Nat /\ nextEdgeID <= nextEdgeID' /\ th'[t].step = "putEdges" /\ g' = g OBVIOUS
<1> HIDE DEF EdgesBegun
<1> QED BY <1>0, <1>2, <1>3, <1>4, <1>5, <1>8, <1>9, IdFrame

\* The transactions that write them.
LEMMA IdPutEdges ==
    ASSUME NodeInv, IdInv, NEW t \in Threads, PutEdgesTx(t)
    PROVE  IdInv'
<1>0. nextEdgeID \in Nat /\ faults \in Nat /\ IsGraph(g) BY DEF IdInv, NodeInv, TypeOK
<1>1. th[t].step = "putEdges" /\ faults' = faults /\ nextEdgeID' = nextEdgeID
  BY PutEdgesTxFacts DEF NodeInv
<1>2. PICK s, group :
        /\ s \in {shardFor(e.from) : e \in th[t].todo}
        /\ group = {e \in th[t].todo : shardFor(e.from) = s}
        /\ \/ /\ OneTx(th[t]) /\ g' = PutAdjIn(PutEdges(g, group), group)
              /\ Moves(t, "log", th[t].entry, {}, {}, 0)
           \/ /\ ~OneTx(th[t]) /\ g' = PutEdges(g, group)
              /\ Moves(t, IF th[t].todo \ group = {} THEN "putAdjIn" ELSE "putEdges",
                       th[t].entry, th[t].todo \ group, th[t].adj, th[t].id)
  BY PutEdgesTxFacts DEF NodeInv
<1> DEFINE A == th[t].adj
<1> DEFINE T == th[t].todo
<1>3. /\ T \subseteq A /\ (ShardCount = 1 => T = A)
      /\ th[t].entry.op = "AddEdge" => T = A /\ \E x \in A : A = {x}
      /\ \A e \in A : e.from \in Nat
      /\ \A d, e \in A : d.id = e.id => d = e
  BY <1>1 DEF IdInv, Adding
<1>4. group \subseteq T /\ group # {} BY <1>2
<1>5. PendingEdges(t) = {e.id : e \in T} BY <1>1 DEF PendingEdges
<1>6. PendingEdges(t) \subseteq (1..nextEdgeID) \ DOMAIN g.edges BY DEF IdInv, FreshEdges
<1>7. PICK h : h = PutEdges(g, group) OBVIOUS
<1>8. DOMAIN h.edges = DOMAIN g.edges \cup {e.id : e \in group}
  <2>1. \A d, e \in group : d.id = e.id => d = e BY <1>3, <1>4
  <2> QED BY <1>0, <1>7, <2>1, PutEdgesValues
<1>9. IsGraph(h) BY <1>0, <1>7, PutEdgesFields
<1>10. \A i \in DOMAIN h.edges : i \in DOMAIN g.edges \/ i \in PendingEdges(t) BY <1>4, <1>5, <1>8
<1>11. AddsEdges(th[t]) BY <1>1 DEF IdInv, EntryOK
<1>12. CASE OneTx(th[t]) /\ g' = PutAdjIn(h, group) /\ Moves(t, "log", th[t].entry, {}, {}, 0)
  <2>1. Alone(t) /\ th'[t].step = "log" BY <1>12 DEF Moves, Alone
  <2>2. g'.edges = h.edges BY <1>9, <1>12, PutAdjInFields
  <2>3. PendingEdges(t)' = {} BY <2>1 DEF PendingEdges
  <2>4. Adding(t)' /\ EntryOK(th'[t]) BY <2>1 DEF Adding, EntryOK
  <2> QED BY <1>0, <1>1, <1>10, <2>1, <2>2, <2>3, <2>4, IdFrame
<1>13. CASE /\ ~OneTx(th[t]) /\ g' = h
            /\ Moves(t, IF T \ group = {} THEN "putAdjIn" ELSE "putEdges",
                     th[t].entry, T \ group, A, th[t].id)
  <2>1. /\ Alone(t) /\ th'[t].step \in {"putAdjIn", "putEdges"} /\ th'[t].todo = T \ group
        /\ th'[t].adj = A /\ th'[t].entry = th[t].entry
        /\ th'[t].step = "putEdges" => T \ group # {}
    BY <1>13 DEF Moves, Alone
  <2>2. PendingEdges(t)' \subseteq {e.id : e \in T \ group} BY <2>1 DEF PendingEdges
  <2>3. \A e \in T \ group : e.id \notin {x.id : x \in group} BY <1>3, <1>4
  <2>4. PendingEdges(t)' \subseteq PendingEdges(t) BY <1>5, <2>2
  <2>5. PendingEdges(t)' \subseteq (1..nextEdgeID') \ DOMAIN g'.edges
    BY <1>1, <1>6, <1>8, <1>13, <2>2, <2>3, <2>4
  <2>6. ShardCount # 1 BY <1>13 DEF OneTx
  <2>7. th[t].entry.op = "AddEdge" => T \ group = {} BY <1>3, <1>4
  <2>8. Adding(t)' BY <1>3, <2>1, <2>6, <2>7 DEF Adding
  <2>9. AddsEdges(th'[t]) BY <1>1, <1>11, <2>1 DEF AddsEdges
  <2>10. EntryOK(th'[t]) BY <2>1, <2>9 DEF EntryOK
  <2>11. th'[t].step # "putEdge" BY <2>1
  <2> QED BY <1>0, <1>1, <1>10, <1>13, <2>1, <2>4, <2>5, <2>8, <2>10, <2>11, IdFrame
<1> QED BY <1>2, <1>7, <1>12, <1>13

\* The transactions that write their adj_in entries.
LEMMA IdPutAdjIn ==
    ASSUME NodeInv, IdInv, NEW t \in Threads, PutAdjInTx(t)
    PROVE  IdInv'
<1>0. nextEdgeID \in Nat /\ faults \in Nat /\ IsGraph(g) BY DEF IdInv, NodeInv, TypeOK
<1>1. th[t].step = "putAdjIn" /\ faults' = faults /\ nextEdgeID' = nextEdgeID
  BY PutAdjInTxFacts DEF NodeInv
<1>2. PICK group \in SUBSET th[t].adj :
                /\ g' = PutAdjIn(g, group)
                /\ \/ /\ th[t].adj \ group = {}
                      /\ Moves(t, "log", th[t].entry, {}, {}, 0)
                   \/ Moves(t, "putAdjIn", th[t].entry, th[t].todo, th[t].adj \ group, th[t].id)
  BY PutAdjInTxFacts DEF NodeInv
<1>3. g'.edges = g.edges BY <1>0, <1>2, PutAdjInFields
<1>4. /\ Alone(t) /\ th'[t].step \in {"log", "putAdjIn"}
      /\ th'[t].step = "putAdjIn" => th'[t].adj = th[t].adj \ group /\ th'[t].entry = th[t].entry
  BY <1>2 DEF Moves, Alone
<1>5. PendingEdges(t)' = {} BY <1>4 DEF PendingEdges
<1>6. Adding(t)'
  <2>1. \A e \in th[t].adj : e.from \in Nat /\ \A d \in th[t].adj : d.id = e.id => d = e
    BY <1>1 DEF IdInv, Adding
  <2> QED BY <1>4, <2>1 DEF Adding
<1>7. EntryOK(th'[t])
  <2>1. AddsEdges(th[t]) BY <1>1 DEF IdInv, EntryOK
  <2>2. th'[t].step = "putAdjIn" => AddsEdges(th'[t]) BY <1>4, <2>1 DEF AddsEdges
  <2> QED BY <1>4, <2>2 DEF EntryOK
<1>8. th'[t].step # "putEdge" BY <1>4
<1> QED BY <1>0, <1>1, <1>3, <1>4, <1>5, <1>6, <1>7, <1>8, IdFrame

\* A call on one node goes straight to its append.
LEMMA NodeTxLogs ==
    ASSUME NodeInv, NEW t \in Threads, UpdateNode(t) \/ SetNodeProps(t) \/ AddLabel(t) \/ RemoveLabel(t)
    PROVE  /\ th[t].step = "idle" /\ wal' = wal
           /\ th'[t].step = "log"
           /\ th'[t].entry.op \in {"UpdateNode", "SetNodeProps", "AddLabel", "RemoveLabel"}
<1>1. ASSUME NEW op, NEW id, NEW h, NEW e, NodeTx(op, t, id, h, e)
      PROVE  th[t].step = "idle" /\ wal' = wal /\ th'[t].step = "log" /\ th'[t].entry = e
  <2>1. th[t].step = "idle" /\ wal' = wal /\ Moves(t, "log", e, {}, {}, 0)
    BY <1>1, NodeTxFacts DEF NodeInv
  <2> QED BY <2>1 DEF Moves
<1>2. CASE UpdateNode(t)
  <2>1. PICK id \in NodeIDs, p \in PropArgs :
          NodeTx("UpdateNode", t, id, MergeNode(g, id, p), [op |-> "UpdateNode", id |-> id, props |-> p])
    BY <1>2 DEF UpdateNode
  <2>2. PICK e : e = [op |-> "UpdateNode", id |-> id, props |-> p] OBVIOUS
  <2>3. e.op = "UpdateNode" BY <2>2
  <2> QED BY <1>1, <2>1, <2>2, <2>3
<1>3. CASE SetNodeProps(t)
  <2>1. PICK id \in NodeIDs, p \in PropArgs :
          NodeTx("SetNodeProps", t, id, SetNode(g, id, p), [op |-> "SetNodeProps", id |-> id, props |-> p])
    BY <1>3 DEF SetNodeProps
  <2>2. PICK e : e = [op |-> "SetNodeProps", id |-> id, props |-> p] OBVIOUS
  <2>3. e.op = "SetNodeProps" BY <2>2
  <2> QED BY <1>1, <2>1, <2>2, <2>3
<1>4. CASE AddLabel(t)
  <2>1. PICK id \in NodeIDs, L \in LabelArgs \ {{}} :
          NodeTx("AddLabel", t, id, AddLabels(g, id, L), [op |-> "AddLabel", id |-> id, labels |-> L])
    BY <1>4 DEF AddLabel
  <2>2. PICK e : e = [op |-> "AddLabel", id |-> id, labels |-> L] OBVIOUS
  <2>3. e.op = "AddLabel" BY <2>2
  <2> QED BY <1>1, <2>1, <2>2, <2>3
<1>5. CASE RemoveLabel(t)
  <2>1. PICK id \in NodeIDs, L \in LabelArgs \ {{}} :
          NodeTx("RemoveLabel", t, id, RemoveLabels(g, id, L), [op |-> "RemoveLabel", id |-> id, labels |-> L])
    BY <1>5 DEF RemoveLabel
  <2>2. PICK e : e = [op |-> "RemoveLabel", id |-> id, labels |-> L] OBVIOUS
  <2>3. e.op = "RemoveLabel" BY <2>2
  <2> QED BY <1>1, <2>1, <2>2, <2>3
<1> QED BY <1>2, <1>3, <1>4, <1>5

\* A call has the nodes N to write.
LEMMA NodesBegin ==
    ASSUME NodeInv, NEW t \in Threads, AddNode(t) \/ AddNodeWithLabels(t) \/ AddNodeBatch(t)
    PROVE  /\ Alone(t) /\ th[t].step = "idle" /\ g' = g /\ wal' = wal
           /\ th'[t].step = "putNodes" /\ AddsNodes(th'[t]) /\ th'[t].todo = th'[t].entry.nodes
<1>1. PICK op \in NodeAdds : \E N :
        AllocNodes(op, t, N) /\ IsFiniteSet(N) /\ \A m, n \in N : m.id = n.id => m = n
  BY AllocatesNodes DEF NodeAdds
<1>2. PICK N : AllocNodes(op, t, N) /\ IsFiniteSet(N) /\ \A m, n \in N : m.id = n.id => m = n BY <1>1
<1>3. /\ th[t].step = "idle" /\ g' = g /\ wal' = wal
      /\ Moves(t, "putNodes", [op |-> op, nodes |-> N], N, {}, 0)
  BY <1>2, AllocFacts DEF NodeInv
<1>4. PICK r : r = th'[t] OBVIOUS
<1>5. r.step = "putNodes" /\ r.entry = [op |-> op, nodes |-> N] /\ r.todo = N /\ Alone(t)
  BY <1>3, <1>4 DEF Moves, Alone
<1>6. r.entry.op = op /\ r.entry.nodes = N BY <1>5
<1>7. AddsNodes(r) BY <1>2, <1>5, <1>6 DEF AddsNodes, OwnIDs
<1> QED BY <1>3, <1>4, <1>5, <1>6, <1>7

\* Every step keeps the IDs apart.
LEMMA NextIds ==
    ASSUME NodeInv, IdInv, NEW t \in Threads, Call(t) \/ Continue(t) \/ LogFails(t) \/ WriteFails(t)
    PROVE  IdInv'
<1>0. nextEdgeID \in Nat /\ faults \in Nat /\ Adding(t) /\ IsGraph(g) BY DEF IdInv, NodeInv, TypeOK
<1>1. CASE AddNode(t) \/ AddNodeWithLabels(t) \/ AddNodeBatch(t)
  <2>1. NodesOnly(t) BY <1>1, NodesOnlyFacts
  <2>2. th'[t].step = "putNodes" /\ AddsNodes(th'[t]) BY <1>1, NodesBegin
  <2>3. EntryOK(th'[t]) BY <2>2 DEF EntryOK
  <2> QED BY <1>0, <2>1, <2>2, <2>3, IdQuiet DEF NodesOnly, SameEdges
<1>2. CASE UpdateNode(t) \/ SetNodeProps(t) \/ AddLabel(t) \/ RemoveLabel(t)
  <2>1. NodesOnly(t) BY <1>2, NodesOnlyFacts
  <2>2. th'[t].step = "log" BY <1>2, NodeTxLogs
  <2>3. EntryOK(th'[t]) BY <2>2 DEF EntryOK
  <2> QED BY <1>0, <2>1, <2>2, <2>3, IdQuiet DEF NodesOnly, SameEdges
<1>3. CASE PutNodesTx(t)
  <2>1. NodesOnly(t) BY <1>3, NodesOnlyFacts
  <2>2. th[t].step = "putNodes" BY <1>3 DEF PutNodesTx
  <2>3. th'[t].step = "putNodes" => th'[t].entry = th[t].entry /\ th'[t].todo \subseteq th[t].todo
    BY <1>3, PutNodesTxFacts DEF NodeInv, Moves
  <2>4. AddsNodes(th[t]) BY <2>2 DEF IdInv, EntryOK
  <2>5. th'[t].step = "putNodes" => AddsNodes(th'[t]) BY <2>3, <2>4 DEF AddsNodes
  <2>6. EntryOK(th'[t]) BY <2>1, <2>5 DEF EntryOK, NodesOnly
  <2> QED BY <1>0, <2>1, <2>6, IdQuiet DEF NodesOnly, SameEdges
<1>4. CASE AddEdge(t)
  <2>1. /\ Alone(t) /\ faults' = faults /\ g' = g /\ nextEdgeID' = nextEdgeID
        /\ th'[t].step = "checkTo" /\ \A e \in th'[t].todo : IsEdge(e)
    BY <1>4, AddEdgeSource
  <2>2. EntryOK(th'[t]) BY <2>1 DEF EntryOK
  <2> QED BY <1>0, <2>1, <2>2, IdQuiet
<1>5. CASE CheckTo(t)
  <2>1. /\ th[t].step = "checkTo" /\ faults' = faults /\ g' = g
        /\ \/ Alone(t) /\ th'[t].step = "idle" /\ nextEdgeID' = nextEdgeID
           \/ \E e1 : EdgesBegun(t, {e1})
    BY <1>0, <1>5, CheckToBegins
  <2>2. CASE Alone(t) /\ th'[t].step = "idle" /\ nextEdgeID' = nextEdgeID
    <3>1. EntryOK(th'[t]) BY <2>2 DEF EntryOK
    <3> QED BY <1>0, <2>1, <2>2, <3>1, IdQuiet
  <2>3. CASE \E e1 : EdgesBegun(t, {e1}) BY <2>3, IdBegins
  <2> QED BY <2>1, <2>2, <2>3
<1>6. CASE AddEdgeBatch(t)
  <2>1. \E E : EdgesBegun(t, E) BY <1>0, <1>6, AddEdgeBatchBegins
  <2> QED BY <2>1, IdBegins
<1>7. CASE PutEdgesTx(t) BY <1>7, IdPutEdges
<1>8. CASE PutAdjInTx(t) BY <1>8, IdPutAdjIn
<1>9. CASE UpdateEdge(t)
  <2>1. faults' = faults /\ g' = g /\ nextEdgeID' = nextEdgeID BY <1>9, UpdateEdgeFacts DEF NodeInv
  <2>2. PICK id \in DOMAIN g.edges, p \in PropArgs : \E e :
          /\ e = [EdgeOf(id) EXCEPT !.props = Put(EdgeOf(id).props, p)]
          /\ Moves(t, "putEdge", [op |-> "UpdateEdge", id |-> id, props |-> p], {e}, {}, 0)
    BY <1>9, UpdateEdgeFacts DEF NodeInv
  <2>3. PICK e : /\ e = [EdgeOf(id) EXCEPT !.props = Put(EdgeOf(id).props, p)]
                 /\ Moves(t, "putEdge", [op |-> "UpdateEdge", id |-> id, props |-> p], {e}, {}, 0)
    BY <2>2
  <2>4. PICK r, y : r = th'[t] /\ y = [op |-> "UpdateEdge", id |-> id, props |-> p] OBVIOUS
  <2>5. Alone(t) /\ r.step = "putEdge" /\ r.entry = y /\ r.todo = {e} BY <2>3, <2>4 DEF Moves, Alone
  <2>6. r.entry.op = "UpdateEdge" BY <2>4, <2>5
  <2>7. e.id = id BY <2>3 DEF EdgeOf
  <2>8. Known(id) BY DEF IdInv, FreshEdges, Known
  <2>9. EntryOK(r) BY <2>5 DEF EntryOK
  <2>10. \A x \in r.todo : Known(x.id) BY <2>5, <2>7, <2>8
  <2> QED BY <1>0, <2>1, <2>4, <2>5, <2>6, <2>9, <2>10, IdQuiet
<1>10. CASE PutEdgeTx(t)
  <2>1. /\ th[t].step = "putEdge" /\ faults' = faults /\ nextEdgeID' = nextEdgeID
        /\ Moves(t, "log", th[t].entry, {}, {}, 0)
    BY <1>10, PutEdgeTxFacts DEF NodeInv
  <2>2. PICK e \in th[t].todo :
          g' = [g EXCEPT !.edges = Put(g.edges, Bind(e.id, [from |-> e.from, to |-> e.to, props |-> e.props]))]
    BY <1>10, PutEdgeTxFacts DEF NodeInv
  <2>3. PICK m, v : v = [from |-> e.from, to |-> e.to, props |-> e.props] /\ m = Put(g.edges, Bind(e.id, v)) OBVIOUS
  <2>4. g' = [g EXCEPT !.edges = m] BY <2>2, <2>3
  <2>5. g'.edges = m BY <1>0, <2>4 DEF IsGraph, GraphFields
  <2>6. DOMAIN m = DOMAIN g.edges \cup {e.id} BY <2>3 DEF Put, Bind
  <2>7. Known(e.id) BY <2>1 DEF IdInv, Copying
  <2>8. Alone(t) /\ th'[t].step = "log" BY <2>1 DEF Moves, Alone
  <2>9. EntryOK(th'[t]) BY <2>8 DEF EntryOK
  <2> QED BY <1>0, <2>1, <2>5, <2>6, <2>7, <2>8, <2>9, IdQuiet
<1>11. CASE DeleteEdge(t) \/ DeleteNode(t) \/ CollectIn(t) \/ FetchIn(t)
  <2>1. Collects(t) BY <1>11, CollectsFacts
  <2>2. EntryOK(th'[t]) BY <2>1 DEF Collects, EntryOK
  <2> QED BY <1>0, <2>1, <2>2, IdQuiet DEF Collects
<1>12. CASE DropEdgeTx(t)
  <2>1. faults' = faults /\ nextEdgeID' = nextEdgeID BY <1>12, DropEdgeTxFacts DEF NodeInv
  <2>2. PICK x \in th[t].todo :
          /\ g' = DropEdge(g, x[2])
          /\ Moves(t, "dropAdjIn", [op |-> "DeleteEdge", edge |-> x[2]], th[t].todo \ {x}, th[t].adj, th[t].id)
    BY <1>12, DropEdgeTxFacts DEF NodeInv
  <2>3. PICK r : r = th'[t] OBVIOUS
  <2>4. Alone(t) /\ r.step = "dropAdjIn" /\ r.entry = [op |-> "DeleteEdge", edge |-> x[2]]
    BY <2>2, <2>3 DEF Moves, Alone
  <2>5. r.entry.op = "DeleteEdge" BY <2>4
  <2>6. EntryOK(r) BY <2>4, <2>5 DEF EntryOK
  <2>7. DOMAIN g'.edges \subseteq DOMAIN g.edges
    <3>1. PICK i : i = x[2].id OBVIOUS
    <3>2. g'.edges = Drop(g.edges, {i}) BY <1>0, <2>2, <3>1, DropEdgeFields
    <3>3. DOMAIN Drop(g.edges, {i}) \subseteq DOMAIN g.edges BY DEF Drop
    <3> QED BY <3>2, <3>3
  <2> QED BY <1>0, <2>1, <2>3, <2>4, <2>6, <2>7, IdQuiet
<1>13. CASE DropAdjInTx(t)
  <2>1. /\ faults' = faults /\ nextEdgeID' = nextEdgeID /\ g' = DropAdjIn(g, th[t].entry.edge)
        /\ Alone(t) /\ th'[t].step = "log"
    BY <1>13, DropAdjInTxFacts DEF NodeInv, Moves, Alone
  <2>2. g'.edges = g.edges BY <1>0, <2>1, DropAdjInFields
  <2>3. EntryOK(th'[t]) BY <2>1 DEF EntryOK
  <2> QED BY <1>0, <2>1, <2>2, <2>3, IdQuiet
<1>14. CASE DropNodeTx(t)
  <2>1. /\ faults' = faults /\ nextEdgeID' = nextEdgeID
        /\ Alone(t) /\ th'[t].step \in {"log", "idle"}
        /\ g' = g \/ g' = DropNode(g, th[t].id)
    BY <1>14, DropNodeTxFacts DEF NodeInv, Moves, Alone
  <2>2. g'.edges = g.edges BY <1>0, <2>1, DropNodeFields DEF SameEdges
  <2>3. EntryOK(th'[t]) BY <2>1 DEF EntryOK
  <2> QED BY <1>0, <2>1, <2>2, <2>3, IdQuiet
<1>15. CASE Log(t) \/ LogFails(t)
  <2>1. /\ g' = g /\ nextEdgeID' = nextEdgeID
        /\ faults' = faults \/ faults' = faults + 1
        /\ Alone(t) /\ th'[t].step \in {"cascade", "idle"}
    BY <1>15, LogFacts DEF NodeInv, Moves, Alone
  <2>2. faults' \in Nat BY <1>0, <2>1
  <2>3. EntryOK(th'[t]) BY <2>1 DEF EntryOK
  <2> QED BY <2>1, <2>2, <2>3, IdQuiet
<1>16. CASE WriteFails(t)
  <2>1. g' = g /\ nextEdgeID' = nextEdgeID /\ faults' = faults + 1 /\ Alone(t) /\ th'[t].step = "idle"
    BY <1>16, WriteFailsFacts DEF NodeInv, Moves, Alone
  <2>2. faults' \in Nat BY <1>0, <2>1
  <2>3. EntryOK(th'[t]) BY <2>1 DEF EntryOK
  <2> QED BY <2>1, <2>2, <2>3, IdQuiet
<1> QED BY <1>1, <1>2, <1>3, <1>4, <1>5, <1>6, <1>7, <1>8, <1>9, <1>10, <1>11, <1>12, <1>13, <1>14, <1>15, <1>16
        DEF Call, Continue

\* Edge IDs are in the hands of one call each and used once, for any threads, calls and
\* failures, UpdateEdge included.
THEOREM IdInvariance == Spec => []IdInv
<1>1. Init => IdInv
  <2> SUFFICES ASSUME Init PROVE IdInv
    OBVIOUS
  <2>1. g.edges = << >> /\ nextEdgeID = 0 /\ faults = 0 BY DEF Init, EmptyGraph
  <2>2. DOMAIN g.edges = {} BY <2>1
  <2>3. \A t \in Threads : th[t] = Idle BY DEF Init
  <2>4. \A t \in Threads : th[t].step = "idle" /\ PendingEdges(t) = {}
    BY <2>3, IdleFields DEF PendingEdges
  <2>5. FreshEdges BY <2>2, <2>4 DEF FreshEdges
  <2>6. \A t \in Threads : Adding(t) /\ Copying(t) /\ EntryOK(th[t]) BY <2>4 DEF Adding, Copying, EntryOK
  <2> QED BY <2>1, <2>2, <2>5, <2>6 DEF IdInv
<1>2. NodeInv /\ IdInv /\ [Next]_vars => IdInv'
  <2> SUFFICES ASSUME NodeInv, IdInv, [Next]_vars PROVE IdInv'
    OBVIOUS
  <2>1. CASE UNCHANGED vars
    <3>1. g' = g /\ nextEdgeID' = nextEdgeID /\ th' = th /\ faults' = faults BY <2>1 DEF vars
    <3>2. \A t \in Threads : PendingEdges(t)' = PendingEdges(t) BY <3>1 DEF PendingEdges
    <3>3. \A i : Known(i) => Known(i)' BY <3>1, <3>2 DEF Known
    <3>4. FreshEdges' BY <3>1, <3>2 DEF IdInv, FreshEdges
    <3>5. \A t \in Threads : Adding(t)' /\ EntryOK(th'[t]) BY <3>1 DEF IdInv, Adding
    <3>6. \A t \in Threads : Copying(t)' BY <3>1, <3>3 DEF IdInv, Copying
    <3> QED BY <3>1, <3>4, <3>5, <3>6 DEF IdInv
  <2>2. CASE Next BY <2>2, NextIds DEF Next
  <2> QED BY <2>1, <2>2
<1> QED BY <1>1, <1>2, NodeInvariance, PTL DEF Spec

\* What the log adds with one more entry.
LEMMA LoggedMore ==
    ASSUME NodeInv, NEW e, wal' = Append(wal, e)
    PROVE  /\ LoggedNodes' = LoggedNodes \cup NodesIn(e) /\ LoggedEdges' = LoggedEdges \cup EdgesIn(e)
           /\ \A k \in DOMAIN wal : k \in DOMAIN wal' /\ wal'[k] = wal[k]
           /\ \E k \in DOMAIN wal' : wal'[k] = e
           /\ \A k \in DOMAIN wal' : k \in DOMAIN wal \/ wal'[k] = e
<1>1. PICK S : wal \in Seq(S) BY DEF NodeInv, TypeOK
<1>2. PICK n \in Nat : n = Len(wal) /\ DOMAIN wal = 1..n BY <1>1
<1>3. DOMAIN wal' = 1..n + 1 /\ wal'[n + 1] = e /\ \A k \in 1..n : wal'[k] = wal[k] BY <1>1, <1>2
<1>4. \A k \in 1..n + 1 : k \in 1..n \/ k = n + 1 BY <1>2
<1>5. n + 1 \in 1..n + 1 /\ \A k \in 1..n : k \in 1..n + 1 BY <1>2
<1>6. /\ \A k \in DOMAIN wal : k \in DOMAIN wal' /\ wal'[k] = wal[k]
      /\ \E k \in DOMAIN wal' : wal'[k] = e
      /\ \A k \in DOMAIN wal' : k \in DOMAIN wal \/ wal'[k] = e
  BY <1>2, <1>3, <1>4, <1>5
<1>7. LoggedNodes' = LoggedNodes \cup NodesIn(e)
  <2>1. \A x \in LoggedNodes' : x \in LoggedNodes \cup NodesIn(e)
    <3>1. TAKE x \in LoggedNodes'
    <3>2. PICK k \in DOMAIN wal' : x \in NodesIn(wal'[k]) BY DEF LoggedNodes
    <3>3. CASE wal'[k] = e BY <3>2, <3>3
    <3>4. CASE k \in DOMAIN wal BY <1>6, <3>2, <3>4 DEF LoggedNodes
    <3> QED BY <1>6, <3>3, <3>4
  <2>2. \A x \in LoggedNodes : x \in LoggedNodes'
    <3>1. TAKE x \in LoggedNodes
    <3>2. PICK k \in DOMAIN wal : x \in NodesIn(wal[k]) BY DEF LoggedNodes
    <3> QED BY <1>6, <3>2 DEF LoggedNodes
  <2>3. \A x \in NodesIn(e) : x \in LoggedNodes' BY <1>6 DEF LoggedNodes
  <2> QED BY <2>1, <2>2, <2>3
<1>8. LoggedEdges' = LoggedEdges \cup EdgesIn(e)
  <2>1. \A x \in LoggedEdges' : x \in LoggedEdges \cup EdgesIn(e)
    <3>1. TAKE x \in LoggedEdges'
    <3>2. PICK k \in DOMAIN wal' : x \in EdgesIn(wal'[k]) BY DEF LoggedEdges
    <3>3. CASE wal'[k] = e BY <3>2, <3>3
    <3>4. CASE k \in DOMAIN wal BY <1>6, <3>2, <3>4 DEF LoggedEdges
    <3> QED BY <1>6, <3>3, <3>4
  <2>2. \A x \in LoggedEdges : x \in LoggedEdges'
    <3>1. TAKE x \in LoggedEdges
    <3>2. PICK k \in DOMAIN wal : x \in EdgesIn(wal[k]) BY DEF LoggedEdges
    <3> QED BY <1>6, <3>2 DEF LoggedEdges
  <2>3. \A x \in EdgesIn(e) : x \in LoggedEdges' BY <1>6 DEF LoggedEdges
  <2> QED BY <2>1, <2>2, <2>3
<1> QED BY <1>6, <1>7, <1>8

\* The steps at which a call has an entry.
Acting == {"putNodes", "putEdges", "putAdjIn", "putEdge", "dropAdjIn", "log"}

\* A call keeps its entry until the log has it, or its failure is counted.
Keeps(t) ==
    /\ Alone(t) /\ (faults' = 0 => faults = 0)
    /\ wal' = wal \/ wal' = Append(wal, th[t].entry)
    /\ th[t].step \in Acting =>
         \/ th'[t].step \in Acting /\ th'[t].entry = th[t].entry
         \/ faults' # 0
         \/ wal' = Append(wal, th[t].entry)

\* So if there are only additions now, there were before.
LEMMA OnlyAdditionsBefore ==
    ASSUME NodeInv, NEW t \in Threads, Keeps(t), OnlyAdditions'
    PROVE  OnlyAdditions
<1>1. faults' = 0 /\ faults = 0 BY DEF Keeps, OnlyAdditions
<1>2. \A k \in DOMAIN wal : wal[k].op \in Additions
  <2>1. CASE wal' = wal BY <2>1 DEF OnlyAdditions
  <2>2. CASE wal' = Append(wal, th[t].entry) BY <2>2, LoggedMore DEF OnlyAdditions
  <2> QED BY <2>1, <2>2 DEF Keeps
<1>3. \A u \in Threads \ {t} : th[u].step \in Acting => th[u].entry.op \in Additions
  BY DEF Keeps, Alone, OnlyAdditions, Acting
<1>4. ASSUME th[t].step \in Acting PROVE th[t].entry.op \in Additions
  <2>1. CASE th'[t].step \in Acting /\ th'[t].entry = th[t].entry BY <2>1 DEF OnlyAdditions, Acting
  <2>2. CASE wal' = Append(wal, th[t].entry)
    <3>1. PICK k \in DOMAIN wal' : wal'[k] = th[t].entry BY <2>2, LoggedMore
    <3> QED BY <3>1 DEF OnlyAdditions
  <2> QED BY <1>1, <1>4, <2>1, <2>2 DEF Keeps
<1> QED BY <1>1, <1>2, <1>3, <1>4 DEF OnlyAdditions, Acting

\* A step of t that writes the nodes M, the edges F and the adj_in entries of B.
LEMMA BuiltStep ==
    ASSUME BuiltInv, NEW t \in Threads, Alone(t), wal' = wal,
           NEW M, IsFiniteSet(M), OwnIDs(M), \A m \in M : m.id \notin DOMAIN g.nodes,
           NEW F, IsFiniteSet(F), OwnIDs(F), \A e \in F : e.id \notin DOMAIN g.edges, NEW B,
           NodesBy(th'[t]) = NodesBy(th[t]) \cup M, EdgesBy(th'[t]) = EdgesBy(th[t]) \cup F,
           AdjBy(th'[t]) = AdjBy(th[t]) \cup B,
           g' = PutAdjIn(PutEdges(PutNodes(g, M), F), B)
    PROVE  BuiltInv'
<1>1. \A u \in Threads \ {t} : th'[u] = th[u] BY DEF Alone
<1>2. LoggedNodes' = LoggedNodes /\ LoggedEdges' = LoggedEdges /\ Replay(wal') = Replay(wal)
  BY DEF LoggedNodes, LoggedEdges
<1>3. PICK N, E, A : N = WrittenNodes /\ E = WrittenEdges /\ A = WrittenAdj OBVIOUS
<1>4. WrittenNodes' = N \cup M BY <1>1, <1>2, <1>3 DEF WrittenNodes
<1>5. WrittenEdges' = E \cup F BY <1>1, <1>2, <1>3 DEF WrittenEdges
<1>6. WrittenAdj' = A \cup B BY <1>1, <1>2, <1>3 DEF WrittenAdj
<1>7. IsFiniteSet(N) /\ OwnIDs(N) /\ IsFiniteSet(E) /\ OwnIDs(E) /\ g = Built(N, E, A)
  BY <1>3 DEF BuiltInv
<1>8. DOMAIN g.nodes = {n.id : n \in N} /\ DOMAIN g.edges = {e.id : e \in E} BY <1>7, BuiltKeys
<1>9. N \cap M = {} /\ OwnIDs(N \cup M)
  <2>1. \A n \in N, m \in M : n.id # m.id BY <1>8
  <2> QED BY <1>7, <2>1 DEF OwnIDs
<1>10. E \cap F = {} /\ OwnIDs(E \cup F)
  <2>1. \A n \in E, m \in F : n.id # m.id BY <1>8
  <2> QED BY <1>7, <2>1 DEF OwnIDs
<1>11. g' = Built(N \cup M, E \cup F, A \cup B)
  <2>1. PutAdjIn(PutEdges(PutNodes(Built(N, E, A), M), F), B) = Built(N \cup M, E \cup F, A \cup B)
    <3>1. Separate(N, M) /\ Separate(E, F) BY <1>7, <1>9, <1>10 DEF Separate
    <3> QED BY ONLY <3>1, BuiltMore
  <2> QED BY <1>7, <2>1
<1>12. IsFiniteSet(N \cup M) /\ IsFiniteSet(E \cup F) BY <1>7, <1>9, <1>10, CardUnion
<1>13. Apart'
  <2>1. LoggedNodes \subseteq N /\ LoggedEdges \subseteq E BY <1>3 DEF WrittenNodes, WrittenEdges
  <2>2. \A u \in Threads : NodesBy(th[u]) \subseteq N /\ EdgesBy(th[u]) \subseteq E
    BY <1>3 DEF WrittenNodes, WrittenEdges
  <2>3. \A u \in Threads : NodesBy(th'[u]) \cap LoggedNodes = {} /\ EdgesBy(th'[u]) \cap LoggedEdges = {}
    BY <1>1, <1>9, <1>10, <2>1 DEF BuiltInv, Apart
  <2>4. \A u \in Threads \ {t} : /\ NodesBy(th'[t]) \cap NodesBy(th'[u]) = {}
                                 /\ EdgesBy(th'[t]) \cap EdgesBy(th'[u]) = {}
    BY <1>1, <1>9, <1>10, <2>2 DEF BuiltInv, Apart
  <2>5. \A u \in Threads \ {t}, v \in Threads \ {t} :
          u # v => NodesBy(th'[u]) \cap NodesBy(th'[v]) = {} /\ EdgesBy(th'[u]) \cap EdgesBy(th'[v]) = {}
    BY <1>1 DEF BuiltInv, Apart
  <2> QED BY <1>2, <2>3, <2>4, <2>5 DEF Apart
<1> QED BY <1>2, <1>4, <1>5, <1>6, <1>9, <1>10, <1>11, <1>12, <1>13 DEF BuiltInv

\* A step of t that writes nothing.
LEMMA BuiltStays ==
    ASSUME BuiltInv, NEW t \in Threads, Alone(t), wal' = wal, g' = g,
           NodesBy(th'[t]) = NodesBy(th[t]), EdgesBy(th'[t]) = EdgesBy(th[t]), AdjBy(th'[t]) = AdjBy(th[t])
    PROVE  BuiltInv'
<1>1. GraphOK(g) BY BuiltKeys DEF BuiltInv
<1>2. IsFiniteSet({}) /\ OwnIDs({}) BY FS_EmptySet DEF OwnIDs
<1>3. g' = PutAdjIn(PutEdges(PutNodes(g, {}), {}), {}) BY <1>1, PutNone
<1> QED BY <1>2, <1>3, BuiltStep

\* A thread at one of the other steps has nothing of its own in the graph.
LEMMA NothingBy ==
    ASSUME NEW r, r.step \notin {"putNodes", "putEdges", "putAdjIn", "log"}
    PROVE  NodesBy(r) = {} /\ EdgesBy(r) = {} /\ AdjBy(r) = {}
BY DEF NodesBy, EdgesBy, AdjBy

\* A transaction writes nodes of its call.
LEMMA BuiltPutNodes ==
    ASSUME NodeInv, IdInv, OnlyAdditions, BuiltInv, NEW t \in Threads, PutNodesTx(t)
    PROVE  BuiltInv'
<1>1. PICK group \in SUBSET th[t].todo :
        /\ g' = PutNodes(g, group)
        /\ \/ th[t].todo \ group = {} /\ Moves(t, "log", th[t].entry, {}, {}, 0)
           \/ Moves(t, "putNodes", th[t].entry, th[t].todo \ group, th[t].adj, th[t].id)
  BY PutNodesTxFacts DEF NodeInv
<1>2. th[t].step = "putNodes" /\ wal' = wal BY PutNodesTxFacts DEF NodeInv
<1>3. PICK e, N, T, r : e = th[t].entry /\ N = e.nodes /\ T = th[t].todo /\ r = th'[t] OBVIOUS
<1>4. e.op \in NodeAdds /\ T \subseteq N /\ e.op \in Additions
  BY <1>2, <1>3 DEF IdInv, EntryOK, AddsNodes, OnlyAdditions
<1>5. e.op = "AddNodeBatch" BY <1>4 DEF NodeAdds, Additions
<1>6. NodesIn(e) = N /\ EdgesIn(e) = {} BY <1>3, <1>5 DEF NodesIn, EdgesIn, EdgeAdds
<1>7. NodesBy(th[t]) = N \ T /\ EdgesBy(th[t]) = {} /\ AdjBy(th[t]) = {}
  BY <1>2, <1>3, <1>6 DEF NodesBy, EdgesBy, AdjBy
<1>8. /\ Alone(t) /\ r.entry = e
      /\ \/ r.step = "log" /\ T \ group = {}
         \/ r.step = "putNodes" /\ r.todo = T \ group
  BY <1>1, <1>3 DEF Moves, Alone
<1>9. NodesBy(r) = (N \ T) \cup group
  <2>1. CASE r.step = "log" /\ T \ group = {}
    <3>1. NodesBy(r) = N BY <1>6, <1>8, <2>1 DEF NodesBy
    <3> QED BY <1>1, <1>3, <1>4, <2>1, <3>1
  <2>2. CASE r.step = "putNodes" /\ r.todo = T \ group
    <3>1. NodesBy(r) = N \ (T \ group) BY <1>6, <1>8, <2>2 DEF NodesBy
    <3> QED BY <1>1, <1>3, <1>4, <3>1
  <2> QED BY <1>8, <2>1, <2>2
<1>10. EdgesBy(r) = {} /\ AdjBy(r) = {} BY <1>6, <1>8 DEF EdgesBy, AdjBy
<1>11. IsFiniteSet(T) /\ OwnIDs(T) BY <1>2, <1>3 DEF NodeInv, FreshNodes, OwnIDs
<1>12. group \subseteq T BY <1>1, <1>3
<1>13. IsFiniteSet(group) BY <1>11, <1>12, FS_Subset
<1>14. OwnIDs(group) BY <1>11, <1>12 DEF OwnIDs
<1>15. \A m \in group : m.id \notin DOMAIN g.nodes
  <2>1. Pending(t) = {n.id : n \in T} BY <1>2, <1>3 DEF Pending
  <2>2. Pending(t) \cap DOMAIN g.nodes = {} BY DEF NodeInv, FreshNodes
  <2> QED BY <1>12, <2>1, <2>2
<1>16. GraphOK(g) BY BuiltKeys DEF BuiltInv
<1>17. GraphOK(g') BY <1>1, <1>13, <1>16, PutNodesAll
<1>18. g' = PutAdjIn(PutEdges(PutNodes(g, group), {}), {}) BY <1>1, <1>17, PutNone
<1>19. IsFiniteSet({}) /\ OwnIDs({}) BY FS_EmptySet DEF OwnIDs
<1>20. /\ NodesBy(th'[t]) = NodesBy(th[t]) \cup group
       /\ EdgesBy(th'[t]) = EdgesBy(th[t]) \cup {} /\ AdjBy(th'[t]) = AdjBy(th[t]) \cup {}
  BY <1>3, <1>7, <1>9, <1>10
<1> QED BY <1>2, <1>8, <1>13, <1>14, <1>15, <1>18, <1>19, <1>20, BuiltStep

\* What the entry of a call that adds edges adds.
LEMMA EdgeEntry ==
    ASSUME NEW r, AddsEdges(r)
    PROVE  NodesIn(r.entry) = {} /\ EdgesIn(r.entry) = EntryEdges(r.entry)
<1>1. r.entry.op \in EdgeAdds /\ r.entry.op # "AddNodeBatch" BY DEF AddsEdges, EdgeAdds
<1> QED BY <1>1 DEF NodesIn, EdgesIn

\* Or edges of its call.
LEMMA BuiltPutEdges ==
    ASSUME NodeInv, IdInv, BuiltInv, NEW t \in Threads, PutEdgesTx(t)
    PROVE  BuiltInv'
<1>1. th[t].step = "putEdges" /\ wal' = wal BY PutEdgesTxFacts DEF NodeInv
<1>2. PICK s, group :
        /\ s \in {shardFor(e.from) : e \in th[t].todo}
        /\ group = {e \in th[t].todo : shardFor(e.from) = s}
        /\ \/ /\ OneTx(th[t]) /\ g' = PutAdjIn(PutEdges(g, group), group)
              /\ Moves(t, "log", th[t].entry, {}, {}, 0)
           \/ /\ ~OneTx(th[t]) /\ g' = PutEdges(g, group)
              /\ Moves(t, IF th[t].todo \ group = {} THEN "putAdjIn" ELSE "putEdges",
                       th[t].entry, th[t].todo \ group, th[t].adj, th[t].id)
  BY PutEdgesTxFacts DEF NodeInv
<1>3. PICK e, N, T, r : e = th[t].entry /\ N = EntryEdges(e) /\ T = th[t].todo /\ r = th'[t] OBVIOUS
<1>a. AddsEdges(th[t]) BY <1>1 DEF IdInv, EntryOK
<1>4. th[t].adj = N /\ IsFiniteSet(N) /\ OwnIDs(N) /\ T \subseteq N
  BY <1>1, <1>3, <1>a DEF AddsEdges
<1>5. group \subseteq T BY <1>2, <1>3
<1>6. NodesIn(e) = {} /\ EdgesIn(e) = N BY <1>3, <1>a, EdgeEntry
<1>7. NodesBy(th[t]) = {} /\ EdgesBy(th[t]) = N \ T /\ AdjBy(th[t]) = {}
  BY <1>1, <1>3, <1>6 DEF NodesBy, EdgesBy, AdjBy
<1>8. IsFiniteSet(group) /\ OwnIDs(group)
  <2>1. group \subseteq N BY <1>4, <1>5
  <2>2. IsFiniteSet(group) BY <1>4, <2>1, FS_Subset
  <2> QED BY <1>4, <2>1, <2>2 DEF OwnIDs
<1>9. \A m \in group : m.id \notin DOMAIN g.edges
  <2>1. PendingEdges(t) = {n.id : n \in T} BY <1>1, <1>3 DEF PendingEdges
  <2>2. PendingEdges(t) \cap DOMAIN g.edges = {} BY DEF IdInv, FreshEdges
  <2> QED BY <1>5, <2>1, <2>2
<1>10. GraphOK(g) BY BuiltKeys DEF BuiltInv
<1>11. PutNodes(g, {}) = g BY <1>10, PutNone
<1>12. IsFiniteSet({}) /\ OwnIDs({}) BY FS_EmptySet DEF OwnIDs
<1>13. CASE OneTx(th[t]) /\ g' = PutAdjIn(PutEdges(g, group), group) /\ Moves(t, "log", th[t].entry, {}, {}, 0)
  <2>1. group = N BY <1>1, <1>2, <1>4, <1>13, OneTxWhole DEF IdInv
  <2>2. r.step = "log" /\ r.entry = e /\ Alone(t) BY <1>3, <1>13 DEF Moves, Alone
  <2>3. NodesBy(r) = {} /\ EdgesBy(r) = N /\ AdjBy(r) = N BY <1>6, <2>2 DEF NodesBy, EdgesBy, AdjBy
  <2>4. /\ NodesBy(th'[t]) = NodesBy(th[t]) \cup {}
        /\ EdgesBy(th'[t]) = EdgesBy(th[t]) \cup group /\ AdjBy(th'[t]) = AdjBy(th[t]) \cup group
    BY <1>3, <1>7, <2>1, <2>3
  <2>5. g' = PutAdjIn(PutEdges(PutNodes(g, {}), group), group) BY <1>11, <1>13
  <2> QED BY <1>1, <1>8, <1>9, <1>12, <2>2, <2>4, <2>5, BuiltStep
<1>14. CASE /\ g' = PutEdges(g, group)
            /\ Moves(t, IF T \ group = {} THEN "putAdjIn" ELSE "putEdges", th[t].entry, T \ group, th[t].adj, th[t].id)
  <2>1. /\ r.step = IF T \ group = {} THEN "putAdjIn" ELSE "putEdges"
        /\ r.entry = e /\ r.todo = T \ group /\ r.adj = N /\ Alone(t)
    BY <1>3, <1>4, <1>14 DEF Moves, Alone
  <2>2. NodesBy(r) = {} /\ AdjBy(r) = {} BY <1>6, <2>1 DEF NodesBy, AdjBy
  <2>3. EdgesBy(r) = N \ (T \ group) BY <1>6, <2>1 DEF EdgesBy
  <2>4. N \ (T \ group) = (N \ T) \cup group BY <1>4, <1>5
  <2>5. /\ NodesBy(th'[t]) = NodesBy(th[t]) \cup {}
        /\ EdgesBy(th'[t]) = EdgesBy(th[t]) \cup group /\ AdjBy(th'[t]) = AdjBy(th[t]) \cup {}
    BY <1>3, <1>7, <2>2, <2>3, <2>4
  <2>6. GraphOK(g') BY <1>8, <1>10, <1>14, PutEdgesAll
  <2>7. g' = PutAdjIn(PutEdges(PutNodes(g, {}), group), {}) BY <1>11, <1>14, <2>6, PutNone
  <2> QED BY <1>1, <1>8, <1>9, <1>12, <2>1, <2>5, <2>7, BuiltStep
<1> QED BY <1>2, <1>3, <1>13, <1>14

\* Or their adj_in entries.
LEMMA BuiltPutAdjIn ==
    ASSUME NodeInv, IdInv, BuiltInv, NEW t \in Threads, PutAdjInTx(t)
    PROVE  BuiltInv'
<1>1. th[t].step = "putAdjIn" /\ wal' = wal BY PutAdjInTxFacts DEF NodeInv
<1>2. PICK group \in SUBSET th[t].adj :
        /\ g' = PutAdjIn(g, group)
        /\ \/ /\ th[t].adj \ group = {}
              /\ Moves(t, "log", th[t].entry, {}, {}, 0)
           \/ Moves(t, "putAdjIn", th[t].entry, th[t].todo, th[t].adj \ group, th[t].id)
  BY PutAdjInTxFacts DEF NodeInv
<1>3. PICK e, N, A, r : e = th[t].entry /\ N = EntryEdges(e) /\ A = th[t].adj /\ r = th'[t] OBVIOUS
<1>4. AddsEdges(th[t]) BY <1>1 DEF IdInv, EntryOK
<1>5. A \subseteq N BY <1>3, <1>4 DEF AddsEdges
<1>6. NodesIn(e) = {} /\ EdgesIn(e) = N BY <1>3, <1>4, EdgeEntry
<1>7. NodesBy(th[t]) = {} /\ EdgesBy(th[t]) = N /\ AdjBy(th[t]) = N \ A
  BY <1>1, <1>3, <1>6 DEF NodesBy, EdgesBy, AdjBy
<1>8. /\ Alone(t) /\ r.entry = e
      /\ \/ r.step = "log" /\ A \ group = {}
         \/ r.step = "putAdjIn" /\ r.adj = A \ group
  BY <1>2, <1>3 DEF Moves, Alone
<1>9. NodesBy(r) = {} /\ EdgesBy(r) = N BY <1>6, <1>8 DEF NodesBy, EdgesBy
<1>10. AdjBy(r) = (N \ A) \cup group
  <2>1. CASE r.step = "log" /\ A \ group = {}
    <3>1. AdjBy(r) = N BY <1>6, <1>8, <2>1 DEF AdjBy
    <3> QED BY <1>2, <1>3, <1>5, <2>1, <3>1
  <2>2. CASE r.step = "putAdjIn" /\ r.adj = A \ group
    <3>1. AdjBy(r) = N \ (A \ group) BY <1>6, <1>8, <2>2 DEF AdjBy
    <3> QED BY <1>2, <1>3, <1>5, <3>1
  <2> QED BY <1>8, <2>1, <2>2
<1>11. /\ NodesBy(th'[t]) = NodesBy(th[t]) \cup {}
       /\ EdgesBy(th'[t]) = EdgesBy(th[t]) \cup {} /\ AdjBy(th'[t]) = AdjBy(th[t]) \cup group
  BY <1>3, <1>7, <1>9, <1>10
<1>12. GraphOK(g) BY BuiltKeys DEF BuiltInv
<1>13. g' = PutAdjIn(PutEdges(PutNodes(g, {}), {}), group) BY <1>2, <1>12, PutNone
<1>14. IsFiniteSet({}) /\ OwnIDs({}) BY FS_EmptySet DEF OwnIDs
<1> QED BY <1>1, <1>8, <1>11, <1>13, <1>14, BuiltStep

\* The append: what t has written becomes what the log adds.
LEMMA BuiltLog ==
    ASSUME NodeInv, OnlyAdditions, BuiltInv, NEW t \in Threads, Log(t)
    PROVE  BuiltInv'
<1>1. /\ th[t].step = "log" /\ g' = g
      /\ \/ Moves(t, "idle", None, {}, {}, 0)
         \/ Moves(t, "cascade", None, th[t].todo, th[t].adj, th[t].id)
  BY LogFacts DEF NodeInv
<1>2. Alone(t) /\ th'[t].step \in {"idle", "cascade"} BY <1>1 DEF Moves, Alone
<1>3. PICK e, r, R, N, E : /\ e = th[t].entry /\ r = th'[t] /\ R = Replay(wal)
                           /\ N = LoggedNodes /\ E = LoggedEdges
  OBVIOUS
<1>4. wal' = Append(wal, e) BY <1>3 DEF Log
<1>5. LoggedNodes' = N \cup NodesIn(e) /\ LoggedEdges' = E \cup EdgesIn(e) BY <1>3, <1>4, LoggedMore
<1>6. NodesBy(th[t]) = NodesIn(e) /\ EdgesBy(th[t]) = EdgesIn(e) /\ AdjBy(th[t]) = EdgesIn(e)
  BY <1>1, <1>3 DEF NodesBy, EdgesBy, AdjBy
<1>7. NodesBy(r) = {} /\ EdgesBy(r) = {} /\ AdjBy(r) = {} BY <1>2, <1>3, NothingBy
<1>8. \A u \in Threads \ {t} : th'[u] = th[u] BY <1>2 DEF Alone
<1>9. WrittenNodes' = WrittenNodes BY <1>3, <1>5, <1>6, <1>7, <1>8 DEF WrittenNodes
<1>10. WrittenEdges' = WrittenEdges BY <1>3, <1>5, <1>6, <1>7, <1>8 DEF WrittenEdges
<1>11. WrittenAdj' = WrittenAdj BY <1>3, <1>5, <1>6, <1>7, <1>8 DEF WrittenAdj
<1>12. Apart'
  <2>1. \A u \in Threads \ {t} :
          /\ NodesBy(th[u]) \cap N = {} /\ EdgesBy(th[u]) \cap E = {}
          /\ NodesBy(th[u]) \cap NodesIn(e) = {} /\ EdgesBy(th[u]) \cap EdgesIn(e) = {}
    BY <1>3, <1>6 DEF BuiltInv, Apart
  <2>2. \A u \in Threads : NodesBy(th'[u]) \cap LoggedNodes' = {} /\ EdgesBy(th'[u]) \cap LoggedEdges' = {}
    BY <1>3, <1>5, <1>7, <1>8, <2>1
  <2>3. \A u \in Threads \ {t} : /\ NodesBy(th'[t]) \cap NodesBy(th'[u]) = {}
                                 /\ EdgesBy(th'[t]) \cap EdgesBy(th'[u]) = {}
    BY <1>3, <1>7
  <2>4. \A u \in Threads \ {t}, v \in Threads \ {t} :
          u # v => NodesBy(th'[u]) \cap NodesBy(th'[v]) = {} /\ EdgesBy(th'[u]) \cap EdgesBy(th'[v]) = {}
    BY <1>8 DEF BuiltInv, Apart
  <2> QED BY <2>2, <2>3, <2>4 DEF Apart
<1>13. Separate(N, NodesIn(e)) /\ Separate(E, EdgesIn(e))
  <2>1. N \cup NodesIn(e) \subseteq WrittenNodes BY <1>3, <1>6 DEF WrittenNodes
  <2>2. E \cup EdgesIn(e) \subseteq WrittenEdges BY <1>3, <1>6 DEF WrittenEdges
  <2>3. IsFiniteSet(N) /\ IsFiniteSet(NodesIn(e)) BY <2>1, FS_Subset DEF BuiltInv
  <2>4. IsFiniteSet(E) /\ IsFiniteSet(EdgesIn(e)) BY <2>2, FS_Subset DEF BuiltInv
  <2>5. OwnIDs(N \cup NodesIn(e)) BY <2>1 DEF BuiltInv, OwnIDs
  <2>6. OwnIDs(E \cup EdgesIn(e)) BY <2>2 DEF BuiltInv, OwnIDs
  <2>7. N \cap NodesIn(e) = {} /\ E \cap EdgesIn(e) = {} BY <1>3, <1>6 DEF BuiltInv, Apart
  <2> QED BY <2>3, <2>4, <2>5, <2>6, <2>7 DEF Separate
<1>14. PICK B : B = Built(N, E, E) OBVIOUS
<1>15. PutAdjIn(PutEdges(PutNodes(B, NodesIn(e)), EdgesIn(e)), EdgesIn(e))
         = Built(N \cup NodesIn(e), E \cup EdgesIn(e), E \cup EdgesIn(e))
  BY ONLY <1>13, <1>14, BuiltMore
<1>16. R.g = B /\ R.failed = FALSE BY <1>3, <1>14 DEF BuiltInv
<1>17. GraphOK(B)
  <2>1. OwnIDs(N) /\ OwnIDs(E) /\ IsFiniteSet(N) /\ IsFiniteSet(E) BY <1>13 DEF Separate, OwnIDs
  <2> QED BY <1>14, <2>1, BuiltKeys
<1>18. e.op \in Additions BY <1>1, <1>3 DEF OnlyAdditions
<1>19. /\ Applicable(B, e)
       /\ applyOp(B, e) = PutAdjIn(PutEdges(PutNodes(B, NodesIn(e)), EdgesIn(e)), EdgesIn(e))
  <2>1. CASE e.op = "AddNodeBatch"
    <3>1. e.op \in NodeAdds /\ NodesIn(e) = e.nodes /\ EdgesIn(e) = {}
      BY <2>1 DEF NodeAdds, EdgeAdds, NodesIn, EdgesIn
    <3>2. Applicable(B, e) /\ applyOp(B, e) = PutNodes(B, NodesIn(e)) BY <3>1, ApplyOps
    <3>3. GraphOK(PutNodes(B, NodesIn(e))) BY <1>13, <1>17, PutNodesAll DEF Separate
    <3> QED BY <3>1, <3>2, <3>3, PutNone
  <2>2. CASE e.op \in EdgeAdds
    <3>1. NodesIn(e) = {} /\ EdgesIn(e) = EntryEdges(e) BY <2>2 DEF EdgeAdds, NodesIn, EdgesIn
    <3>2. PutNodes(B, {}) = B BY <1>17, PutNone
    <3> QED BY <2>2, <3>1, <3>2, ApplyEdgeAdds
  <2> QED BY <1>18, <2>1, <2>2 DEF Additions, EdgeAdds
<1>20. PICK S : wal \in Seq(S) BY DEF NodeInv, TypeOK
<1>21. Replay(wal') = ApplyNext(R, e) BY <1>3, <1>4, <1>20, ReplayAppend
<1>22. /\ Replay(wal').g = Built(N \cup NodesIn(e), E \cup EdgesIn(e), E \cup EdgesIn(e))
       /\ Replay(wal').failed = FALSE
  <2>1. PICK A : A = applyOp(B, e) OBVIOUS
  <2>2. Replay(wal') = [g |-> A, failed |-> R.failed \/ ~Applicable(B, e)] BY <1>16, <1>21, <2>1 DEF ApplyNext
  <2>3. (R.failed \/ ~Applicable(B, e)) = FALSE BY <1>16, <1>19
  <2>4. Replay(wal') = [g |-> A, failed |-> FALSE] BY <2>2, <2>3
  <2>5. Replay(wal').g = A /\ Replay(wal').failed = FALSE BY <2>4
  <2> QED BY <1>15, <1>19, <2>1, <2>5
<1> QED BY <1>1, <1>5, <1>9, <1>10, <1>11, <1>12, <1>22 DEF BuiltInv

\* So it is enough to look at the steps that leave nothing but additions.
LEMMA AdditionsStep ==
    ASSUME NodeInv, AdditionsInv, NEW t \in Threads, Keeps(t),
           OnlyAdditions /\ BuiltInv /\ OnlyAdditions' => BuiltInv'
    PROVE  AdditionsInv'
<1>1. SUFFICES ASSUME OnlyAdditions' PROVE BuiltInv'
  BY DEF AdditionsInv
<1>2. OnlyAdditions BY <1>1, OnlyAdditionsBefore
<1> QED BY <1>1, <1>2 DEF AdditionsInv

\* A call begins, ends or looks something up: nothing is written.
LEMMA AdditionsQuiet ==
    ASSUME NodeInv, AdditionsInv, NEW t \in Threads, Alone(t), faults' = faults, wal' = wal, g' = g,
           th[t].step \notin Acting,
           NodesBy(th'[t]) = {}, EdgesBy(th'[t]) = {}, AdjBy(th'[t]) = {}
    PROVE  AdditionsInv'
<1>1. Keeps(t) BY DEF Keeps
<1>2. NodesBy(th[t]) = {} /\ EdgesBy(th[t]) = {} /\ AdjBy(th[t]) = {} BY NothingBy DEF Acting
<1>3. BuiltInv => BuiltInv' BY <1>2, BuiltStays
<1> QED BY <1>1, <1>3, AdditionsStep

\* A call that does something else: its entry says so.
LEMMA AdditionsElse ==
    ASSUME NodeInv, AdditionsInv, NEW t \in Threads, Alone(t), faults' = faults, wal' = wal,
           th'[t].step \in Acting, th'[t].entry.op \notin Additions,
           th[t].step \in Acting => th'[t].entry = th[t].entry
    PROVE  AdditionsInv'
<1>1. Keeps(t) BY DEF Keeps
<1>2. ~OnlyAdditions' BY DEF OnlyAdditions, Acting
<1> QED BY <1>1, <1>2, AdditionsStep

\* A call has edges to write, and has written none.
LEMMA AdditionsBegin ==
    ASSUME NodeInv, AdditionsInv, NEW t \in Threads, NEW E, EdgesBegun(t, E), th[t].step \in {"idle", "checkTo"}
    PROVE  AdditionsInv'
<1>1. PICK r : r = th'[t] OBVIOUS
<1>2. /\ Alone(t) /\ faults' = faults /\ wal' = wal /\ g' = g
      /\ r.step = "putEdges" /\ r.todo = E /\ r.entry.op \in EdgeAdds /\ EntryEdges(r.entry) = E
  BY <1>1 DEF EdgesBegun
<1>3. NodesIn(r.entry) = {} /\ EdgesIn(r.entry) = E BY <1>2 DEF NodesIn, EdgesIn, EdgeAdds
<1>4. NodesBy(r) = {} /\ EdgesBy(r) = {} /\ AdjBy(r) = {} BY <1>2, <1>3 DEF NodesBy, EdgesBy, AdjBy
<1>5. th[t].step \notin Acting BY DEF Acting
<1> QED BY <1>1, <1>2, <1>4, <1>5, AdditionsQuiet

\* Every step.
LEMMA NextAdditions ==
    ASSUME NodeInv, IdInv, AdditionsInv, NEW t \in Threads,
           Call(t) \/ Continue(t) \/ LogFails(t) \/ WriteFails(t)
    PROVE  AdditionsInv'
<1>0. nextEdgeID \in Nat /\ faults \in Nat /\ Adding(t) BY DEF IdInv
<1>1. CASE AddNode(t) \/ AddNodeWithLabels(t) \/ AddNodeBatch(t)
  <2>1. /\ Alone(t) /\ th[t].step = "idle" /\ g' = g /\ wal' = wal
        /\ th'[t].step = "putNodes" /\ AddsNodes(th'[t]) /\ th'[t].todo = th'[t].entry.nodes
    BY <1>1, NodesBegin
  <2>2. faults' = faults BY <1>1, NodesOnlyFacts DEF NodesOnly
  <2>3. NodesIn(th'[t].entry) \subseteq th'[t].todo BY <2>1 DEF NodesIn
  <2>4. NodesBy(th'[t]) = {} /\ EdgesBy(th'[t]) = {} /\ AdjBy(th'[t]) = {}
    BY <2>1, <2>3 DEF NodesBy, EdgesBy, AdjBy
  <2>5. th[t].step \notin Acting BY <2>1 DEF Acting
  <2> QED BY <2>1, <2>2, <2>4, <2>5, AdditionsQuiet
<1>2. CASE UpdateNode(t) \/ SetNodeProps(t) \/ AddLabel(t) \/ RemoveLabel(t)
  <2>1. /\ th[t].step = "idle" /\ wal' = wal /\ th'[t].step = "log"
        /\ th'[t].entry.op \in {"UpdateNode", "SetNodeProps", "AddLabel", "RemoveLabel"}
    BY <1>2, NodeTxLogs
  <2>2. Alone(t) /\ faults' = faults BY <1>2, NodesOnlyFacts DEF NodesOnly
  <2> QED BY <2>1, <2>2, AdditionsElse DEF Acting, Additions
<1>3. CASE PutNodesTx(t)
  <2>1. th[t].step = "putNodes" /\ wal' = wal BY <1>3, PutNodesTxFacts DEF NodeInv
  <2>2. Alone(t) /\ faults' = faults BY <1>3, NodesOnlyFacts DEF NodesOnly
  <2>3. th'[t].step \in {"log", "putNodes"} /\ th'[t].entry = th[t].entry
    BY <1>3, PutNodesTxFacts DEF NodeInv, Moves
  <2>4. Keeps(t) BY <2>1, <2>2, <2>3 DEF Keeps, Acting
  <2>5. OnlyAdditions /\ BuiltInv => BuiltInv' BY <1>3, BuiltPutNodes
  <2> QED BY <2>4, <2>5, AdditionsStep
<1>4. CASE AddEdge(t)
  <2>1. Alone(t) /\ faults' = faults /\ g' = g /\ th[t].step = "idle" /\ th'[t].step = "checkTo"
    BY <1>4, AddEdgeSource
  <2>2. wal' = wal BY <1>4 DEF AddEdge
  <2>3. NodesBy(th'[t]) = {} /\ EdgesBy(th'[t]) = {} /\ AdjBy(th'[t]) = {} BY <2>1, NothingBy
  <2>4. th[t].step \notin Acting BY <2>1 DEF Acting
  <2> QED BY <2>1, <2>2, <2>3, <2>4, AdditionsQuiet
<1>5. CASE CheckTo(t)
  <2>1. /\ th[t].step = "checkTo" /\ faults' = faults /\ g' = g
        /\ \/ Alone(t) /\ th'[t].step = "idle" /\ nextEdgeID' = nextEdgeID
           \/ \E e1 : EdgesBegun(t, {e1})
    BY <1>0, <1>5, CheckToBegins
  <2>2. CASE Alone(t) /\ th'[t].step = "idle"
    <3>1. wal' = wal BY <1>5 DEF CheckTo
    <3>2. NodesBy(th'[t]) = {} /\ EdgesBy(th'[t]) = {} /\ AdjBy(th'[t]) = {} BY <2>2, NothingBy
    <3>3. th[t].step \notin Acting BY <2>1 DEF Acting
    <3> QED BY <2>1, <2>2, <3>1, <3>2, <3>3, AdditionsQuiet
  <2>3. CASE \E e1 : EdgesBegun(t, {e1}) BY <2>1, <2>3, AdditionsBegin
  <2> QED BY <2>1, <2>2, <2>3
<1>6. CASE AddEdgeBatch(t)
  <2>1. th[t].step = "idle" /\ \E E : EdgesBegun(t, E) BY <1>0, <1>6, AddEdgeBatchBegins
  <2> QED BY <2>1, AdditionsBegin
<1>7. CASE PutEdgesTx(t)
  <2>1. th[t].step = "putEdges" /\ wal' = wal /\ faults' = faults BY <1>7, PutEdgesTxFacts DEF NodeInv
  <2>2. PICK s, group :
           \/ Moves(t, "log", th[t].entry, {}, {}, 0)
           \/ Moves(t, IF th[t].todo \ group = {} THEN "putAdjIn" ELSE "putEdges",
                    th[t].entry, th[t].todo \ group, th[t].adj, th[t].id)
    BY <1>7, PutEdgesTxFacts DEF NodeInv
  <2>3. Alone(t) /\ th'[t].step \in {"log", "putAdjIn", "putEdges"} /\ th'[t].entry = th[t].entry
    BY <2>2 DEF Moves, Alone
  <2>4. Keeps(t) BY <2>1, <2>3 DEF Keeps, Acting
  <2>5. BuiltInv => BuiltInv' BY <1>7, BuiltPutEdges
  <2> QED BY <2>4, <2>5, AdditionsStep
<1>8. CASE PutAdjInTx(t)
  <2>1. th[t].step = "putAdjIn" /\ wal' = wal /\ faults' = faults BY <1>8, PutAdjInTxFacts DEF NodeInv
  <2>2. PICK group :
           \/ Moves(t, "log", th[t].entry, {}, {}, 0)
           \/ Moves(t, "putAdjIn", th[t].entry, th[t].todo, th[t].adj \ group, th[t].id)
    BY <1>8, PutAdjInTxFacts DEF NodeInv
  <2>3. Alone(t) /\ th'[t].step \in {"log", "putAdjIn"} /\ th'[t].entry = th[t].entry
    BY <2>2 DEF Moves, Alone
  <2>4. Keeps(t) BY <2>1, <2>3 DEF Keeps, Acting
  <2>5. BuiltInv => BuiltInv' BY <1>8, BuiltPutAdjIn
  <2> QED BY <2>4, <2>5, AdditionsStep
<1>9. CASE UpdateEdge(t)
  <2>1. faults' = faults /\ th[t].step = "idle" /\ wal' = wal BY <1>9, UpdateEdgeFacts DEF NodeInv
  <2>2. PICK id \in DOMAIN g.edges, p \in PropArgs : \E e :
          /\ e = [EdgeOf(id) EXCEPT !.props = Put(EdgeOf(id).props, p)]
          /\ Moves(t, "putEdge", [op |-> "UpdateEdge", id |-> id, props |-> p], {e}, {}, 0)
    BY <1>9, UpdateEdgeFacts DEF NodeInv
  <2>3. PICK y : y = [op |-> "UpdateEdge", id |-> id, props |-> p] OBVIOUS
  <2>4. Alone(t) /\ th'[t].step = "putEdge" /\ th'[t].entry = y BY <2>2, <2>3 DEF Moves, Alone
  <2>5. y.op = "UpdateEdge" BY <2>3
  <2> QED BY <2>1, <2>4, <2>5, AdditionsElse DEF Acting, Additions
<1>10. CASE PutEdgeTx(t)
  <2>1. /\ th[t].step = "putEdge" /\ faults' = faults /\ wal' = wal
        /\ Moves(t, "log", th[t].entry, {}, {}, 0)
    BY <1>10, PutEdgeTxFacts DEF NodeInv
  <2>2. Alone(t) /\ th'[t].step = "log" /\ th'[t].entry = th[t].entry BY <2>1 DEF Moves, Alone
  <2>3. th[t].entry.op = "UpdateEdge" BY <2>1 DEF IdInv, Copying
  <2> QED BY <2>1, <2>2, <2>3, AdditionsElse DEF Acting, Additions
<1>11. CASE DeleteEdge(t) \/ DeleteNode(t) \/ CollectIn(t) \/ FetchIn(t)
  <2>1. /\ Alone(t) /\ g' = g /\ faults' = faults /\ th[t].step \in {"idle", "collectIn", "fetchIn"}
        /\ th'[t].step \in {"collectIn", "fetchIn", "cascade"}
    BY <1>11, CollectsFacts DEF Collects
  <2>2. wal' = wal BY <1>11 DEF DeleteEdge, DeleteNode, CollectIn, FetchIn
  <2>3. NodesBy(th'[t]) = {} /\ EdgesBy(th'[t]) = {} /\ AdjBy(th'[t]) = {} BY <2>1, NothingBy
  <2>4. th[t].step \notin Acting BY <2>1 DEF Acting
  <2> QED BY <2>1, <2>2, <2>3, <2>4, AdditionsQuiet
<1>12. CASE DropEdgeTx(t)
  <2>1. faults' = faults /\ wal' = wal /\ th[t].step = "cascade" BY <1>12, DropEdgeTxFacts DEF NodeInv
  <2>2. PICK x \in th[t].todo :
          Moves(t, "dropAdjIn", [op |-> "DeleteEdge", edge |-> x[2]], th[t].todo \ {x}, th[t].adj, th[t].id)
    BY <1>12, DropEdgeTxFacts DEF NodeInv
  <2>3. PICK y : y = [op |-> "DeleteEdge", edge |-> x[2]] OBVIOUS
  <2>4. Alone(t) /\ th'[t].step = "dropAdjIn" /\ th'[t].entry = y BY <2>2, <2>3 DEF Moves, Alone
  <2>5. y.op = "DeleteEdge" BY <2>3
  <2> QED BY <2>1, <2>4, <2>5, AdditionsElse DEF Acting, Additions
<1>13. CASE DropAdjInTx(t)
  <2>1. /\ th[t].step = "dropAdjIn" /\ faults' = faults /\ wal' = wal
        /\ Moves(t, "log", th[t].entry, th[t].todo, th[t].adj, th[t].id)
    BY <1>13, DropAdjInTxFacts DEF NodeInv
  <2>2. Alone(t) /\ th'[t].step = "log" /\ th'[t].entry = th[t].entry BY <2>1 DEF Moves, Alone
  <2>3. th[t].entry.op = "DeleteEdge" BY <2>1 DEF IdInv, EntryOK
  <2> QED BY <2>1, <2>2, <2>3, AdditionsElse DEF Acting, Additions
<1>14. CASE DropNodeTx(t)
  <2>1. faults' = faults /\ wal' = wal /\ th[t].step = "cascade" BY <1>14, DropNodeTxFacts DEF NodeInv
  <2>2. PICK y : y = [op |-> "DeleteNode", id |-> th[t].id] OBVIOUS
  <2>3. y.op = "DeleteNode" BY <2>2
  <2>4. \/ Moves(t, "log", y, {}, {}, 0)
        \/ g' = g /\ Moves(t, "idle", None, {}, {}, 0)
    BY <1>14, <2>2, DropNodeTxFacts DEF NodeInv
  <2>5. CASE Moves(t, "log", y, {}, {}, 0)
    <3>1. Alone(t) /\ th'[t].step = "log" /\ th'[t].entry = y BY <2>5 DEF Moves, Alone
    <3> QED BY <2>1, <2>3, <3>1, AdditionsElse DEF Acting, Additions
  <2>6. CASE g' = g /\ Moves(t, "idle", None, {}, {}, 0)
    <3>1. Alone(t) /\ th'[t].step = "idle" BY <2>6 DEF Moves, Alone
    <3>2. NodesBy(th'[t]) = {} /\ EdgesBy(th'[t]) = {} /\ AdjBy(th'[t]) = {} BY <3>1, NothingBy
    <3>3. th[t].step \notin Acting BY <2>1 DEF Acting
    <3> QED BY <2>1, <2>6, <3>1, <3>2, <3>3, AdditionsQuiet
  <2> QED BY <2>4, <2>5, <2>6
<1>15. CASE Log(t)
  <2>1. Alone(t) BY <1>15, LogFacts DEF NodeInv, Moves, Alone
  <2>2. wal' = Append(wal, th[t].entry) /\ faults' = faults BY <1>15 DEF Log, Goto
  <2>3. Keeps(t) BY <2>1, <2>2 DEF Keeps
  <2>4. OnlyAdditions /\ BuiltInv => BuiltInv' BY <1>15, BuiltLog
  <2> QED BY <2>3, <2>4, AdditionsStep
<1>16. CASE LogFails(t) \/ WriteFails(t)
  <2>1. Alone(t)
    <3>1. CASE LogFails(t) BY <3>1, LogFacts DEF NodeInv, Moves, Alone
    <3>2. CASE WriteFails(t) BY <3>2, WriteFailsFacts DEF NodeInv, Moves, Alone
    <3> QED BY <1>16, <3>1, <3>2
  <2>2. wal' = wal /\ faults' = faults + 1 BY <1>16 DEF LogFails, WriteFails
  <2>3. faults' # 0 BY <1>0, <2>2
  <2>4. Keeps(t) /\ ~OnlyAdditions' BY <2>1, <2>2, <2>3 DEF Keeps, OnlyAdditions
  <2> QED BY <2>4, AdditionsStep
<1> QED BY <1>1, <1>2, <1>3, <1>4, <1>5, <1>6, <1>7, <1>8, <1>9, <1>10, <1>11, <1>12, <1>13, <1>14, <1>15, <1>16
        DEF Call, Continue

\* As long as there are only additions and nothing fails, the graph is built from what is
\* written and the log leads to what is logged, in whatever order the calls came: the
\* invariant behind AdditionsOfAnyCallersCommute, for any threads, operations and shards.
THEOREM AdditionsInvariance == Spec => []AdditionsInv
<1>1. Init => AdditionsInv
  <2> SUFFICES ASSUME Init PROVE BuiltInv
    BY DEF AdditionsInv
  <2>1. Replay(wal) = Start /\ g = EmptyGraph BY ReplayEmpty DEF Init
  <2>2. \A t \in Threads : th[t] = Idle BY DEF Init
  <2>3. \A t \in Threads : NodesBy(th[t]) = {} /\ EdgesBy(th[t]) = {} /\ AdjBy(th[t]) = {}
    BY <2>2, IdleFields, NothingBy
  <2>4. LoggedNodes = {} /\ LoggedEdges = {} BY DEF Init, LoggedNodes, LoggedEdges
  <2>5. WrittenNodes = {} /\ WrittenEdges = {} /\ WrittenAdj = {}
    BY <2>3, <2>4 DEF WrittenNodes, WrittenEdges, WrittenAdj
  <2>6. EmptyGraph = Built({}, {}, {}) BY EmptyOK, PutNone DEF Built
  <2>7. IsFiniteSet({}) /\ OwnIDs({}) BY FS_EmptySet DEF OwnIDs
  <2>8. Apart BY <2>3 DEF Apart
  <2> QED BY <2>1, <2>4, <2>5, <2>6, <2>7, <2>8, EmptyOK DEF BuiltInv
<1>2. NodeInv /\ IdInv /\ AdditionsInv /\ [Next]_vars => AdditionsInv'
  <2> SUFFICES ASSUME NodeInv, IdInv, AdditionsInv, [Next]_vars PROVE AdditionsInv'
    OBVIOUS
  <2>1. CASE UNCHANGED vars
    <3>1. g' = g /\ th' = th /\ wal' = wal /\ faults' = faults BY <2>1 DEF vars
    <3>2. LoggedNodes' = LoggedNodes /\ LoggedEdges' = LoggedEdges BY <3>1 DEF LoggedNodes, LoggedEdges
    <3>3. WrittenNodes' = WrittenNodes /\ WrittenEdges' = WrittenEdges /\ WrittenAdj' = WrittenAdj
      BY <3>1, <3>2 DEF WrittenNodes, WrittenEdges, WrittenAdj
    <3>4. Apart => Apart' BY <3>1, <3>2 DEF Apart
    <3>5. BuiltInv => BuiltInv' BY <3>1, <3>2, <3>3, <3>4 DEF BuiltInv
    <3>6. OnlyAdditions' => OnlyAdditions BY <3>1 DEF OnlyAdditions
    <3> QED BY <3>5, <3>6 DEF AdditionsInv
  <2>2. CASE Next BY <2>2, NextAdditions DEF Next
  <2> QED BY <2>1, <2>2
<1> QED BY <1>1, <1>2, NodeInvariance, IdInvariance, PTL DEF Spec

\* A follower that applies a log of batches of nodes and of edges from the start ends with
\* the leader's database, counters included, although any number of callers interleaved
\* their transactions and the log has the entries in another order than they committed in.
THEOREM AdditionsOfAnyCallersCommute == Spec => []AdditionsCommute
<1>1. TypeOK /\ AdditionsInv => AdditionsCommute
  <2> SUFFICES ASSUME TypeOK, AdditionsInv, Quiet, faults = 0, \A k \in DOMAIN wal : wal[k].op \in Additions
               PROVE  Replay(wal) = [g |-> g, failed |-> FALSE]
    BY DEF AdditionsCommute, Additions
  <2>1. OnlyAdditions BY DEF OnlyAdditions, Quiet
  <2>2. \A t \in Threads : NodesBy(th[t]) = {} /\ EdgesBy(th[t]) = {} /\ AdjBy(th[t]) = {}
    BY NothingBy DEF Quiet
  <2>3. WrittenNodes = LoggedNodes /\ WrittenEdges = LoggedEdges /\ WrittenAdj = LoggedEdges
    BY <2>2 DEF WrittenNodes, WrittenEdges, WrittenAdj
  <2>4. g = Replay(wal).g /\ Replay(wal).failed = FALSE BY <2>1, <2>3 DEF AdditionsInv, BuiltInv
  <2>5. Replay(wal) = [g |-> Replay(wal).g, failed |-> Replay(wal).failed] BY ReplayRecord DEF TypeOK
  <2> QED BY <2>4, <2>5
<1>2. NodeInv => TypeOK BY DEF NodeInv
<1> QED BY <1>1, <1>2, NodeInvariance, AdditionsInvariance, PTL
================================================================================
