-------------------------------- MODULE Traversal --------------------------------
(***************************************************************************)
(* The traversals (traversal.go), the query builder over them (query.go) and the    *)
(* path algorithms (path.go), each a loop of read transactions beside writers who    *)
(* change the graph between any two of them.  One caller runs one of them at a time;  *)
(* the database has one shard, where edges come in the order of their IDs.            *)
(***************************************************************************)
EXTENDS Integers, Sequences, FiniteSets, SequencesExt

CONSTANTS
    InitGraphs,        \* [nodes, edges] that the database may hold at the start
    Walks,             \* the calls that are made
    NewNodes,          \* what other callers add: sets of [labels, props] and of
    NewEdges,          \* [from, to, label, w]
    MaxWrites          \* bound on the writes of other callers

VARIABLES
    nodes,             \* id -> [labels, props]
    edges,             \* a set of [id, from, to, label, w]; w = 0: no weight property
    walk,              \* the caller's traversal
    alloc,             \* the next [node, edge] ID
    quiet,             \* history: no write since the caller's call began
    writes

graphVars == <<nodes, edges, alloc>>
tvars == <<graphVars, walk, quiet, writes>>

NoWalk == [pc |-> "idle"]

(***************************************************************************)
(* Reads: each is one transaction.                                           *)
(***************************************************************************)
\* S in the order of less, which is strict and total on it.
InOrder(S, less(_, _)) ==
    [i \in 1..Cardinality(S) |-> CHOOSE x \in S : Cardinality({y \in S : less(y, x)}) = i - 1]

ByID(S) == InOrder(S, LAMBDA e, f : e.id < f.id)

getEdgesForNode(n, dir) ==
    (IF dir = "in"  THEN <<>> ELSE ByID({e \in edges : e.from = n})) \o
    (IF dir = "out" THEN <<>> ELSE ByID({e \in edges : e.to = n}))

NodeAt(n) == [id |-> n] @@ nodes[n]
NodeIDs == InOrder(DOMAIN nodes, <)

\* Where e leads from n.
Target(e, n, dir) ==
    CASE dir = "out"  -> e.to
      [] dir = "in"   -> e.from
      [] dir = "both" -> IF e.to = n THEN e.from ELSE e.to

(***************************************************************************)
(* How a call ends.                                                         *)
(***************************************************************************)
Done(w) == [w EXCEPT !.pc = "done", !.todo = <<>>, !.cur.edges = <<>>]
Fail(w) == [Done(w) EXCEPT !.err = TRUE]

\* buildPathResult fetches the nodes again, and fails when one is gone.
buildPathResult(w, path) ==
    IF {w.from} \cup {path[i].to : i \in DOMAIN path} \subseteq DOMAIN nodes
    THEN [w EXCEPT !.out = Append(@, path)]
    ELSE Fail(w)

(***************************************************************************)
(* BFS, DFS and the visitor of Query.Execute.                                 *)
(***************************************************************************)
\* The visitor: the node filter, the offset, and a limit that stops at one result more.
Visit(w, n, path) ==
    IF w.want # "" /\ w.want \notin nodes[n].labels THEN w
    ELSE IF w.skipped < w.offset THEN [w EXCEPT !.skipped = @ + 1]
    ELSE IF w.limit > 0 /\ Len(w.out) >= w.limit THEN Done(w)
    ELSE [w EXCEPT !.out = Append(@, [node |-> n, copy |-> NodeAt(n), path |-> path])]

Entry(n, path) == [node |-> n, path |-> path, edges |-> <<>>]
Queued(w, n, path) == IF w.pc = "done" THEN w ELSE [w EXCEPT !.todo = Append(@, Entry(n, path))]

\* Mutant: the depth of an entry is compared with > .
TooDeep_offByOne(w, entry) == w.max >= 0 /\ Len(entry.path) > w.max

TooDeep(w, entry) == w.max >= 0 /\ Len(entry.path) >= w.max

\* A queue for BFS, a stack for DFS.
Take(w) == IF w.alg = "dfs" THEN Last(w.todo) ELSE Head(w.todo)

Pop(w) ==
    LET entry == Take(w)
        found == getEdgesForNode(entry.node, w.dir)
        w1    == [w EXCEPT !.todo = SelectSeq(@, LAMBDA x : x # entry)]
    IN IF TooDeep(w, entry) THEN w1
       ELSE [w1 EXCEPT !.cur = [entry EXCEPT !.edges = IF w.alg = "dfs" THEN Reverse(found) ELSE found]]

\* One edge of the entry in hand.  BFS and DFS fetch the target, which may be gone;
\* ShortestPathLabeled only compares it.
Follow(w) ==
    LET e    == Head(w.cur.edges)
        t    == Target(e, w.cur.node, w.dir)
        path == Append(w.cur.path, e)
        w1   == [w EXCEPT !.cur.edges = Tail(@)]
        w2   == [w1 EXCEPT !.seen = @ \cup {t}]
    IN IF (w.label # "" /\ e.label # w.label) \/ t \in w.seen THEN w1
       ELSE IF w.alg = "shortest"
            THEN IF t = w.to THEN Done(buildPathResult(w2, path)) ELSE Queued(w2, t, path)
       ELSE IF t \notin DOMAIN nodes THEN w2
       ELSE Queued(Visit(w2, t, path), t, path)

Search(w) ==
    IF w.cur.edges # <<>> THEN {Follow(w)}
    ELSE IF w.todo # <<>> THEN {Pop(w)}
    ELSE {Done(w)}

(***************************************************************************)
(* ShortestPathWeighted: todo is the priority queue, whose order among equal        *)
(* costs is left open.                                                         *)
(***************************************************************************)
DefaultWeight == 2
Weight(e) == IF e.w = 0 THEN DefaultWeight ELSE e.w

\* The edges back from to, along prevEdge.
Trail(w) ==
    LET back[k \in 0..Cardinality(DOMAIN w.dist)] ==
          IF k = 0 THEN <<>>
          ELSE LET t == back[k - 1]
                   n == IF t = <<>> THEN w.to ELSE t[1].from
               IN IF n = w.from THEN t ELSE <<w.via[n]>> \o t
    IN back[Cardinality(DOMAIN w.dist)]

Settle(w) == IF w.to \in DOMAIN w.dist THEN Done(buildPathResult(w, Trail(w))) ELSE Done(w)

\* Mutant: an edge never improves a distance that is known.
Closer_first(w, e) == e.to \notin DOMAIN w.dist

Closer(w, e) == e.to \notin DOMAIN w.dist \/ w.dist[w.cur.node] + Weight(e) < w.dist[e.to]

Relax(w) ==
    LET e == Head(w.cur.edges)
        d == w.dist[w.cur.node] + Weight(e)
        put(f, v) == [n \in DOMAIN f \cup {e.to} |-> IF n = e.to THEN v ELSE f[n]]
        w1 == [w EXCEPT !.cur.edges = Tail(@)]
    IN IF ~Closer(w, e) THEN w1
       ELSE [w1 EXCEPT !.dist = put(@, d), !.via = put(@, e), !.todo = Append(@, [node |-> e.to, cost |-> d])]

PopMin(w, i) ==
    LET item == w.todo[i]
        w1   == [w EXCEPT !.todo = RemoveAt(@, i)]
    IN IF item.node = w.to THEN Settle(w)
       ELSE IF item.cost > w.dist[item.node] THEN w1
       ELSE [w1 EXCEPT !.cur = [node |-> item.node, path |-> <<>>, edges |-> getEdgesForNode(item.node, "out")]]

Dijkstra(w) ==
    IF w.cur.edges # <<>> THEN {Relax(w)}
    ELSE IF w.todo = <<>> THEN {Settle(w)}
    ELSE {PopMin(w, i) : i \in {j \in DOMAIN w.todo : \A k \in DOMAIN w.todo : w.todo[j].cost <= w.todo[k].cost}}

(***************************************************************************)
(* AllPaths: todo is the stack of its recursion; visited are the nodes on it.        *)
(***************************************************************************)
AllPaths(w) ==
    LET frame == Last(w.todo)
        rest  == [w EXCEPT !.todo[Len(w.todo)].edges = Tail(@)]
        e     == Head(frame.edges)
        path  == Append(frame.path, e)
        open  == [node |-> e.to, path |-> path, edges |-> getEdgesForNode(e.to, "out")]
    IN IF w.todo = <<>> THEN {Done(w)}
       ELSE IF frame.edges = <<>> THEN {[w EXCEPT !.todo = Front(@), !.seen = @ \ {frame.node}]}
       ELSE IF e.to \in w.seen THEN {rest}
       ELSE IF e.to = w.to THEN {buildPathResult(rest, path)}
       ELSE IF Len(path) >= w.max THEN {rest}
       ELSE {[rest EXCEPT !.todo = Append(@, open), !.seen = @ \cup {e.to}]}

(***************************************************************************)
(* ConnectedComponents: left are the nodes of the transaction that iterates.         *)
(***************************************************************************)
Components(w) ==
    LET n == Head(w.todo)
        far(e) == Target(e, n, "both")
        step(acc, e) == IF far(e) \in acc.seen THEN acc
                        ELSE [acc EXCEPT !.seen = @ \cup {far(e)}, !.todo = Append(@, far(e))]
        first == Head(w.left)
    IN IF w.todo # <<>>
       THEN {FoldLeft(step, [w EXCEPT !.todo = Tail(@), !.group = Append(@, n)], getEdgesForNode(n, "both"))}
       ELSE IF w.group # <<>> THEN {[w EXCEPT !.out = Append(@, w.group), !.group = <<>>]}
       ELSE IF w.left = <<>> THEN {Done(w)}
       ELSE IF first \in w.seen THEN {[w EXCEPT !.left = Tail(@)]}
       ELSE {[w EXCEPT !.left = Tail(@), !.seen = @ \cup {first}, !.todo = <<first>>]}

(***************************************************************************)
(* TopologicalSort: the in-degrees in one loop over the nodes, Kahn's queue in        *)
(* another, begun in the order of a Go map, which is any.                          *)
(***************************************************************************)
Degree(w, n) == IF n \in DOMAIN w.dist THEN w.dist[n] ELSE 0

TopologicalSort(w) ==
    LET n == IF w.left # <<>> THEN Head(w.left) ELSE Head(w.todo)
        found == getEdgesForNode(n, "out")
        known == DOMAIN w.dist \cup {n} \cup {found[i].to : i \in DOMAIN found}
        into(t) == Cardinality({i \in DOMAIN found : found[i].to = t})
        drop(acc, e) == [acc EXCEPT !.dist = [x \in DOMAIN acc.dist \cup {e.to} |->
                                                 Degree(acc, x) - (IF x = e.to THEN 1 ELSE 0)],
                                    !.todo = IF Degree(acc, e.to) = 1 THEN Append(@, e.to) ELSE @]
        ready == {x \in DOMAIN w.dist : w.dist[x] = 0}
    IN IF w.left # <<>>
       THEN {[w EXCEPT !.left = Tail(@), !.seen = @ \cup known, !.dist = [x \in known |-> Degree(w, x) + into(x)]]}
       ELSE IF ~w.begun THEN {[w EXCEPT !.begun = TRUE, !.todo = s] : s \in SetToSeqs(ready)}
       ELSE IF w.todo # <<>>
            THEN {FoldLeft(drop, [w EXCEPT !.todo = Tail(@), !.out = Append(@, n)], found)}
       ELSE IF Len(w.out) # Cardinality(w.seen) THEN {Fail(w)} ELSE {Done(w)}

(***************************************************************************)
(* A call, and its steps.                                                    *)
(***************************************************************************)
Fresh(c) ==
    c @@ [pc |-> "run", todo |-> <<>>, cur |-> Entry(c.from, <<>>), seen |-> {c.from}, out |-> <<>>,
          err |-> FALSE, skipped |-> 0, dist |-> (c.from :> 0), via |-> <<>>, left |-> <<>>,
          group |-> <<>>, begun |-> FALSE]

Begin(c) ==
    LET w == Fresh(c)
    IN CASE c.alg \in {"bfs", "dfs"} ->
              IF c.from \in DOMAIN nodes THEN Queued(Visit(w, c.from, <<>>), c.from, <<>>) ELSE Fail(w)
         [] c.alg \in {"shortest", "weighted"} /\ c.from = c.to -> Done(buildPathResult(w, <<>>))
         [] c.alg = "shortest" /\ c.from # c.to -> Queued(w, c.from, <<>>)
         [] c.alg = "weighted" /\ c.from # c.to -> [w EXCEPT !.todo = <<[node |-> c.from, cost |-> 0]>>]
         [] c.alg = "all" ->
              IF c.from = c.to THEN Done(buildPathResult(w, <<>>))
              ELSE [w EXCEPT !.max = IF @ <= 0 THEN 10 ELSE @,
                             !.todo = <<[Entry(c.from, <<>>) EXCEPT !.edges = getEdgesForNode(c.from, "out")]>>]
         [] c.alg \in {"components", "topological"} ->
              [w EXCEPT !.left = NodeIDs, !.seen = {}, !.dist = <<>>]

Steps(w) ==
    CASE w.alg \in {"bfs", "dfs", "shortest"} -> Search(w)
      [] w.alg = "weighted"    -> Dijkstra(w)
      [] w.alg = "all"         -> AllPaths(w)
      [] w.alg = "components"  -> Components(w)
      [] w.alg = "topological" -> TopologicalSort(w)

WalkStart ==
    /\ walk.pc \in {"idle", "done"}
    /\ \E c \in Walks : walk' = Begin(c)
    /\ quiet' = TRUE
    /\ UNCHANGED <<graphVars, writes>>

WalkStep ==
    /\ walk.pc = "run"
    /\ walk' \in Steps(walk)
    /\ UNCHANGED <<graphVars, quiet, writes>>

(***************************************************************************)
(* Other callers.  An edge may be added to a node that is going: GraphStore shows     *)
(* how DeleteNode leaves one behind.  A caller that has its answer is gone.           *)
(***************************************************************************)
OtherAddNode ==
    /\ \E n \in NewNodes : nodes' = nodes @@ (alloc.node :> n)
    /\ alloc' = [alloc EXCEPT !.node = @ + 1]
    /\ UNCHANGED edges

OtherAddEdge ==
    /\ \E e \in NewEdges :
         /\ {e.from, e.to} \subseteq DOMAIN nodes
         /\ edges' = edges \cup {e @@ [id |-> alloc.edge]}
    /\ alloc' = [alloc EXCEPT !.edge = @ + 1]
    /\ UNCHANGED nodes

OtherDeleteEdge ==
    /\ \E e \in edges : edges' = edges \ {e}
    /\ UNCHANGED <<nodes, alloc>>

OtherDropNode ==
    /\ \E n \in DOMAIN nodes : nodes' = [m \in DOMAIN nodes \ {n} |-> nodes[m]]
    /\ UNCHANGED <<edges, alloc>>

OtherWrites ==
    /\ writes < MaxWrites
    /\ OtherAddNode \/ OtherAddEdge \/ OtherDeleteEdge \/ OtherDropNode
    /\ writes' = writes + 1
    /\ quiet' = FALSE

TInit ==
    /\ \E g \in InitGraphs : nodes = g.nodes /\ edges = g.edges
    /\ alloc = [node |-> 1 + Max(DOMAIN nodes \cup {0}), edge |-> 1 + Max({e.id : e \in edges} \cup {0})]
    /\ walk = NoWalk /\ quiet = TRUE /\ writes = 0

(***************************************************************************)
(* What a walk should return.                                                *)
(***************************************************************************)
Along(path, from, dir) ==
    LET at[i \in 0..Len(path)] == IF i = 0 THEN from ELSE Target(path[i], at[i - 1], dir) IN at

\* path leads from one node to the other in the direction asked for, over no node twice.
IsPath(path, from, to, dir) ==
    LET at == Along(path, from, dir)
    IN /\ \A i \in DOMAIN path :
            \/ dir # "in"  /\ path[i].from = at[i - 1]
            \/ dir # "out" /\ path[i].to = at[i - 1]
       /\ \A i, j \in DOMAIN at : at[i] = at[j] => i = j
       /\ at[Len(path)] = to

\* By length: a path of k edges is one of k - 1 and an edge to a node that is not on it.
SimplePaths(w, from, to) ==
    LET longest == Cardinality(DOMAIN nodes) - 1
        usable  == {e \in edges : w.label = "" \/ e.label = w.label}
        end(p)  == Along(p, from, w.dir)[Len(p)]
        paths[k \in 0..longest] ==
          IF k = 0 THEN {<<>>}
          ELSE {p \in {Append(q, e) : q \in paths[k - 1], e \in usable} : IsPath(p, from, end(p), w.dir)}
    IN {p \in UNION {paths[k] : k \in 0..longest} : end(p) = to /\ (w.max >= 0 => Len(p) <= w.max)}

Cost(path) == FoldLeft(LAMBDA c, e : c + Weight(e), 0, path)

\* No edge leads to a node that is gone.
Whole == \A e \in edges : {e.from, e.to} \subseteq DOMAIN nodes

(***************************************************************************)
(* Properties.                                                             *)
(***************************************************************************)

\* What a walk has returned so far is right in itself whatever was written meanwhile:
\* BFS and DFS (traversal.go) return a node once, with a path that leads to it within
\* the depth; the path algorithms return paths between the ends without a cycle;
\* components have no node in common, and no node is sorted twice.
WalkSound ==
    walk.pc # "idle" =>
      /\ walk.alg \in {"bfs", "dfs"} =>
           \A i \in DOMAIN walk.out :
             LET r == walk.out[i]
             IN /\ IsPath(r.path, walk.from, r.node, walk.dir)
                /\ walk.max >= 0 => Len(r.path) <= walk.max
                /\ \A j \in DOMAIN walk.out : walk.out[j].node = r.node => i = j
      /\ walk.alg \in {"shortest", "weighted", "all"} =>
           \A i \in DOMAIN walk.out :
             /\ IsPath(walk.out[i], walk.from, walk.to, "out")
             /\ \A j \in DOMAIN walk.out : walk.out[i] = walk.out[j] => i = j
      /\ walk.alg = "components" =>
           IsInjective(FlattenSeq(Append(walk.out, walk.group)))
      /\ walk.alg = "topological" => IsInjective(walk.out)

\* BFS, and DFS without a depth limit, reach what can be reached; BFS by shortest paths
\* and nearest first, also with a filter, an offset and a limit.
SearchExact ==
    LET reached(n) == SimplePaths(walk, walk.from, n)
        wanted == {n \in DOMAIN nodes : reached(n) # {} /\ (walk.want = "" \/ walk.want \in nodes[n].labels)}
        left   == Max({Cardinality(wanted) - walk.offset, 0})
        depth(i) == Len(walk.out[i].path)
    IN /\ {walk.out[i].node : i \in DOMAIN walk.out} \subseteq wanted
       /\ \/ walk.alg = "dfs" /\ walk.max >= 0
          \/ Len(walk.out) = IF walk.limit > 0 THEN Min({left, walk.limit}) ELSE left
       /\ walk.alg = "bfs" => \A i \in DOMAIN walk.out :
            /\ \A p \in reached(walk.out[i].node) : Len(p) >= depth(i)
            /\ i > 1 => depth(i - 1) <= depth(i)

\* ShortestPath and ShortestPathWeighted find a cheapest path, and none only where none
\* is; AllPaths finds each once.
PathsExact ==
    LET paths == SimplePaths(walk, walk.from, walk.to)
    IN CASE walk.alg = "shortest" ->
              IF paths = {} THEN walk.out = <<>> ELSE \A p \in paths : Len(walk.out[1]) <= Len(p)
         [] walk.alg = "weighted" ->
              IF paths = {} THEN walk.out = <<>> ELSE \A p \in paths : Cost(walk.out[1]) <= Cost(p)
         [] walk.alg = "all" -> ToSet(walk.out) = paths

Joined(n) == {m \in DOMAIN nodes : SimplePaths(walk, n, m) # {}}
Cyclic    == \E e \in edges : SimplePaths(walk, e.to, e.from) # {}

\* With nobody writing meanwhile and no edge into a node that is gone, each algorithm
\* of traversal.go and path.go returns what its comment says: components are those of
\* the undirected graph, and a topological order exists, and is one, iff there is no
\* cycle.
WalkExact ==
    walk.pc = "done" /\ quiet /\ Whole =>
      CASE walk.alg \in {"bfs", "dfs"} -> IF walk.err THEN walk.from \notin DOMAIN nodes ELSE SearchExact
        [] walk.alg \in {"shortest", "weighted", "all"} ->
             IF walk.err THEN walk.from \notin DOMAIN nodes ELSE PathsExact
        [] walk.alg = "components" -> {ToSet(walk.out[i]) : i \in DOMAIN walk.out} = {Joined(n) : n \in DOMAIN nodes}
        [] walk.alg = "topological" ->
             IF walk.err THEN Cyclic
             ELSE /\ ToSet(walk.out) = DOMAIN nodes
                  /\ \A e \in edges : \E i, j \in DOMAIN walk.out : i < j /\ walk.out[i] = e.from /\ walk.out[j] = e.to
================================================================================
