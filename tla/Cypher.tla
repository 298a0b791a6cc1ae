--------------------------------- MODULE Cypher ---------------------------------
(***************************************************************************)
(* The Cypher executor (cypher_exec.go, cypher_optional.go, cypher_write.go) and the   *)
(* query cache in front of it (cypher_cache.go), as one caller's session beside the     *)
(* writers of Traversal.  A query is the record its text parses to; its variables       *)
(* are a, r and b.  A value is a number, and 0 stands for nil, which compareValues      *)
(* puts below every other.  The indexes are exact (module Index).                    *)
(***************************************************************************)
EXTENDS Traversal

CONSTANTS
    Queries,       \* what Cypher() is called with: parsed queries
    Prepared,      \* what CypherWithParams and PrepareCypher are called with
    Params,        \* values of the parameter of a call
    IndexSets,     \* the indexes there may be, each the set of its properties
    Capacity,      \* of the query cache
    MaxRows,       \* the governor's limit; 0: none
    MaxSessions    \* bound on the calls

VARIABLES
    indexed,       \* the indexes
    cache,         \* the query cache, most recently used first: [key, ast]
    cy             \* the caller's session

cyvars == <<indexed, cache, cy>>

Param   == -1      \* $p in a query
NoQuery == [verb |-> "none"]
NoNode  == [id |-> 0, labels |-> {}, props |-> <<>>]
NoEdge  == [id |-> 0]

(***************************************************************************)
(* Expressions.                                                            *)
(***************************************************************************)
getProperty(n, p) == IF p \in DOMAIN n.props THEN n.props[p] ELSE 0

matchProps(n, pat) == \A p \in DOMAIN pat.props : p \in DOMAIN n.props /\ n.props[p] = pat.props[p]
matchLabels(n, pat) == pat.labels \subseteq n.labels
Matches(n, pat) == matchLabels(n, pat) /\ matchProps(n, pat)

Holds(t, row) ==
    LET v == getProperty(row[t.var], t.prop)
    IN CASE t.op = "=" -> v = t.val [] t.op = ">" -> v > t.val [] t.op = "<>" -> v # t.val

\* where is [all, tests]: the conjunction or the disjunction of comparisons.
evalBool(where, row) ==
    IF where.all THEN \A i \in DOMAIN where.tests : Holds(where.tests[i], row)
    ELSE \E i \in DOMAIN where.tests : Holds(where.tests[i], row)

Row(a, r, b) == [a |-> a, r |-> r, b |-> b]

(***************************************************************************)
(* Finding nodes: each is one transaction and comes in the order of the IDs.        *)
(***************************************************************************)
Listed(test(_)) ==
    LET found == SelectSeq(NodeIDs, LAMBDA n : test(NodeAt(n))) IN [i \in DOMAIN found |-> NodeAt(found[i])]

forEachNode == Listed(LAMBDA n : TRUE)
FindByLabel(l) == Listed(LAMBDA n : l \in n.labels)
FindByProperty(p, v) == Listed(LAMBDA n : p \in DOMAIN n.props /\ n.props[p] = v)
FindByCompositeIndex(f) == Listed(LAMBDA n : \A p \in DOMAIN f : p \in DOMAIN n.props /\ n.props[p] = f[p])

IndexedIn(pat) == {p \in DOMAIN pat.props : {p} \in indexed}
FirstLabel(pat) == CHOOSE l \in pat.labels : TRUE

\* extractWhereEquality: the first equality on a of a conjunction, whether indexed or not.
WhereEquality(where) ==
    LET eq == {i \in DOMAIN where.tests : where.tests[i].op = "=" /\ where.tests[i].var = "a"}
    IN IF where.all /\ eq # {} THEN {where.tests[Min(eq)]} ELSE {}

\* findCandidates.  Where several properties are indexed, the map's order picks one.
findCandidates(pat) ==
    IF pat.labels # {} THEN SelectSeq(FindByLabel(FirstLabel(pat)), LAMBDA n : Matches(n, pat))
    ELSE IF IndexedIn(pat) # {}
         THEN LET p == CHOOSE p \in IndexedIn(pat) : TRUE
              IN SelectSeq(FindByProperty(p, pat.props[p]), LAMBDA n : matchProps(n, pat))
    ELSE SelectSeq(forEachNode, LAMBDA n : matchProps(n, pat))

(***************************************************************************)
(* Projection.                                                             *)
(***************************************************************************)
\* Whether a row with the key x comes strictly before one with y.
Before(q, x, y) == IF q.order.desc THEN x > y ELSE x < y
SortKey(q, row) == getProperty(row.a, q.order.prop)

\* topKHeap.offer: a full heap gives up its worst row for a better one.
offer(q, heap, row) ==
    LET worst == CHOOSE i \in DOMAIN heap : \A j \in DOMAIN heap : ~Before(q, SortKey(q, heap[i]), SortKey(q, heap[j]))
    IN IF Len(heap) < q.limit THEN Append(heap, row)
       ELSE IF Before(q, SortKey(q, row), SortKey(q, heap[worst])) THEN [heap EXCEPT ![worst] = row]
       ELSE heap

\* A stable sort by a key.
Sorted(q, rows, key(_)) ==
    LET before(i, j) == \/ Before(q, key(rows[i]), key(rows[j]))
                        \/ key(rows[i]) = key(rows[j]) /\ i < j
        pos == InOrder(DOMAIN rows, before)
    IN [i \in DOMAIN rows |-> rows[pos[i]]]

\* sortRows sees what the query returns, and nil for the rest.
sortRows(q, rows) == Sorted(q, rows, LAMBDA row : IF "a" \in q.ret THEN SortKey(q, row) ELSE 0)

Cut(q, rows) == IF q.limit > 0 /\ Len(rows) > q.limit THEN SubSeq(rows, 1, q.limit) ELSE rows

\* projectResults and projectPatternResults.
project(q, rows) ==
    IF q.order.prop # "" /\ q.limit > 0 /\ q.opt.rel.dir = ""
    THEN LET top == FoldLeft(LAMBDA heap, row : offer(q, heap, row), <<>>, rows)
         IN Sorted(q, top, LAMBDA row : SortKey(q, row))
    ELSE Cut(q, IF q.order.prop # "" THEN sortRows(q, rows) ELSE rows)

\* The push-down of LIMIT, without an order.
Enough(q, n) == q.limit > 0 /\ q.order.prop = "" /\ n >= q.limit
PushDown(q, rows) == IF q.order.prop = "" THEN Cut(q, rows) ELSE rows

\* checkRowCount, asked after the limit: n rows are too many.
Overrun(q, n) == MaxRows > 0 /\ n > MaxRows /\ ~(q.order.prop = "" /\ q.limit \in 1..MaxRows + 1)

(***************************************************************************)
(* The query cache.                                                         *)
(***************************************************************************)
CacheGet(key) == {cache[i].ast : i \in {j \in DOMAIN cache : cache[j].key = key}} \ {NoQuery}

\* get moves what it finds to the front; put adds there, and drops the last.
CachePut(key, ast) ==
    LET list == <<[key |-> key, ast |-> ast]>> \o SelectSeq(cache, LAMBDA e : e.key # key)
    IN cache' = SubSeq(list, 1, Min({Len(list), Capacity}))

\* resolveParams.  The AST is copied, its maps and pointers are not: what is resolved
\* is resolved in the cache.
resolveParams(q, v) ==
    LET val(x) == IF x = Param THEN v ELSE x
    IN [q EXCEPT !.a.props = [p \in DOMAIN @ |-> val(@[p])],
                 !.b.props = [p \in DOMAIN @ |-> val(@[p])],
                 !.where.tests = [i \in DOMAIN @ |-> [@[i] EXCEPT !.val = val(@)]]]

(***************************************************************************)
(* A call: the session executes q, which should be asked.                       *)
(***************************************************************************)
Idle(n) == [pc |-> "idle", n |-> n]

Session(asked, q, pc) ==
    [pc |-> pc, n |-> cy.n + 1, asked |-> asked, q |-> q, todo |-> <<>>, rows |-> <<>>, out |-> <<>>,
     err |-> "", made |-> <<>>, start |-> [nodes |-> nodes, edges |-> edges]]

\* Where executeCypherNormal begins.
FirstStep(q) ==
    CASE q.opt.rel.dir # "" -> "optional"
      [] q.opt.rel.dir = "" /\ q.rel.dir = "" -> "node"
      [] q.opt.rel.dir = "" /\ q.rel.dir # "" ->
           IF q.rel.max = 0 /\ DOMAIN q.a.props = {} /\ q.rel.label # "" /\ q.rel.dir = "out" THEN "edgeType" ELSE "candidates"

Mutates(q) == q.set.prop # "" \/ q.del # {}
ReadOnly(q) == [q EXCEPT !.set.prop = "", !.del = {}]

CallStart ==
    /\ cy.n < MaxSessions
    /\ quiet' = TRUE /\ walk' = NoWalk
    /\ UNCHANGED <<graphVars, writes, indexed>>

\* Mutant: every MATCH is cached, with SET and DELETE too.
CypherCall_cachesAll(q) ==
    \/ \E ast \in CacheGet(q.key) : cy' = Session(q, ReadOnly(ast), FirstStep(ast)) /\ CachePut(q.key, ast)
    \/ /\ CacheGet(q.key) = {}
       /\ IF q.verb # "match" THEN cy' = Session(q, q, q.verb) /\ UNCHANGED cache
          ELSE cy' = Session(q, q, FirstStep(q)) /\ CachePut(q.key, q)

\* Cypher(): what the cache has is executed as a read.
CypherCall(q) ==
    \/ \E ast \in CacheGet(q.key) : cy' = Session(q, ReadOnly(ast), FirstStep(ast)) /\ CachePut(q.key, ast)
    \/ /\ CacheGet(q.key) = {}
       /\ IF q.verb # "match" THEN cy' = Session(q, q, q.verb) /\ UNCHANGED cache
          ELSE /\ cy' = Session(q, q, FirstStep(q))
               /\ IF Mutates(q) THEN UNCHANGED cache ELSE CachePut(q.key, q)

\* CypherWithParams, and PrepareCypher with ExecutePreparedWithParams: a SET or DELETE
\* is cached and executed as a read; of a MERGE there is no AST, and the panic is caught.
ParamsCall(q, v) ==
    \/ /\ q.verb = "create"
       /\ cy' = [Session(q, q, "done") EXCEPT !.err = "failed"]
       /\ UNCHANGED cache
    \/ /\ q.verb = "merge"
       /\ cy' = [Session(q, q, "done") EXCEPT !.err = "failed"]
       /\ CachePut(q.key, NoQuery)
    \/ /\ q.verb = "match"
       /\ \E ast \in IF CacheGet(q.key) = {} THEN {q} ELSE CacheGet(q.key) :
            LET r == resolveParams(ast, v)
            IN cy' = Session(resolveParams(q, v), ReadOnly(r), FirstStep(r)) /\ CachePut(q.key, r)

Call ==
    /\ CallStart
    /\ \/ \E q \in Queries : CypherCall(q)
       \/ \E q \in Prepared, v \in Params : ParamsCall(q, v)

(***************************************************************************)
(* MATCH.                                                                  *)
(***************************************************************************)
ExecOnly == UNCHANGED <<graphVars, quiet, writes, indexed, cache>>
SessionError == cy' = [cy EXCEPT !.pc = "done", !.err = "failed"]

\* The rows are complete: they are projected, and SET or DELETE goes over them.
Finish(rows) ==
    LET out == project(cy.q, rows)
    IN cy' = [cy EXCEPT !.out = out, !.rows = <<>>, !.todo = [i \in DOMAIN out |-> i],
                        !.pc = IF Mutates(cy.q) THEN "mutate" ELSE "done"]

NodeRows(found) == [i \in DOMAIN found |-> Row(found[i], NoEdge, NoNode)]

\* Mutant: the rest of the WHERE is taken for granted after an index lookup.
WhereIndexed_trusting(q, found) == NodeRows(found)

\* execNodeMatchWhereIndexed: all of WHERE, once more.
WhereIndexed(q, found) == SelectSeq(NodeRows(found), LAMBDA row : evalBool(q.where, row))

Equality(q) == {t \in WhereEquality(q.where) : {t.prop} \in indexed}
Composite(q) == Cardinality(DOMAIN q.a.props) >= 2 /\ DOMAIN q.a.props \in indexed
FullScan(q) == q.a.labels = {} /\ ~Composite(q) /\ IndexedIn(q.a) = {} /\ (DOMAIN q.a.props # {} \/ Equality(q) = {})

\* execNodeMatch: the label index, a composite index, an index on an inline property,
\* one on an equality in WHERE, or all nodes, which alone ask the governor.
execNodeMatch ==
    LET q == cy.q
        filter(found) == SelectSeq(NodeRows(SelectSeq(found, LAMBDA n : Matches(n, q.a))), LAMBDA row : evalBool(q.where, row))
        all == filter(forEachNode)
    IN /\ cy.pc = "node"
       /\ IF q.a.labels # {} THEN Finish(PushDown(q, filter(FindByLabel(FirstLabel(q.a)))))
          ELSE IF Composite(q) THEN Finish(WhereIndexed(q, FindByCompositeIndex(q.a.props)))
          ELSE IF IndexedIn(q.a) # {} THEN Finish(filter(findCandidates(q.a)))
          ELSE IF ~FullScan(q) THEN \E t \in Equality(q) : Finish(WhereIndexed(q, FindByProperty(t.prop, t.val)))
          ELSE IF Overrun(q, Len(all)) THEN SessionError
          ELSE Finish(PushDown(q, all))
       /\ UNCHANGED walk /\ ExecOnly

\* The governor's timeout or the caller's context, where the loops look at it: between
\* the rows of a scan, the candidates of a pattern and the parts of a CREATE.
ContextDone ==
    /\ \/ cy.pc = "node" /\ FullScan(cy.q)
       \/ cy.pc \in {"hop", "var"} /\ cy.todo # <<>>
       \/ cy.pc \in {"edgeType", "create"}
    /\ cy' = [cy EXCEPT !.pc = "done", !.err = "context"]
    /\ UNCHANGED walk /\ ExecOnly

\* execSingleHopByEdgeType: one transaction over the edges of a type.
execByEdgeType ==
    LET q == cy.q
        typed == ByID({e \in edges : e.label = q.rel.label /\ {e.from, e.to} \subseteq DOMAIN nodes})
        rows  == SelectSeq([i \in DOMAIN typed |-> Row(NodeAt(typed[i].from), typed[i], NodeAt(typed[i].to))],
                           LAMBDA row : matchLabels(row.a, q.a) /\ Matches(row.b, q.b) /\ evalBool(q.where, row))
    IN /\ cy.pc = "edgeType"
       /\ IF Overrun(q, Len(rows)) THEN SessionError ELSE Finish(PushDown(q, rows))
       /\ UNCHANGED walk /\ ExecOnly

\* The candidates for a, of which one is expanded at a time.
Candidates ==
    /\ cy.pc = "candidates"
    /\ cy' = [cy EXCEPT !.pc = IF cy.q.rel.max = 0 THEN "hop" ELSE "var", !.todo = findCandidates(cy.q.a)]
    /\ UNCHANGED walk /\ ExecOnly

Expanded(pc, rows) ==
    IF Overrun(cy.q, Len(rows)) THEN SessionError
    ELSE cy' = [cy EXCEPT !.pc = pc, !.todo = Tail(@), !.rows = PushDown(cy.q, rows)]

\* The edges of a in the direction of rel, and what is at their other ends.
Hops(a, rel) ==
    LET es == SelectSeq(getEdgesForNode(a.id, rel.dir),
                        LAMBDA e : /\ rel.label = "" \/ e.label = rel.label
                                   /\ (IF rel.dir = "in" THEN e.from ELSE e.to) \in DOMAIN nodes)
    IN [i \in DOMAIN es |-> Row(a, es[i], NodeAt(IF rel.dir = "in" THEN es[i].from ELSE es[i].to))]

\* execSingleHopMatch: the labels of b are not looked at.
HopStep ==
    LET q == cy.q
    IN /\ cy.pc = "hop"
       /\ IF cy.todo = <<>> \/ Enough(q, Len(cy.rows)) THEN Finish(cy.rows)
          ELSE Expanded("hop", cy.rows \o SelectSeq(Hops(Head(cy.todo), q.rel),
                                             LAMBDA row : matchProps(row.b, q.b) /\ evalBool(q.where, row)))
       /\ UNCHANGED walk /\ ExecOnly

MaxHops(q) == IF q.rel.max < 0 THEN 50 ELSE q.rel.max

\* execVarLengthMatch: a BFS from each candidate ...
VarStep ==
    LET q == cy.q
    IN /\ cy.pc = "var"
       /\ IF cy.todo = <<>> \/ Enough(q, Len(cy.rows)) THEN Finish(cy.rows) /\ UNCHANGED walk
          ELSE /\ walk' = Begin([alg |-> "bfs", from |-> Head(cy.todo).id, to |-> 0, max |-> MaxHops(q), dir |-> q.rel.dir,
                                 label |-> q.rel.label, want |-> "", limit |-> 0, offset |-> 0])
               /\ cy' = [cy EXCEPT !.pc = "walk"]
       /\ ExecOnly

\* ... whose visitor takes what is deep enough and matches b.
VarEnd ==
    LET q == cy.q
        deep == SelectSeq(walk.out, LAMBDA r : Len(r.path) >= q.rel.min)
        rows == [i \in DOMAIN deep |-> Row(Head(cy.todo), NoEdge, deep[i].copy)]
    IN /\ cy.pc = "walk" /\ walk.pc = "done"
       /\ IF walk.err THEN SessionError
          ELSE Expanded("var", cy.rows \o SelectSeq(rows, LAMBDA row : Matches(row.b, q.b) /\ evalBool(q.where, row)))
       /\ walk' = NoWalk
       /\ ExecOnly

\* execWithOptionalMatch: the rows of the main pattern, a node ...
OptionalMain ==
    LET q == cy.q
    IN /\ cy.pc = "optional"
       /\ cy' = [cy EXCEPT !.pc = "attempt",
                   !.todo = SelectSeq(NodeRows(findCandidates(q.a)), LAMBDA row : evalBool(q.where, row))]
       /\ UNCHANGED walk /\ ExecOnly

\* ... and for each the rows of the optional pattern, or one with nil.
attemptOptionalMatch ==
    LET q == cy.q
        found == SelectSeq(Hops(Head(cy.todo).a, q.opt.rel),
                           LAMBDA row : Matches(row.b, q.opt.b) /\ evalBool(q.opt.where, row))
    IN /\ cy.pc = "attempt"
       /\ IF cy.todo = <<>> THEN Finish(cy.rows)
          ELSE cy' = [cy EXCEPT !.todo = Tail(@), !.rows = @ \o (IF found = <<>> THEN <<Head(cy.todo)>> ELSE found)]
       /\ UNCHANGED walk /\ ExecOnly

(***************************************************************************)
(* SET and DELETE over the rows, CREATE and MERGE: each step is an operation of       *)
(* GraphStore in one.  What has been done when one fails stays.                       *)
(***************************************************************************)
WriteOnly == UNCHANGED <<walk, quiet, writes, indexed, cache>>
Merged(n, p, v) == [nodes EXCEPT ![n].props = (p :> v) @@ @]
NewNode(pat) == nodes' = nodes @@ (alloc.node :> [labels |-> pat.labels, props |-> pat.props])

\* Only variables that the query returns are in the rows.
SetRow ==
    LET q == cy.q
        i == Head(cy.todo)
        n == cy.out[i][q.set.var].id
    IN /\ cy.pc = "mutate" /\ q.set.prop # "" /\ cy.todo # <<>>
       /\ IF q.set.var \notin q.ret THEN cy' = [cy EXCEPT !.todo = Tail(@)] /\ UNCHANGED graphVars
          ELSE IF n \notin DOMAIN nodes THEN SessionError /\ UNCHANGED graphVars
          ELSE /\ nodes' = Merged(n, q.set.prop, q.set.val)
               /\ cy' = [cy EXCEPT !.todo = Tail(@), !.out[i][q.set.var].props = (q.set.prop :> q.set.val) @@ @]
               /\ UNCHANGED <<edges, alloc>>
       /\ WriteOnly

\* DELETE of one variable.  DeleteNode takes the edges along; the same node or edge in a second row is an error.
DeleteRow ==
    LET q == cy.q
        row == cy.out[Head(cy.todo)]
        var == CHOOSE v \in q.del : TRUE
    IN /\ cy.pc = "mutate" /\ q.del # {} /\ cy.todo # <<>>
       /\ IF var \notin q.ret THEN cy' = [cy EXCEPT !.todo = Tail(@)] /\ UNCHANGED graphVars
          ELSE IF var = "r"
               THEN IF row.r \notin edges THEN SessionError /\ UNCHANGED graphVars
                    ELSE /\ edges' = edges \ {row.r}
                         /\ cy' = [cy EXCEPT !.todo = Tail(@)]
                         /\ UNCHANGED <<nodes, alloc>>
          ELSE IF row[var].id \notin DOMAIN nodes THEN SessionError /\ UNCHANGED graphVars
          ELSE /\ nodes' = [m \in DOMAIN nodes \ {row[var].id} |-> nodes[m]]
               /\ edges' = {e \in edges : row[var].id \notin {e.from, e.to}}
               /\ cy' = [cy EXCEPT !.todo = Tail(@)]
               /\ UNCHANGED alloc
       /\ WriteOnly

MutateEnd ==
    /\ cy.pc = "mutate" /\ cy.todo = <<>>
    /\ cy' = [cy EXCEPT !.pc = "done"]
    /\ UNCHANGED graphVars /\ WriteOnly

\* executeCreatePattern: a, then b, ...
CreateNode ==
    LET pats == IF cy.q.rel.dir = "" THEN <<cy.q.a>> ELSE <<cy.q.a, cy.q.b>>
    IN /\ cy.pc = "create" /\ Len(cy.made) < Len(pats)
       /\ NewNode(pats[Len(cy.made) + 1])
       /\ alloc' = [alloc EXCEPT !.node = @ + 1]
       /\ cy' = [cy EXCEPT !.made = Append(@, alloc.node), !.pc = "bind"]
       /\ UNCHANGED edges /\ WriteOnly

\* ... each read again for its variable, here and in executeMerge, ...
BindNode ==
    /\ cy.pc = "bind"
    /\ IF Last(cy.made) \notin DOMAIN nodes THEN SessionError
       ELSE cy' = [cy EXCEPT !.pc = IF cy.q.verb = "merge" /\ cy.q.onCreate.prop # "" THEN "createSet"
                                    ELSE IF cy.q.verb = "create" /\ cy.q.rel.dir # "" THEN "create" ELSE "done"]
    /\ UNCHANGED graphVars /\ WriteOnly

Ends(q, made) == IF q.rel.dir = "in" THEN <<made[2], made[1]>> ELSE <<made[1], made[2]>>

\* ... and the edge, for which AddEdge wants both.
CreateEdge ==
    LET ends == Ends(cy.q, cy.made)
    IN /\ cy.pc = "create" /\ Len(cy.made) = 2
       /\ IF ToSet(ends) \subseteq DOMAIN nodes
          THEN /\ edges' = edges \cup {[id |-> alloc.edge, from |-> ends[1], to |-> ends[2], label |-> cy.q.rel.label, w |-> 0]}
               /\ alloc' = [alloc EXCEPT !.edge = @ + 1]
               /\ cy' = [cy EXCEPT !.pc = "done"]
               /\ UNCHANGED nodes
          ELSE SessionError /\ UNCHANGED graphVars
       /\ WriteOnly

\* executeMerge: the first node that matches; without labels none is looked for.
MergeFind ==
    LET found == IF cy.q.a.labels = {} THEN <<>>
                 ELSE SelectSeq(FindByLabel(FirstLabel(cy.q.a)), LAMBDA n : Matches(n, cy.q.a))
    IN /\ cy.pc = "merge"
       /\ cy' = IF found = <<>> THEN [cy EXCEPT !.pc = "mergeCreate"]
                ELSE [cy EXCEPT !.pc = IF cy.q.set.prop # "" THEN "mergeSet" ELSE "done", !.made = <<found[1].id>>]
       /\ UNCHANGED graphVars /\ WriteOnly

MergeCreate ==
    /\ cy.pc = "mergeCreate"
    /\ NewNode(cy.q.a)
    /\ alloc' = [alloc EXCEPT !.node = @ + 1]
    /\ cy' = [cy EXCEPT !.pc = "bind", !.made = <<alloc.node>>]
    /\ UNCHANGED edges /\ WriteOnly

\* ON MATCH SET and ON CREATE SET.
MergeSet ==
    LET set == IF cy.pc = "mergeSet" THEN cy.q.set ELSE cy.q.onCreate
    IN /\ cy.pc \in {"mergeSet", "createSet"}
       /\ IF cy.made[1] \in DOMAIN nodes
          THEN nodes' = Merged(cy.made[1], set.prop, set.val) /\ cy' = [cy EXCEPT !.pc = "done"]
          ELSE SessionError /\ UNCHANGED nodes
       /\ UNCHANGED <<edges, alloc>> /\ WriteOnly

Execute ==
    \/ ContextDone \/ execNodeMatch \/ execByEdgeType \/ Candidates \/ HopStep \/ VarStep \/ VarEnd
    \/ OptionalMain \/ attemptOptionalMatch
    \/ SetRow \/ DeleteRow \/ MutateEnd \/ CreateNode \/ BindNode \/ CreateEdge \/ MergeFind \/ MergeCreate \/ MergeSet

(***************************************************************************)
(* What a query should return and do.                                         *)
(***************************************************************************)
Reached(q, a, b) ==
    LET paths == SimplePaths([label |-> q.rel.label, dir |-> q.rel.dir, max |-> -1], a, b)
    IN paths # {} /\ Min({Len(p) : p \in paths}) \in q.rel.min..MaxHops(q)

Start(e, dir) == IF dir = "in" THEN e.to ELSE e.from
End(e, dir)   == IF dir = "in" THEN e.from ELSE e.to

\* All rows (a, r, b) over the graph that the pattern and WHERE allow.
HopRows(rel, apat, bpat, where) ==
    {row \in {Row(NodeAt(Start(e, rel.dir)), e, NodeAt(End(e, rel.dir))) :
                e \in {x \in edges : rel.label \in {"", x.label} /\ {x.from, x.to} \subseteq DOMAIN nodes}} :
       Matches(row.a, apat) /\ Matches(row.b, bpat) /\ evalBool(where, row)}

NodeRefs(q) == {row \in {Row(NodeAt(n), NoEdge, NoNode) : n \in DOMAIN nodes} : Matches(row.a, q.a) /\ evalBool(q.where, row)}

Answer(q) ==
    IF q.opt.rel.dir # ""
    THEN UNION {LET found == {row \in HopRows(q.opt.rel, q.a, q.opt.b, q.opt.where) : row.a = main.a}
                IN IF found = {} THEN {main} ELSE found : main \in NodeRefs(q)}
    ELSE IF q.rel.dir = "" THEN NodeRefs(q)
    ELSE IF q.rel.max = 0 THEN HopRows(q.rel, q.a, q.b, q.where)
    ELSE {row \in {Row(NodeAt(n), NoEdge, NodeAt(m)) : n, m \in DOMAIN nodes} :
            /\ Matches(row.a, q.a) /\ Matches(row.b, q.b) /\ evalBool(q.where, row)
            /\ Reached(q, row.a.id, row.b.id)}

(***************************************************************************)
(* Properties.                                                             *)
(***************************************************************************)

\* The answer of a MATCH depends on the graph and the query alone, not on the strategy,
\* the indexes or the cache that execNodeMatch, execSingleHopMatch, execVarLengthMatch
\* and Cypher() go through: with nobody writing meanwhile and no edge into a node that is
\* gone it is every row the pattern,
\* WHERE and OPTIONAL MATCH allow, once, as many as LIMIT wants, sorted when the order
\* can be seen, and the first ones of that order; the only error is the governor's.
AnswerExact ==
    cy.pc = "done" /\ quiet /\ Whole /\ cy.err # "context" /\ cy.asked.verb = "match" /\ ~Mutates(cy.asked) =>
      LET q == cy.asked
          want == Answer(q)
          out  == cy.out
          key(row) == SortKey(q, row)
      IN IF cy.err = "failed" THEN Overrun(q, Cardinality(want))
         ELSE /\ ToSet(out) \subseteq want /\ IsInjective(out)
              /\ Len(out) = IF q.limit > 0 THEN Min({q.limit, Cardinality(want)}) ELSE Cardinality(want)
              /\ q.order.prop # "" /\ "a" \in q.ret =>
                   /\ \A i, j \in DOMAIN out : i < j => ~Before(q, key(out[j]), key(out[i]))
                   /\ \A row \in want \ ToSet(out), i \in DOMAIN out : ~Before(q, key(row), key(out[i]))

Changes(q) == q.verb # "match" \/ (Mutates(q) /\ q.del \cup {q.set.var} \subseteq q.ret)

\* A finished SET, DELETE, CREATE or MERGE without an error did to the graph what it
\* says, and nothing else, if nobody else wrote and the query returns what it changes:
\* every matched node is set, every
\* matched node or edge is gone with what hung on it, CREATE added its pattern, and
\* MERGE added a node only where no labelled one matched.
WritesExact ==
    cy.pc = "done" /\ quiet /\ cy.err = "" /\ Changes(cy.asked) =>
      LET q == cy.asked
          old == cy.start.nodes
          olde == cy.start.edges
          hit == {cy.out[i].a.id : i \in DOMAIN cy.out}
          matched == {n \in DOMAIN old : q.a.labels # {} /\ Matches([id |-> n] @@ old[n], q.a)}
          made == IF q.onCreate.prop = "" THEN q.a.props ELSE (q.onCreate.prop :> q.onCreate.val) @@ q.a.props
          added == {n \in DOMAIN nodes \ DOMAIN old : nodes[n] = [labels |-> q.a.labels, props |-> made]}
      IN CASE q.verb = "match" /\ q.set.prop # "" ->
                /\ DOMAIN nodes = DOMAIN old /\ edges = olde
                /\ \A n \in DOMAIN nodes :
                     nodes[n] = IF n \in hit THEN [old[n] EXCEPT !.props = (q.set.prop :> q.set.val) @@ @] ELSE old[n]
                /\ hit = {n \in DOMAIN old : LET row == Row([id |-> n] @@ old[n], NoEdge, NoNode)
                                             IN Matches(row.a, q.a) /\ evalBool(q.where, row)}
           [] q.verb = "match" /\ q.del # {} ->
                /\ DOMAIN nodes = IF q.del = {"r"} THEN DOMAIN old ELSE DOMAIN old \ hit
                /\ edges = IF q.del = {"r"} THEN olde \ {cy.out[i].r : i \in DOMAIN cy.out}
                           ELSE {e \in olde : {e.from, e.to} \cap hit = {}}
                /\ Answer(q) = {}
           [] q.verb = "merge" ->
                /\ edges = olde /\ DOMAIN old \subseteq DOMAIN nodes
                /\ Cardinality(DOMAIN nodes) = Cardinality(DOMAIN old) + IF matched = {} THEN 1 ELSE 0
                /\ matched = {} => added # {}
                /\ \A n \in DOMAIN old : (nodes[n] = old[n]) \/ (n \in matched /\ q.set.prop # "")
           [] q.verb = "create" ->
                /\ added # {} /\ \A n \in DOMAIN old : nodes[n] = old[n]
                /\ IF q.rel.dir = "" THEN edges = olde
                   ELSE \E e \in edges \ olde :
                          /\ edges = olde \cup {e}
                          /\ Matches(NodeAt(Start(e, q.rel.dir)), q.a) /\ Matches(NodeAt(End(e, q.rel.dir)), q.b)
                          /\ {e.from, e.to} = DOMAIN nodes \ DOMAIN old
================================================================================
