--------------------------------- MODULE MCQuery ---------------------------------
EXTENDS Scans

Plain  == [labels |-> {}, props |-> <<>>]
Marked == [labels |-> {"L"}, props |-> <<>>]
N(l, x, y) == [labels |-> l, props |-> [p \in {"a", "b"} |-> IF p = "a" THEN x ELSE y]]
E(i, f, t, w) == [id |-> i, from |-> f, to |-> t, label |-> IF w = 0 THEN "S" ELSE "R", w |-> w]

\* Chains, cycles, loops, parallel edges, isolated nodes, two ways of different cost.
Shapes == {{}, {E(1, 1, 2, 0), E(2, 2, 3, 5)}, {E(1, 1, 3, 5), E(2, 1, 2, 0), E(3, 2, 3, 0)},
           {E(1, 1, 2, 5), E(2, 1, 2, 0)}, {E(1, 1, 1, 5), E(2, 2, 3, 5), E(3, 3, 2, 0)},
           {E(1, 1, 3, 5), E(2, 3, 1, 5), E(3, 3, 3, 5), E(4, 1, 1, 5)}}
Three == (1 :> N({"L"}, 1, 1)) @@ (2 :> N({}, 2, 1)) @@ (3 :> N({"L"}, 1, 2))
\* A node with a short way and a long one that begins at a later edge.
Fork  == {E(1, 1, 2, 0), E(2, 1, 3, 0), E(3, 3, 4, 0), E(4, 4, 5, 0), E(5, 2, 5, 0)}
Graphs1 == {[nodes |-> Three, edges |-> s] : s \in Shapes}
             \cup {[nodes |-> Three @@ (4 :> Plain) @@ (5 :> Plain), edges |-> Fork]}

W == [alg |-> "bfs", from |-> 1, to |-> 3, max |-> -1, dir |-> "out", label |-> "", want |-> "", limit |-> 0, offset |-> 0]
Walks1 ==
    {W, [W EXCEPT !.dir = "both", !.max = 1], [W EXCEPT !.dir = "in", !.label = "R"],
     [W EXCEPT !.dir = "both", !.limit = 1, !.offset = 1], [W EXCEPT !.want = "L"],
     [W EXCEPT !.alg = "dfs", !.dir = "both"], [W EXCEPT !.alg = "dfs", !.max = 1],
     [W EXCEPT !.alg = "shortest"], [W EXCEPT !.alg = "weighted"], [W EXCEPT !.alg = "all", !.max = 0],
     [W EXCEPT !.alg = "components", !.dir = "both"], [W EXCEPT !.alg = "topological"]}

Nodes1 == {N({"L"}, 2, 2)}
Edges1 == {[from |-> p[1], to |-> p[2], label |-> "R", w |-> 0] : p \in (1..3) \X (1..3)}

NoRel  == [label |-> "", dir |-> "", min |-> 0, max |-> 0]
True   == [all |-> TRUE, tests |-> <<>>]
T(v, p, o, x) == [var |-> v, prop |-> p, op |-> o, val |-> x]
NoOpt  == [rel |-> NoRel, b |-> Plain, where |-> True]
Q == [key |-> "", verb |-> "match", a |-> Plain, b |-> Plain, rel |-> NoRel, where |-> True, opt |-> NoOpt,
      order |-> [prop |-> "", desc |-> FALSE], limit |-> 0, set |-> [var |-> "a", prop |-> "", val |-> 0],
      onCreate |-> [prop |-> "", val |-> 0], del |-> {}, ret |-> {"a", "r", "b"}]
Hop(l, d, lo, hi) == [label |-> l, dir |-> d, min |-> lo, max |-> hi]

Queries1 ==
    {[Q EXCEPT !.key = "label", !.a = Marked, !.where = [all |-> TRUE, tests |-> <<T("a", "a", "=", 1)>>]],
     [Q EXCEPT !.key = "both", !.a.props = ("a" :> 1) @@ ("b" :> 1)],
     [Q EXCEPT !.key = "where", !.where = [all |-> TRUE, tests |-> <<T("a", "a", "=", 1), T("a", "b", ">", 1)>>]],
     [Q EXCEPT !.key = "or", !.where = [all |-> FALSE, tests |-> <<T("a", "a", "=", 2), T("a", "b", "<>", 1)>>], !.limit = 2],
     [Q EXCEPT !.key = "order", !.order = [prop |-> "a", desc |-> TRUE], !.limit = 2],
     [Q EXCEPT !.key = "sort", !.a.props = ("b" :> 1), !.order = [prop |-> "a", desc |-> TRUE]],
     [Q EXCEPT !.key = "type", !.rel = Hop("R", "out", 1, 0), !.b = Marked],
     [Q EXCEPT !.key = "hop", !.a = Marked, !.a.props = ("a" :> 1), !.rel = Hop("", "in", 1, 0), !.limit = 1],
     [Q EXCEPT !.key = "hops", !.a.props = ("a" :> 1), !.rel = Hop("R", "out", 1, 0)],
     [Q EXCEPT !.key = "var", !.a.props = ("a" :> 1), !.rel = Hop("", "out", 1, -1), !.b = Marked],
     [Q EXCEPT !.key = "opt", !.a = Marked, !.opt = [rel |-> Hop("R", "out", 1, 0), b |-> Plain, where |-> True]],
     [Q EXCEPT !.key = "set", !.a.props = ("a" :> 1), !.set = [var |-> "a", prop |-> "b", val |-> 1]],
     [Q EXCEPT !.key = "setb", !.a = Marked, !.set = [var |-> "a", prop |-> "b", val |-> 1], !.ret = {"b"}],
     [Q EXCEPT !.key = "delb", !.a = Marked, !.del = {"a"}, !.ret = {"b"}],
     [Q EXCEPT !.key = "del", !.a = Marked, !.del = {"a"}],
     [Q EXCEPT !.key = "delr", !.rel = Hop("R", "out", 1, 0), !.del = {"r"}],
     [Q EXCEPT !.key = "create", !.verb = "create", !.a = Marked, !.b = N({}, 1, 2), !.rel = Hop("R", "in", 1, 0)],
     [Q EXCEPT !.key = "one", !.verb = "create", !.a = Marked],
     [Q EXCEPT !.key = "merge", !.verb = "merge", !.a = [labels |-> {"L"}, props |-> ("b" :> 2)],
               !.set = [var |-> "a", prop |-> "a", val |-> 2], !.onCreate = [prop |-> "a", val |-> 1]]}
Prepared1 == {[Q EXCEPT !.key = "p", !.where = [all |-> TRUE, tests |-> <<T("a", "a", "=", Param)>>]],
              [Q EXCEPT !.key = "p2", !.verb = "create"], [Q EXCEPT !.key = "p3", !.verb = "merge"]}
IndexSets1 == {{}, {{"a"}}, {{"a", "b"}}}
Streams1 == {Q, [Q EXCEPT !.limit = 1], [Q EXCEPT !.a.props = ("a" :> 1)]}
Listings1 == {[kind |-> k, limit |-> 1] : k \in {"nodes", "edges", "label"}}
================================================================================
