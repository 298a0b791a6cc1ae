------------------------------ MODULE MCGraphStore ------------------------------
\* Instances of GraphStore for TLC.
EXTENDS GraphStore

Symmetry == Permutations(Threads)

PropA  == {"a" :> 1}
PropAB == {"a" :> 1, "b" :> 1}
Labels == {{"L"}}

\* AddEdgeBatch does not look its endpoints up; the others keep the graph whole.
CheckedOps == {"AddNode", "AddNodeWithLabels", "AddNodeBatch", "UpdateNode", "SetNodeProps",
               "AddLabel", "RemoveLabel", "AddEdge", "UpdateEdge", "DeleteEdge", "DeleteNode"}
RaceOps    == {"AddNodeBatch", "AddEdge", "AddEdgeBatch", "DeleteEdge", "DeleteNode",
               "SetNodeProps"}
================================================================================
