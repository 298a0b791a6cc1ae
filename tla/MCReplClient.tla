------------------------------ MODULE MCReplClient ------------------------------
(* Model-checking instances of ReplClient: the logs the leader writes.       *)
EXTENDS ReplClient, TLC

Add(k, v)   == [op |-> "add", key |-> k, val |-> v]
Merge(k, v) == [op |-> "merge", key |-> k, val |-> v]
Delete(k)   == [op |-> "delete", key |-> k, val |-> 0]

\* Entries that commute once the key is there.  LSN 2 is missing: its Append failed
\* after it had taken the LSN.  An update that overtakes its add is an apply error.
GapLog == 1 :> Add("a", 1) @@ 3 :> Merge("a", 1) @@ 4 :> Delete("b")
================================================================================
