--------------------------------- MODULE MCReads ---------------------------------
(* Instance of Reads for TLC: one node of two is in the file, the edge is not.        *)
EXTENDS Reads

CONSTANTS n1, n2, e1

PairHash == [p \in Pairs |-> {p, "shared"}]
Get(id)  == [kind |-> "get", arg |-> id]
Has(p)   == [kind |-> "has", arg |-> p]
Calls    == {<<Get(n1), Get(n2)>>, <<Has(e1), Get(n1)>>}
================================================================================
