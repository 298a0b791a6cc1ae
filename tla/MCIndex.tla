-------------------------------- MODULE MCIndex --------------------------------
(* Instance of Index for TLC: one property index, one composite index.         *)
EXTENDS Index

MCDefs == {{"p"}, {"p", "q"}}
MCLead == [D \in MCDefs |-> "p"]
MCPayloads == {[p |-> 1, q |-> 1], [p |-> 2, q |-> Absent]}
================================================================================
