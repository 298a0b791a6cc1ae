------------------------------ MODULE AppliedPrefix ------------------------------
(***************************************************************************)
(* What a follower promises about its applied LSN, without saying how it    *)
(* gets there: entries are applied in any order and more than once, and the *)
(* applied LSN only ever stands at a value below which nothing is missing.  *)
(* "from_lsn = appliedLSN + 1" is then a safe place to resume the stream.   *)
(***************************************************************************)
EXTENDS Naturals

CONSTANT LSNs       \* the LSNs of the log

VARIABLES applied,  \* LSNs whose entry has been applied to the database
          mark      \* the applied LSN

Init == applied = {} /\ mark = 0

ApplyEntry == \E l \in LSNs : applied' = applied \cup {l} /\ mark' = mark

SetMark == /\ mark' \in Nat /\ 1..mark' \subseteq applied
           /\ applied' = applied

\* Another leader, with a log of its own: nothing of it has been applied.
NewLog == applied' = {} /\ mark' = 0

Next == ApplyEntry \/ SetMark \/ NewLog

Spec == Init /\ [][Next]_<<applied, mark>>
================================================================================
