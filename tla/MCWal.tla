--------------------------------- MODULE MCWal ---------------------------------
(* Model-checking instance of Wal; the bounds are given in the MCWal_*.cfg. *)
EXTENDS Wal
================================================================================
