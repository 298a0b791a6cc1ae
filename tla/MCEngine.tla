-------------------------------- MODULE MCEngine --------------------------------
(* Instance of Engine for TLC.                                                *)
EXTENDS Engine
================================================================================
