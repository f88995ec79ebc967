--------------------------- MODULE MCWatchRegistry ---------------------------
(* Instances of WatchRegistry for TLC.                                       *)
EXTENDS WatchRegistry

CONSTANTS c1, j1, t1, t2
=============================================================================
