---------------------------- MODULE MCIndexCoord ----------------------------
(* Instances of IndexCoord for TLC.                                        *)
EXTENDS IndexCoord

CONSTANTS s1, s2, x1, w1,   \* searches, an explicit index request, a watcher
          p1, p2, i1, i2

\* Where the tasks run: everything in one process, or the second actor in another.
OneHome == [t \in Task |-> p1]
TwoHomes == [t \in Task |-> IF t \in {s1, w1} THEN p1 ELSE p2]
=============================================================================
