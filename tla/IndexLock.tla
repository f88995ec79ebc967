------------------------------ MODULE IndexLock ------------------------------
(***************************************************************************)
(* What lock_data_dir_for_indexing (src/app/mod.rs) promises its callers,  *)
(* in all processes that share the data directory: a lock that one of them *)
(* has at a time, and a wait that its caller may end.                      *)
(***************************************************************************)
CONSTANTS Caller,    \* calls of lock_data_dir_for_indexing, each made once
          Home       \* Home[c]: the process that makes call c

VARIABLES asking, having, over   \* the calls that wait, have the lock, are over

lockVars == <<asking, having, over>>

Init == asking = {} /\ having = {} /\ over = {}

Ask(c)  == /\ c \notin asking \cup having \cup over
           /\ asking' = asking \cup {c} /\ UNCHANGED <<having, over>>

Take(c) == /\ c \in asking /\ having = {}
           /\ asking' = asking \ {c} /\ having' = {c} /\ UNCHANGED over

Leave(gone) == /\ asking' = asking \ gone /\ having' = having \ gone
               /\ over' = over \cup gone

\* The caller gets an error, stops waiting, or gives the lock back.
End(c)  == c \notin over /\ Leave({c})

\* A process ends with everything it waits for and has.
Exit(p) == Leave({c \in Caller : Home[c] = p})

Next == \/ \E c \in Caller : Ask(c) \/ Take(c) \/ End(c)
        \/ \E c \in Caller : Exit(Home[c])

Spec == Init /\ [][Next]_lockVars
=============================================================================
