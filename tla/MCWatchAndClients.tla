------------------------- MODULE MCWatchAndClients -------------------------
(* One instance for the watchers of a workspace and one for the calls of a  *)
(* model service, which share no state: a behaviour is one of the first or  *)
(* one of the second, under its fairness.                                   *)
EXTENDS MCWatchRegistry, ModelClients

CONSTANTS i1, f1

VARIABLE part

PartsInit ==
    /\ part \in {"watch", "clients"} /\ WatchInit /\ ClientInit
    /\ part = "watch" => up
PartsNext ==
    \/ part = "watch" /\ WatchNext /\ UNCHANGED <<part, clientVars>>
    \/ part = "clients" /\ ClientNext /\ UNCHANGED <<part, watchVars>>
PartsSpec ==
    /\ PartsInit /\ [][PartsNext]_<<part, watchVars, clientVars>>
    /\ TaskFairness
    /\ ClientFairness

\* Every variable of the watchers and of the calls keeps its type.
PartsTypeOK == WatchTypeOK /\ ClientTypeOK
=============================================================================
