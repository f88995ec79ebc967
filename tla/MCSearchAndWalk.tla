--------------------------- MODULE MCSearchAndWalk ---------------------------
(* One instance for the searches of a process and one for a walk over the   *)
(* code graph, which share no state: a behaviour is one of the first or one *)
(* of the second.                                                           *)
EXTENDS MCIndexCoord, MCTraverse

VARIABLE part

PartsInit ==
    /\ part \in {"search", "walk"} /\ Init /\ TravInit
    /\ part = "walk" => tree = 1
    /\ part = "search" => bounding /\ budget = CHOOSE b \in Budgets : TRUE
PartsNext ==
    \/ part = "search" /\ Next /\ UNCHANGED <<part, travVars>>
    \/ part = "walk" /\ TravNext /\ UNCHANGED <<part, vars>>
PartsSpec == PartsInit /\ [][PartsNext]_<<part, vars, travVars>>

\* Every variable of the searches and of the walk keeps its type.
PartsTypeOK == TypeOK /\ TravTypeOK
=============================================================================
