----------------------- MODULE MCProcessesAndDocuments -----------------------
(* One instance for the requests of two processes and one for the documents *)
(* of a language-server session, which share no state: a behaviour is one   *)
(* of the first or one of the second.                                       *)
EXTENDS MCIndexCoord, LspDocuments, TLC

CONSTANTS d1, d2, h1, h2

VARIABLE part

Alike == Permutations(Hook) \cup Permutations(Doc)

PartsInit ==
    /\ part \in {"processes", "documents"} /\ Init /\ DocInit
    /\ part = "documents" => tree = 1
PartsNext ==
    \/ part = "processes" /\ Next /\ UNCHANGED <<part, docVars>>
    \/ part = "documents" /\ DocNext /\ UNCHANGED <<part, vars>>
PartsSpec == PartsInit /\ [][PartsNext]_<<part, vars, docVars>>
=============================================================================
