-------------------------- MODULE MCLanguageServers --------------------------
(* One instance for the session manager and one for the sync of a          *)
(* workspace, which share no state but the registry: a behaviour is one of *)
(* the first or one of the second.                                         *)
EXTENDS LspSessions, WorkspaceSync, TLC

CONSTANTS w1, p1, c1, c2, s1, s2, f1, l1, l2, r1, r2

VARIABLE part

Alike == Permutations(Session) \cup Permutations(Caller)

PartsInit ==
    /\ Init /\ SyncInit /\ part \in {"sessions", "sync"}
    /\ part = "sessions" => disk = [f \in File |-> 0]
PartsNext ==
    \/ part = "sessions" /\ Next /\ UNCHANGED <<part, syncVars>>
    \/ part = "sync" /\ SyncNext /\ UNCHANGED <<part, vars>>
PartsSpec == PartsInit /\ [][PartsNext]_<<part, vars, syncVars>>

\* Every variable of the two parts keeps its type.
PartsTypeOK == TypeOK /\ SyncTypeOK
=============================================================================
