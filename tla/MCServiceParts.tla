--------------------------- MODULE MCServiceParts ---------------------------
(* One instance for each of three parts of the service that share no state: *)
(* a behaviour is one of the part it starts with, under that part's         *)
(* fairness.                                                                *)
EXTENDS DataDirLock, WarmStarts, LspTransport, TLC

CONSTANTS c1, c2, c3, p1, p2, w1, a1, a2, s1, s2, n1, n2, q1

VARIABLE part

\* Two calls in one process, one in another.
TwoHomes == [c \in Caller |-> IF c \in {c1, c2} THEN p1 ELSE p2]

Is(p) == part = p /\ UNCHANGED part
PartsInit ==
    /\ part \in {"lock", "warm", "transport"}
    /\ LockInit /\ WarmInit /\ RpcInit
PartsNext ==
    \/ Is("lock") /\ LockNext /\ UNCHANGED <<startVars, rpcVars>>
    \/ Is("warm") /\ WarmNext /\ UNCHANGED <<lockVars, rpcVars>>
    \/ Is("transport") /\ RpcNext /\ UNCHANGED <<lockVars, startVars>>
PartsSpec ==
    /\ PartsInit /\ [][PartsNext]_<<part, lockVars, startVars, rpcVars>>
    /\ LockFairness
    /\ WarmFairness
    /\ RpcFairness

\* Every variable of the three parts keeps its type.
PartsTypeOK == LockTypeOK /\ WarmTypeOK /\ RpcTypeOK
=============================================================================
