-------------------------- MODULE IndexCoord_proofs --------------------------
(***************************************************************************)
(* Theorems about IndexCoord, for every set of tasks, processes,           *)
(* identities, contents and faults that CoordAssumption allows.            *)
(***************************************************************************)
EXTENDS IndexCoord, TLAPS

\* What CoordAssumption says of the constants, as types.
LEMMA ConstantTypes ==
    /\ NoContent \in Content \cup {NoContent} /\ NoRequest \in Request /\ NoAnswer \in Answer
    /\ \A t \in Task : Home[t] \in Process
  BY CoordAssumption DEF Content, NoContent, NoRequest, Request, NoAnswer, Answer, AnySnapshot

\* Every named phase is a program counter.
LEMMA PhaseTypes == Running \subseteq PCs /\ Writing \subseteq PCs /\ Waiting \subseteq PCs
  BY DEF PCs, Writing, Waiting, Running

\* The helpers that actions share keep the types of what they write.
LEMMA GotoType == ASSUME TypeOK, NEW t \in Task, NEW l \in PCs, Goto(t, l)
                  PROVE  pc' \in [Task -> PCs]
  BY DEF TypeOK, Goto

\* The lock helpers.
LEMMA LockTypes ==
    ASSUME TypeOK, NEW t \in Task
    PROVE  /\ TakeWrite(t)  => writer'  \in [Process -> Task \cup {NoTask}]
           /\ DropWrite(t)  => writer'  \in [Process -> Task \cup {NoTask}]
           /\ QueueWrite(t) => waiters' \in [Process -> SUBSET Task]
           /\ LeaveQueue(t) => waiters' \in [Process -> SUBSET Task]
           /\ DropDir(t)    => dirLock' \in Task \cup {NoTask}
  BY DEF TypeOK, TakeWrite, DropWrite, QueueWrite, LeaveQueue, DropDir

\* StaleCheckStamp::keep and drop.
LEMMA StampTypes ==
    ASSUME TypeOK, NEW t \in Task
    PROVE  /\ KeepStamp(t)    => lastCheck' \in [Process -> Task \cup {"due", "kept"}]
           /\ RestoreStamp(t) => lastCheck' \in [Process -> Task \cup {"due", "kept"}]
  BY DEF TypeOK, KeepStamp, RestoreStamp

\* The end of a request.
LEMMA ForgetTypes ==
    ASSUME TypeOK, NEW t \in Task, Forget(t)
    PROVE  req' \in [Task -> Request] /\ seen' \in [Task -> SUBSET Content]
  BY ConstantTypes DEF TypeOK, Forget

\* An answer of the search.
LEMMA RespondTypes ==
    ASSUME TypeOK, NEW t \in Task, NEW st \in {"ok", "warned", "error", "shared"},
           NEW s \in AnySnapshot, Respond(t, st, s)
    PROVE  pc' \in [Task -> PCs] /\ answer' \in [Task -> Answer]
  BY DEF TypeOK, Respond, Goto, PCs, Answer

\* stale_refresh_fallback.
LEMMA FallbackTypes ==
    ASSUME TypeOK, NEW t \in Task, Fallback(t)
    PROVE  pc' \in [Task -> PCs] /\ answer' \in [Task -> Answer]
  <1>1. NoTable \in AnySnapshot /\ req[t].initial \in AnySnapshot
    BY DEF TypeOK, AnySnapshot, Request
  <1> QED BY <1>1, RespondTypes DEF Fallback

\* The history of how runs ended.
LEMMA RunEndsTypes ==
    ASSUME TypeOK, NEW t \in Task, NEW how \in {"saved", "failed"}, RunEnds(t, how)
    PROVE  flights' \in [Task -> SUBSET {"saved", "failed"}]
  BY DEF TypeOK, RunEnds

\* Every action that writes a field of a request keeps it one.
LEMMA RequestTypes ==
    ASSUME TypeOK, NEW t \in Task
    PROVE  /\ StartSearch(t) => req' \in [Task -> Request]
           /\ Walk(t)        => req' \in [Task -> Request] /\ seen' \in [Task -> SUBSET Content]
           /\ Decide(t)      => req' \in [Task -> Request]
           /\ WatchWalk(t)   => req' \in [Task -> Request]
           /\ WatchRewalk(t) => req' \in [Task -> Request]
           /\ RunScan(t)     => req' \in [Task -> Request]
           /\ RunEmbed(t)    => req' \in [Task -> Request]
  <1>1. /\ req \in [Task -> Request] /\ tree \in Content /\ table \in AnySnapshot
        /\ seen \in [Task -> SUBSET Content] /\ tree \in Content \cup {NoContent}
    BY DEF TypeOK
  <1>2. StartSearch(t) => req' \in [Task -> Request]
    BY <1>1 DEF Request, StartSearch
  <1>3. Walk(t) => req' \in [Task -> Request] /\ seen' \in [Task -> SUBSET Content]
    <2>1. Walk(t) => req' \in [Task -> Request] BY <1>1 DEF Request, Walk
    <2>2. Walk(t) => seen' \in [Task -> SUBSET Content] BY <1>1 DEF Walk
    <2> QED BY <2>1, <2>2
  <1>4. Decide(t) => req' \in [Task -> Request]
    <2> DEFINE b == RepairDue(t) /\ ~FileStale(t) /\ ~IdentityChanged(t)
    <2>1. b \in BOOLEAN OBVIOUS
    <2>2. Decide(t) => req' = [req EXCEPT ![t].repairOnly = b] BY DEF Decide
    <2> HIDE DEF b
    <2>3. [req EXCEPT ![t].repairOnly = b] \in [Task -> Request] BY <1>1, <2>1 DEF Request
    <2> QED BY <2>2, <2>3
  <1>5. WatchWalk(t) => req' \in [Task -> Request]
    BY <1>1 DEF Request, WatchWalk
  <1>6. WatchRewalk(t) => req' \in [Task -> Request]
    BY <1>1 DEF Request, WatchRewalk
  <1>7. RunScan(t) => req' \in [Task -> Request]
    <2>1. [req EXCEPT ![t].scanned = tree, ![t].previous = table] \in [Task -> Request]
      BY <1>1 DEF Request
    <2> QED BY <2>1, Zenon DEF RunScan
  <1>8. RunEmbed(t) => req' \in [Task -> Request]
    BY <1>1 DEF Request, RunEmbed
  <1> QED BY <1>2, <1>3, <1>4, <1>5, <1>6, <1>7, <1>8

\* The budget of faults.
LEMMA FaultTypes ==
    ASSUME TypeOK, NEW k, Fault(k)
    PROVE  faultsLeft' \in 0..MaxFaults
  BY CoordAssumption DEF TypeOK, Fault

\* The end of a watcher's pass.
LEMMA WatchDoneTypes ==
    ASSUME TypeOK, NEW t \in Task, WatchDone(t)
    PROVE  /\ pc' \in [Task -> PCs]
           /\ req' \in [Task -> Request] /\ seen' \in [Task -> SUBSET Content]
  <1>1. "idle" \in PCs BY DEF PCs
  <1> QED BY <1>1, GotoType, ForgetTypes DEF WatchDone

\* What an action does beyond the fault it spends and the breaker.
TypeOKButFaults == 
    /\ tree \in Content /\ table \in AnySnapshot /\ manifest \in Content \cup {NoContent}
    /\ dirLock \in Task \cup {NoTask}
    /\ embedder \in {"up", "down"}
    /\ identity \in [Process -> Identity]
    /\ writer \in [Process -> Task \cup {NoTask}] /\ waiters \in [Process -> SUBSET Task]
    /\ probing \in [Process -> BOOLEAN] /\ flightError \in [Process -> BOOLEAN]
    /\ lastCheck \in [Process -> Task \cup {"due", "kept"}]
    /\ failedRepair \in [Process -> BOOLEAN]
    /\ pc \in [Task -> PCs] /\ req \in [Task -> Request] /\ answer \in [Task -> Answer]
    /\ seen \in [Task -> SUBSET Content] /\ sinceCheck \in [Process -> SUBSET Content]
    /\ flights \in [Task -> SUBSET {"saved", "failed"}]

\* An index run that fails, whoever ran it.
LEMMA EndFailedRunTypes ==
    ASSUME TypeOK, NEW t \in Task, EndFailedRun(t)
    PROVE  TypeOKButFaults'
  <1>1. NoTable \in AnySnapshot BY DEF AnySnapshot
  <1>2. /\ writer' \in [Process -> Task \cup {NoTask}] /\ dirLock' \in Task \cup {NoTask}
        /\ flights' \in [Task -> SUBSET {"saved", "failed"}]
    BY LockTypes, RunEndsTypes DEF EndFailedRun
  <1>3. /\ flightError' \in [Process -> BOOLEAN] /\ failedRepair' \in [Process -> BOOLEAN]
        /\ lastCheck' \in [Process -> Task \cup {"due", "kept"}]
    <2>1. CASE t \in Searcher /\ ~Creating(t)
      BY <2>1, StampTypes DEF EndFailedRun, TypeOK, Request
    <2>2. CASE ~(t \in Searcher /\ ~Creating(t))
      BY <2>2 DEF EndFailedRun, TypeOK
    <2> QED BY <2>1, <2>2
  <1>4. /\ pc' \in [Task -> PCs] /\ req' \in [Task -> Request] /\ answer' \in [Task -> Answer]
        /\ seen' \in [Task -> SUBSET Content]
    <2>1. CASE t \in Watcher /\ WatchDone(t) /\ UNCHANGED answer
      BY <2>1, WatchDoneTypes DEF TypeOK
    <2>2. CASE /\ UNCHANGED <<req, seen>>
               /\ IF t \in Indexer \/ Creating(t) THEN Respond(t, "error", NoTable)
                                                  ELSE Fallback(t)
      BY <1>1, <2>2, RespondTypes, FallbackTypes DEF TypeOK
    <2> QED BY <2>1, <2>2 DEF EndFailedRun
  <1> QED BY <1>2, <1>3, <1>4 DEF EndFailedRun, TypeOK, TypeOKButFaults

-----------------------------------------------------------------------------
\* A run past its scan has read the tree.
ScannedInv == \A t \in Task : pc[t] \in {"embed", "commit", "save"} => req[t].scanned \in Content

\* One step per action of Next.
LEMMA TypeStep == ASSUME TypeOK, ScannedInv, [Next]_vars PROVE TypeOK'
  <1> USE CoordAssumption, ConstantTypes, GotoType, LockTypes, StampTypes
  <1> USE DEF TypeOK, PCs, Waiting, Writing, Running, AnySnapshot, diskVars, procVars, taskVars,
              histVars
  <1>1. ASSUME NEW t \in Task, StartSearch(t) PROVE TypeOK'
    <2>1. req' \in [Task -> Request] BY <1>1, RequestTypes
    <2> QED BY <1>1, <2>1 DEF StartSearch
  <1>2. ASSUME NEW t \in Task, ResolveMissing(t) PROVE TypeOK'
    BY <1>2, SMTT(20) DEF ResolveMissing
  <1>3. ASSUME NEW t \in Task, CreateLocked(t) PROVE TypeOK'
    <2>1. /\ flightError' \in [Process -> BOOLEAN] /\ pc' \in [Task -> PCs]
          /\ writer' \in [Process -> Task \cup {NoTask}]
      BY <1>3, GotoType, LockTypes DEF CreateLocked
    <2> QED BY <1>3, <2>1 DEF CreateLocked
  <1>4. ASSUME NEW t \in Task, CreateWaitedUses(t) PROVE TypeOK'
    BY <1>4, SMTT(20) DEF CreateWaitedUses
  <1>5. ASSUME NEW t \in Task, CreateWaitedShares(t) PROVE TypeOK'
    BY <1>5, RespondTypes, SMTT(20) DEF CreateWaitedShares
  <1>6. ASSUME NEW t \in Task, CreateWaitedIndexes(t) PROVE TypeOK'
    BY <1>6, SMTT(20) DEF CreateWaitedIndexes
  <1>7. ASSUME NEW t \in Task, ResolveReused(t) PROVE TypeOK'
    BY <1>7, RespondTypes, SMTT(20) DEF ResolveReused
  <1>8. ASSUME NEW t \in Task, TakeStamp(t) PROVE TypeOK'
    BY <1>8, SMTT(20) DEF TakeStamp
  <1>9. ASSUME NEW t \in Task, Walk(t) PROVE TypeOK'
    <2>1. req' \in [Task -> Request] /\ seen' \in [Task -> SUBSET Content] BY <1>9, RequestTypes
    <2> QED BY <1>9, <2>1 DEF Walk
  <1>10. ASSUME NEW t \in Task, WalkFails(t) PROVE TypeOK'
    BY <1>10, FaultTypes, FallbackTypes, SMTT(20) DEF WalkFails
  <1>11. ASSUME NEW t \in Task, Decide(t) PROVE TypeOK'
    <2>1. req' \in [Task -> Request] BY <1>11, RequestTypes
    <2>2. pc' \in [Task -> PCs] /\ lastCheck' \in [Process -> Task \cup {"due", "kept"}]
      BY <1>11 DEF Decide
    <2> QED BY <1>11, <2>1, <2>2 DEF Decide
  <1>12. ASSUME NEW t \in Task, RefreshTryWrite(t) PROVE TypeOK'
    BY <1>12, SMTT(20) DEF RefreshTryWrite
  <1>13. ASSUME NEW t \in Task, RefreshRecheck(t) PROVE TypeOK'
    BY <1>13, SMTT(20) DEF RefreshRecheck
  <1>14. ASSUME NEW t \in Task, RefreshWaitTimesOut(t) PROVE TypeOK'
    BY <1>14, FallbackTypes, SMTT(20) DEF RefreshWaitTimesOut
  <1>15. ASSUME NEW t \in Task, Reread(t) PROVE TypeOK'
    BY <1>15, RespondTypes, SMTT(20) DEF Reread, Pinned
  <1>16. ASSUME NEW t \in Task, Return(t) PROVE TypeOK'
    BY <1>16, ForgetTypes, SMTT(20) DEF Return
  <1>17. ASSUME NEW t \in Task, StartIndex(t) PROVE TypeOK'
    BY <1>17, SMTT(20) DEF StartIndex
  <1>18. ASSUME NEW t \in Task, IndexLocked(t) PROVE TypeOK'
    BY <1>18, SMTT(20) DEF IndexLocked
  <1>19. ASSUME NEW t \in Task, WatchWalk(t) PROVE TypeOK'
    <2>1. req' \in [Task -> Request] BY <1>19, RequestTypes
    <2> QED BY <1>19, <2>1 DEF WatchWalk
  <1>20. ASSUME NEW t \in Task, WatchCompare(t) PROVE TypeOK'
    BY <1>20, WatchDoneTypes, SMTT(20) DEF WatchCompare
  <1>21. ASSUME NEW t \in Task, WatchRewalk(t) PROVE TypeOK'
    <2>1. req' \in [Task -> Request] BY <1>21, RequestTypes
    <2> QED BY <1>21, <2>1 DEF WatchRewalk
  <1>22. ASSUME NEW t \in Task, WatchRecheck(t) PROVE TypeOK'
    <2>1. CASE manifest = req[t].fp
      BY <1>22, <2>1, WatchDoneTypes DEF WatchRecheck
    <2>2. CASE manifest # req[t].fp
      BY <1>22, <2>2 DEF WatchRecheck
    <2> QED BY <2>1, <2>2
  <1>23. ASSUME NEW t \in Task, AcquireWrite(t) PROVE TypeOK'
    BY <1>23, SMTT(20) DEF AcquireWrite
  <1>24. ASSUME NEW t \in Task, RunLock(t) PROVE TypeOK'
    BY <1>24, SMTT(20) DEF RunLock
  <1>25. ASSUME NEW t \in Task, RunScan(t) PROVE TypeOK'
    <2>1. req' \in [Task -> Request] BY <1>25, RequestTypes
    <2> QED BY <1>25, <2>1 DEF RunScan
  <1>26. ASSUME NEW t \in Task, RunEmbed(t) PROVE TypeOK'
    <2>1. req' \in [Task -> Request] BY <1>26, RequestTypes
    <2>2. pc' \in [Task -> PCs] /\ breaker' \in [Process -> BOOLEAN]
      BY <1>26 DEF RunEmbed
    <2> QED BY <1>26, <2>1, <2>2 DEF RunEmbed
  <1>27. ASSUME NEW t \in Task, RunCommit(t) PROVE TypeOK'
    <2>1. req[t].scanned \in Content /\ req[t].planned \in {"real", "missing"}
          /\ identity[Home[t]] \in Identity
      BY <1>27 DEF RunCommit, Request, ScannedInv
    <2>2. NewTable(t) \in Snapshot
      BY <2>1 DEF NewTable, Snapshot
    <2>3. table' \in AnySnapshot
      BY <1>27, <2>2 DEF RunCommit
    <2> QED BY <1>27, <2>3 DEF RunCommit
  <1>28. ASSUME NEW t \in Task, RunSave(t) PROVE TypeOK'
    BY <1>28, WatchDoneTypes, RespondTypes, RunEndsTypes, SMTT(20) DEF RunSave,
       SavedFingerprint, Creating, Request
  <1>29. ASSUME NEW t \in Task, RunLockFails(t) PROVE TypeOK'
    BY <1>29, EndFailedRunTypes, FaultTypes, SMTT(20) DEF RunLockFails, TypeOKButFaults
  <1>30. ASSUME NEW t \in Task, RunScanFails(t) PROVE TypeOK'
    BY <1>30, EndFailedRunTypes, FaultTypes, SMTT(20) DEF RunScanFails, TypeOKButFaults
  <1>31. ASSUME NEW t \in Task, RunEmbedUnavailable(t) PROVE TypeOK'
    BY <1>31, EndFailedRunTypes, FaultTypes, SMTT(20) DEF RunEmbedUnavailable, TypeOKButFaults
  <1>32. ASSUME NEW t \in Task, RunEmbedRejected(t) PROVE TypeOK'
    BY <1>32, EndFailedRunTypes, FaultTypes, SMTT(20) DEF RunEmbedRejected, TypeOKButFaults
  <1>33. ASSUME NEW t \in Task, RunCommitFails(t) PROVE TypeOK'
    BY <1>33, EndFailedRunTypes, FaultTypes, SMTT(20) DEF RunCommitFails, TypeOKButFaults
  <1>34. ASSUME NEW t \in Task, RunSaveFails(t) PROVE TypeOK'
    BY <1>34, EndFailedRunTypes, FaultTypes, SMTT(20) DEF RunSaveFails, TypeOKButFaults
  <1>35. ASSUME NEW t \in Task, Cancel(t) PROVE TypeOK'
    BY <1>35, ForgetTypes, FaultTypes, SMTT(20) DEF Cancel, StruckBy
  <1>36. ASSUME NEW p \in Process, Crash(p) PROVE TypeOK'
    BY <1>36, FaultTypes, SMTT(20) DEF Crash, Local
  <1>37. ASSUME NEW p \in Process, CheckFallsDue(p) PROVE TypeOK'
    BY <1>37, FaultTypes, SMTT(20) DEF CheckFallsDue
  <1>38. ASSUME NEW p \in Process, RepairWindowEnds(p) PROVE TypeOK'
    BY <1>38, FaultTypes, SMTT(20) DEF RepairWindowEnds
  <1>39. ASSUME NEW p \in Process, BreakerWindowEnds(p) PROVE TypeOK'
    BY <1>39, FaultTypes, SMTT(20) DEF BreakerWindowEnds
  <1>40. ASSUME NEW p \in Process, QueryRefused(p) PROVE TypeOK'
    BY <1>40, FaultTypes, SMTT(20) DEF QueryRefused
  <1>41. ASSUME NEW p \in Process, ProbeBegins(p) PROVE TypeOK'
    BY <1>41, FaultTypes, SMTT(20) DEF ProbeBegins
  <1>42. ASSUME NEW p \in Process, ProbeEnds(p) PROVE TypeOK'
    BY <1>42, FaultTypes, SMTT(20) DEF ProbeEnds
  <1>43. CASE Edit
    BY <1>43, FaultTypes, SMTT(20) DEF Edit
  <1>44. CASE Outage
    BY <1>44, FaultTypes, SMTT(20) DEF Outage
  <1>45. CASE Recover
    BY <1>45, FaultTypes, SMTT(20) DEF Recover
  <1>46. CASE UNCHANGED vars
    BY <1>46, FaultTypes, SMTT(20) DEF vars
  <1>47. ASSUME NEW t \in Task, WatchRewalkFails(t) PROVE TypeOK'
    BY <1>47, WatchDoneTypes, FaultTypes, SMTT(20) DEF WatchRewalkFails
  <1> QED
    BY <1>1, <1>2, <1>3, <1>4, <1>5, <1>6, <1>7, <1>8, <1>9, <1>10, <1>11, <1>12, <1>13,
       <1>14, <1>15, <1>16, <1>17, <1>18, <1>19, <1>20, <1>21, <1>22, <1>23, <1>24, <1>25,
       <1>26, <1>27, <1>28, <1>29, <1>30, <1>31, <1>32, <1>33, <1>34, <1>35, <1>36, <1>37,
       <1>38, <1>39, <1>40, <1>41, <1>42, <1>43, <1>44, <1>45, <1>46, <1>47 DEF Next, Run,
       RunFails, Search, Watch, Elapse, Task

-----------------------------------------------------------------------------
\* The inductive invariant: who is in the pipeline holds the data-directory
\* locks, who is past the write lock holds it, and what a run read at its scan
\* stays true until it commits.
LockInv ==
    \A t \in Task : /\ pc[t] \in Running => dirLock = t
                    /\ pc[t] \in Writing => writer[Home[t]] = t
PreviousInv == \A t \in Task : pc[t] \in {"embed", "commit"} => req[t].previous = table
PlannedInv ==
    \A t \in Task : pc[t] = "commit" /\ req[t].planned = "missing" => MayIndexVectorless(t)

CoordInv == TypeOK /\ LockInv /\ ScannedInv /\ PreviousInv /\ PlannedInv

\* The program starts inside the invariant.
LEMMA InitInv == ASSUME Init PROVE CoordInv
  BY CoordAssumption, ConstantTypes
     DEF Init, CoordInv, TypeOK, LockInv, ScannedInv, PreviousInv, PlannedInv, AnySnapshot, PCs,
         Running, Writing, Waiting

\* No action takes a lock that is held, and none gives back another's.
LEMMA LockStep == ASSUME TypeOK, LockInv, [Next]_vars PROVE LockInv'
  <1> USE CoordAssumption, ConstantTypes
  <1> USE DEF TypeOK, LockInv, Running, Writing, Waiting, Goto, Respond, Fallback, WatchDone,
              Forget,
          TakeWrite, DropWrite, DropDir, diskVars, procVars
  <1>1. ASSUME NEW t \in Task, StartSearch(t) PROVE LockInv'
    BY <1>1, SMTT(20) DEF StartSearch
  <1>2. ASSUME NEW t \in Task, ResolveMissing(t) PROVE LockInv'
    BY <1>2, SMTT(20) DEF ResolveMissing, WriteFree
  <1>3. ASSUME NEW t \in Task, CreateLocked(t) PROVE LockInv'
    BY <1>3, SMTT(20) DEF CreateLocked
  <1>4. ASSUME NEW t \in Task, CreateWaitedUses(t) PROVE LockInv'
    BY <1>4, SMTT(20) DEF CreateWaitedUses
  <1>5. ASSUME NEW t \in Task, CreateWaitedShares(t) PROVE LockInv'
    BY <1>5, SMTT(20) DEF CreateWaitedShares
  <1>6. ASSUME NEW t \in Task, CreateWaitedIndexes(t) PROVE LockInv'
    BY <1>6, SMTT(20) DEF CreateWaitedIndexes
  <1>7. ASSUME NEW t \in Task, ResolveReused(t) PROVE LockInv'
    BY <1>7, SMTT(20) DEF ResolveReused
  <1>8. ASSUME NEW t \in Task, TakeStamp(t) PROVE LockInv'
    BY <1>8, SMTT(20) DEF TakeStamp
  <1>9. ASSUME NEW t \in Task, Walk(t) PROVE LockInv'
    BY <1>9, SMTT(20) DEF Walk
  <1>10. ASSUME NEW t \in Task, WalkFails(t) PROVE LockInv'
    BY <1>10, SMTT(20) DEF WalkFails
  <1>11. ASSUME NEW t \in Task, Decide(t) PROVE LockInv'
    BY <1>11, SMTT(20) DEF Decide
  <1>12. ASSUME NEW t \in Task, RefreshTryWrite(t) PROVE LockInv'
    BY <1>12, SMTT(20) DEF RefreshTryWrite, WriteFree
  <1>13. ASSUME NEW t \in Task, RefreshRecheck(t) PROVE LockInv'
    BY <1>13, SMTT(20) DEF RefreshRecheck
  <1>14. ASSUME NEW t \in Task, RefreshWaitTimesOut(t) PROVE LockInv'
    BY <1>14, SMTT(20) DEF RefreshWaitTimesOut
  <1>15. ASSUME NEW t \in Task, Reread(t) PROVE LockInv'
    BY <1>15, SMTT(20) DEF Reread
  <1>16. ASSUME NEW t \in Task, Return(t) PROVE LockInv'
    BY <1>16, SMTT(20) DEF Return
  <1>17. ASSUME NEW t \in Task, StartIndex(t) PROVE LockInv'
    BY <1>17, SMTT(20) DEF StartIndex
  <1>18. ASSUME NEW t \in Task, IndexLocked(t) PROVE LockInv'
    BY <1>18, SMTT(20) DEF IndexLocked
  <1>19. ASSUME NEW t \in Task, WatchWalk(t) PROVE LockInv'
    BY <1>19, SMTT(20) DEF WatchWalk
  <1>20. ASSUME NEW t \in Task, WatchCompare(t) PROVE LockInv'
    BY <1>20, SMTT(20) DEF WatchCompare
  <1>21. ASSUME NEW t \in Task, WatchRewalk(t) PROVE LockInv'
    BY <1>21, SMTT(20) DEF WatchRewalk
  <1>22. ASSUME NEW t \in Task, WatchRecheck(t) PROVE LockInv'
    BY <1>22, SMTT(20) DEF WatchRecheck
  <1>23. ASSUME NEW t \in Task, AcquireWrite(t) PROVE LockInv'
    BY <1>23, SMTT(20) DEF AcquireWrite
  <1>24. ASSUME NEW t \in Task, RunLock(t) PROVE LockInv'
    BY <1>24, SMTT(20) DEF RunLock, DirLockFree
  <1>25. ASSUME NEW t \in Task, RunScan(t) PROVE LockInv'
    BY <1>25, SMTT(20) DEF RunScan
  <1>26. ASSUME NEW t \in Task, RunEmbed(t) PROVE LockInv'
    BY <1>26, SMTT(20) DEF RunEmbed
  <1>27. ASSUME NEW t \in Task, RunCommit(t) PROVE LockInv'
    BY <1>27, SMTT(20) DEF RunCommit
  <1>28. ASSUME NEW t \in Task, RunSave(t) PROVE LockInv'
    BY <1>28, SMTT(20) DEF RunSave
  <1>29. ASSUME NEW t \in Task, RunLockFails(t) PROVE LockInv'
    BY <1>29, SMTT(20) DEF RunLockFails, EndFailedRun
  <1>30. ASSUME NEW t \in Task, RunScanFails(t) PROVE LockInv'
    BY <1>30, SMTT(20) DEF RunScanFails, EndFailedRun
  <1>31. ASSUME NEW t \in Task, RunEmbedUnavailable(t) PROVE LockInv'
    BY <1>31, SMTT(20) DEF RunEmbedUnavailable, EndFailedRun
  <1>32. ASSUME NEW t \in Task, RunEmbedRejected(t) PROVE LockInv'
    BY <1>32, SMTT(20) DEF RunEmbedRejected, EndFailedRun
  <1>33. ASSUME NEW t \in Task, RunCommitFails(t) PROVE LockInv'
    BY <1>33, SMTT(20) DEF RunCommitFails, EndFailedRun
  <1>34. ASSUME NEW t \in Task, RunSaveFails(t) PROVE LockInv'
    BY <1>34, SMTT(20) DEF RunSaveFails, EndFailedRun
  <1>35. ASSUME NEW t \in Task, Cancel(t) PROVE LockInv'
    BY <1>35, SMTT(20) DEF Cancel
  <1>36. ASSUME NEW p \in Process, Crash(p) PROVE LockInv'
    BY <1>36, SMTT(20) DEF Crash, Local
  <1>37. ASSUME NEW p \in Process, CheckFallsDue(p) PROVE LockInv'
    BY <1>37, SMTT(20) DEF CheckFallsDue, taskVars
  <1>38. ASSUME NEW p \in Process, RepairWindowEnds(p) PROVE LockInv'
    BY <1>38, SMTT(20) DEF RepairWindowEnds, taskVars
  <1>39. ASSUME NEW p \in Process, BreakerWindowEnds(p) PROVE LockInv'
    BY <1>39, SMTT(20) DEF BreakerWindowEnds, taskVars
  <1>40. ASSUME NEW p \in Process, QueryRefused(p) PROVE LockInv'
    BY <1>40, SMTT(20) DEF QueryRefused, taskVars
  <1>41. ASSUME NEW p \in Process, ProbeBegins(p) PROVE LockInv'
    BY <1>41, SMTT(20) DEF ProbeBegins, taskVars
  <1>42. ASSUME NEW p \in Process, ProbeEnds(p) PROVE LockInv'
    BY <1>42, SMTT(20) DEF ProbeEnds, taskVars
  <1>43. CASE Edit
    BY <1>43, SMTT(20) DEF Edit, taskVars
  <1>44. CASE Outage
    BY <1>44, SMTT(20) DEF Outage, taskVars
  <1>45. CASE Recover
    BY <1>45, SMTT(20) DEF Recover, taskVars
  <1>46. CASE UNCHANGED vars
    BY <1>46, SMTT(20) DEF vars, taskVars
  <1>47. ASSUME NEW t \in Task, WatchRewalkFails(t) PROVE LockInv'
    BY <1>47, SMTT(20) DEF WatchRewalkFails, Fault
  <1> QED
    BY <1>1, <1>2, <1>3, <1>4, <1>5, <1>6, <1>7, <1>8, <1>9, <1>10, <1>11, <1>12, <1>13,
       <1>14, <1>15, <1>16, <1>17, <1>18, <1>19, <1>20, <1>21, <1>22, <1>23, <1>24, <1>25,
       <1>26, <1>27, <1>28, <1>29, <1>30, <1>31, <1>32, <1>33, <1>34, <1>35, <1>36, <1>37,
       <1>38, <1>39, <1>40, <1>41, <1>42, <1>43, <1>44, <1>45, <1>46, <1>47 DEF Next, Run,
       RunFails, Search, Watch, Elapse, Task

\* Only the holder of the data-directory locks commits, so what it read holds.
LEMMA RunStep == ASSUME CoordInv, [Next]_vars PROVE (ScannedInv /\ PreviousInv /\ PlannedInv)'
  <1> DEFINE RunInv == ScannedInv /\ PreviousInv /\ PlannedInv
  <1> USE CoordAssumption, ConstantTypes
  <1> USE DEF CoordInv, TypeOK, LockInv, ScannedInv, PreviousInv, PlannedInv, Running,
          Goto, Respond, Fallback, WatchDone, Forget, MayIndexVectorless, diskVars, procVars
  <1>1. ASSUME NEW t \in Task, StartSearch(t) PROVE RunInv'
    BY <1>1, SMTT(20) DEF StartSearch
  <1>2. ASSUME NEW t \in Task, ResolveMissing(t) PROVE RunInv'
    BY <1>2, SMTT(20) DEF ResolveMissing
  <1>3. ASSUME NEW t \in Task, CreateLocked(t) PROVE RunInv'
    BY <1>3, SMTT(20) DEF CreateLocked
  <1>4. ASSUME NEW t \in Task, CreateWaitedUses(t) PROVE RunInv'
    BY <1>4, SMTT(20) DEF CreateWaitedUses
  <1>5. ASSUME NEW t \in Task, CreateWaitedShares(t) PROVE RunInv'
    BY <1>5, SMTT(20) DEF CreateWaitedShares
  <1>6. ASSUME NEW t \in Task, CreateWaitedIndexes(t) PROVE RunInv'
    BY <1>6, SMTT(20) DEF CreateWaitedIndexes
  <1>7. ASSUME NEW t \in Task, ResolveReused(t) PROVE RunInv'
    BY <1>7, SMTT(20) DEF ResolveReused
  <1>8. ASSUME NEW t \in Task, TakeStamp(t) PROVE RunInv'
    BY <1>8, SMTT(20) DEF TakeStamp
  <1>9. ASSUME NEW t \in Task, Walk(t) PROVE RunInv'
    BY <1>9, SMTT(20) DEF Walk
  <1>10. ASSUME NEW t \in Task, WalkFails(t) PROVE RunInv'
    BY <1>10, SMTT(20) DEF WalkFails
  <1>11. ASSUME NEW t \in Task, Decide(t) PROVE RunInv'
    BY <1>11, SMTT(20) DEF Decide
  <1>12. ASSUME NEW t \in Task, RefreshTryWrite(t) PROVE RunInv'
    BY <1>12, SMTT(20) DEF RefreshTryWrite
  <1>13. ASSUME NEW t \in Task, RefreshRecheck(t) PROVE RunInv'
    BY <1>13, SMTT(20) DEF RefreshRecheck
  <1>14. ASSUME NEW t \in Task, RefreshWaitTimesOut(t) PROVE RunInv'
    BY <1>14, SMTT(20) DEF RefreshWaitTimesOut
  <1>15. ASSUME NEW t \in Task, Reread(t) PROVE RunInv'
    BY <1>15, SMTT(20) DEF Reread
  <1>16. ASSUME NEW t \in Task, Return(t) PROVE RunInv'
    BY <1>16, SMTT(20) DEF Return
  <1>17. ASSUME NEW t \in Task, StartIndex(t) PROVE RunInv'
    BY <1>17, SMTT(20) DEF StartIndex
  <1>18. ASSUME NEW t \in Task, IndexLocked(t) PROVE RunInv'
    BY <1>18, SMTT(20) DEF IndexLocked
  <1>19. ASSUME NEW t \in Task, WatchWalk(t) PROVE RunInv'
    BY <1>19, SMTT(20) DEF WatchWalk
  <1>20. ASSUME NEW t \in Task, WatchCompare(t) PROVE RunInv'
    BY <1>20, SMTT(20) DEF WatchCompare
  <1>21. ASSUME NEW t \in Task, WatchRewalk(t) PROVE RunInv'
    BY <1>21, SMTT(20) DEF WatchRewalk
  <1>22. ASSUME NEW t \in Task, WatchRecheck(t) PROVE RunInv'
    BY <1>22, SMTT(20) DEF WatchRecheck
  <1>23. ASSUME NEW t \in Task, AcquireWrite(t) PROVE RunInv'
    <2>1. pc[t] \in {"createwait", "wait", "indexwait", "watchwait"}
      BY <1>23 DEF AcquireWrite, Waiting
    <2>2. \E l \in {"createwaited", "waitlocked", "indexlocked", "watchlocked"} :
             pc' = [pc EXCEPT ![t] = l]
      <3>1. CASE pc[t] = "createwait" BY <1>23, <3>1 DEF AcquireWrite
      <3>2. CASE pc[t] = "wait" BY <1>23, <3>2 DEF AcquireWrite
      <3>3. CASE pc[t] = "indexwait" BY <1>23, <3>3 DEF AcquireWrite
      <3>4. CASE pc[t] = "watchwait" BY <1>23, <3>4 DEF AcquireWrite
      <3> QED BY <2>1, <3>1, <3>2, <3>3, <3>4
    <2>3. UNCHANGED <<table, identity, req>>
      BY <1>23 DEF AcquireWrite
    <2> QED BY <2>2, <2>3
  <1>24. ASSUME NEW t \in Task, RunLock(t) PROVE RunInv'
    BY <1>24, SMTT(20) DEF RunLock
  <1>25. ASSUME NEW t \in Task, RunScan(t) PROVE RunInv'
    BY <1>25, SMTT(20) DEF RunScan
  <1>26. ASSUME NEW t \in Task, RunEmbed(t) PROVE RunInv'
    <2>1. /\ pc' = [pc EXCEPT ![t] = "commit"] /\ UNCHANGED <<table, identity>>
          /\ \E v \in {"real", "missing"} :
                /\ req' = [req EXCEPT ![t].planned = v]
                /\ v = "missing" => MayIndexVectorless(t)
      BY <1>26, Zenon DEF RunEmbed, Goto, diskVars
    <2>2. PICK v \in {"real", "missing"} :
                /\ req' = [req EXCEPT ![t].planned = v]
                /\ v = "missing" => MayIndexVectorless(t)
      BY <2>1
    <2>3. /\ \A u \in Task : /\ req'[u].previous = req[u].previous
                             /\ req'[u].scanned = req[u].scanned
          /\ \A u \in Task \ {t} : req'[u] = req[u] /\ pc'[u] = pc[u]
          /\ req'[t].planned = v
      BY <2>1, <2>2 DEF Request
    <2>4. ScannedInv' /\ PreviousInv'
      BY <1>26, <2>1, <2>3 DEF RunEmbed
    <2>5. PlannedInv'
      BY <2>1, <2>2, <2>3
    <2> QED BY <2>4, <2>5
  <1>27. ASSUME NEW t \in Task, RunCommit(t) PROVE RunInv'
    BY <1>27, SMTT(20) DEF RunCommit, NewTable
  <1>28. ASSUME NEW t \in Task, RunSave(t) PROVE RunInv'
    BY <1>28, SMTT(20) DEF RunSave
  <1>29. ASSUME NEW t \in Task, RunLockFails(t) PROVE RunInv'
    BY <1>29, SMTT(20) DEF RunLockFails, EndFailedRun
  <1>30. ASSUME NEW t \in Task, RunScanFails(t) PROVE RunInv'
    BY <1>30, SMTT(20) DEF RunScanFails, EndFailedRun
  <1>31. ASSUME NEW t \in Task, RunEmbedUnavailable(t) PROVE RunInv'
    BY <1>31, SMTT(20) DEF RunEmbedUnavailable, EndFailedRun
  <1>32. ASSUME NEW t \in Task, RunEmbedRejected(t) PROVE RunInv'
    BY <1>32, SMTT(20) DEF RunEmbedRejected, EndFailedRun
  <1>33. ASSUME NEW t \in Task, RunCommitFails(t) PROVE RunInv'
    BY <1>33, SMTT(20) DEF RunCommitFails, EndFailedRun
  <1>34. ASSUME NEW t \in Task, RunSaveFails(t) PROVE RunInv'
    BY <1>34, SMTT(20) DEF RunSaveFails, EndFailedRun
  <1>35. ASSUME NEW t \in Task, Cancel(t) PROVE RunInv'
    BY <1>35, SMTT(20) DEF Cancel
  <1>36. ASSUME NEW p \in Process, Crash(p) PROVE RunInv'
    BY <1>36, SMTT(20) DEF Crash, Local
  <1>37. ASSUME NEW p \in Process, CheckFallsDue(p) PROVE RunInv'
    BY <1>37, SMTT(20) DEF CheckFallsDue, taskVars
  <1>38. ASSUME NEW p \in Process, RepairWindowEnds(p) PROVE RunInv'
    BY <1>38, SMTT(20) DEF RepairWindowEnds, taskVars
  <1>39. ASSUME NEW p \in Process, BreakerWindowEnds(p) PROVE RunInv'
    BY <1>39, SMTT(20) DEF BreakerWindowEnds, taskVars
  <1>40. ASSUME NEW p \in Process, QueryRefused(p) PROVE RunInv'
    BY <1>40, SMTT(20) DEF QueryRefused, taskVars
  <1>41. ASSUME NEW p \in Process, ProbeBegins(p) PROVE RunInv'
    BY <1>41, SMTT(20) DEF ProbeBegins, taskVars
  <1>42. ASSUME NEW p \in Process, ProbeEnds(p) PROVE RunInv'
    BY <1>42, SMTT(20) DEF ProbeEnds, taskVars
  <1>43. CASE Edit
    BY <1>43, SMTT(20) DEF Edit, taskVars
  <1>44. CASE Outage
    BY <1>44, SMTT(20) DEF Outage, taskVars
  <1>45. CASE Recover
    BY <1>45, SMTT(20) DEF Recover, taskVars
  <1>46. CASE UNCHANGED vars
    BY <1>46, SMTT(20) DEF vars, taskVars
  <1>47. ASSUME NEW t \in Task, WatchRewalkFails(t) PROVE RunInv'
    BY <1>47, SMTT(20) DEF WatchRewalkFails
  <1> QED
    BY <1>1, <1>2, <1>3, <1>4, <1>5, <1>6, <1>7, <1>8, <1>9, <1>10, <1>11, <1>12, <1>13,
       <1>14, <1>15, <1>16, <1>17, <1>18, <1>19, <1>20, <1>21, <1>22, <1>23, <1>24, <1>25,
       <1>26, <1>27, <1>28, <1>29, <1>30, <1>31, <1>32, <1>33, <1>34, <1>35, <1>36, <1>37,
       <1>38, <1>39, <1>40, <1>41, <1>42, <1>43, <1>44, <1>45, <1>46, <1>47 DEF Next, Run,
       RunFails, Search, Watch, Elapse, Task

-----------------------------------------------------------------------------
\* The invariant holds of every reachable state.
LEMMA Invariance == Spec => []CoordInv
  <1>1. Init => CoordInv BY InitInv
  <1>2. CoordInv /\ [Next]_vars => CoordInv'
    BY TypeStep, LockStep, RunStep DEF CoordInv
  <1> QED BY <1>1, <1>2, PTL DEF Spec

\* Every variable keeps its type in every behaviour, whatever tasks, processes
\* and faults there are (all of src/app/indexing.rs's coordination state).
THEOREM TypeCorrect == Spec => []TypeOK
  <1>1. CoordInv => TypeOK BY DEF CoordInv
  <1> QED BY <1>1, Invariance, PTL

\* Index runs exclude one another, in a process and between processes, for any
\* number of searches, index requests, watchers and processes
\* (App::index_locked under the workspace lock, index_lock and index.lock).
THEOREM OneRunAtATime == Spec => []OneRun
  <1>1. CoordInv => OneRun
    <2>1. Running \subseteq Writing BY DEF Writing
    <2> QED BY <2>1 DEF CoordInv, LockInv, OneRun
  <1> QED BY <1>1, Invariance, PTL

\* What a run decided from the snapshot it read holds when it commits: no other
\* task commits in between (App::index_locked, Store::replace).
THEOREM RunsSeeCurrentTable == Spec => []RunSeesCurrentTable
  <1>1. CoordInv => RunSeesCurrentTable
    BY DEF CoordInv, PreviousInv, RunSeesCurrentTable
  <1> QED BY <1>1, Invariance, PTL

\* Only a commit writes the table (Store::commit).
LEMMA OnlyCommitWrites ==
    ASSUME TypeOK, [Next]_vars, table' # table
    PROVE  \E t \in Task : RunCommit(t)
  <1> SUFFICES ASSUME \A t \in Task : ~RunCommit(t) PROVE UNCHANGED table
    OBVIOUS
  <1> USE DEF diskVars
  <1>1. ASSUME NEW t \in Searcher, StartSearch(t) \/ Search(t) PROVE UNCHANGED table
    BY <1>1, Zenon DEF Search, StartSearch, ResolveMissing, CreateLocked, CreateWaitedUses,
          CreateWaitedShares, CreateWaitedIndexes, ResolveReused, TakeStamp, Walk, WalkFails,
          Decide, RefreshTryWrite, RefreshRecheck, RefreshWaitTimesOut, Reread, Return
  <1>2. ASSUME NEW t \in Indexer, StartIndex(t) \/ IndexLocked(t) \/ Return(t)
        PROVE  UNCHANGED table
    BY <1>2, Zenon DEF StartIndex, IndexLocked, Return
  <1>3. ASSUME NEW t \in Watcher, Watch(t) PROVE UNCHANGED table
    BY <1>3, Zenon DEF Watch, WatchWalk, WatchCompare, WatchRewalk,
          WatchRewalkFails, WatchRecheck
  <1>4. ASSUME NEW t \in Task, AcquireWrite(t) \/ Run(t) PROVE UNCHANGED table
    BY <1>4, Zenon DEF AcquireWrite, Run, RunLock, RunScan, RunEmbed, RunSave, RunFails,
          RunLockFails, RunScanFails, RunEmbedUnavailable, RunEmbedRejected, RunCommitFails,
          RunSaveFails, EndFailedRun
  <1>5. ASSUME NEW t \in Task, Cancel(t) PROVE UNCHANGED table
    BY <1>5 DEF Cancel
  <1>6. ASSUME NEW p \in Process,
               \/ Crash(p) \/ Elapse(p) \/ QueryRefused(p) \/ ProbeBegins(p) \/ ProbeEnds(p)
        PROVE  UNCHANGED table
    BY <1>6, Zenon DEF Crash, Elapse, CheckFallsDue, RepairWindowEnds, BreakerWindowEnds,
          QueryRefused, ProbeBegins, ProbeEnds
  <1>7. CASE Edit \/ Outage \/ Recover
    BY <1>7, Zenon DEF Edit, Outage, Recover
  <1>8. CASE UNCHANGED vars
    BY <1>8 DEF vars
  <1> QED BY <1>1, <1>2, <1>3, <1>4, <1>5, <1>6, <1>7, <1>8 DEF Next, Task

\* No index run, first or retried, by a search, a request or a watcher, in any
\* process, replaces real vectors by placeholders (may_index_vectorless).
THEOREM VectorsAreNeverLost == Spec => VectorsNeverLost
  <1>1. ASSUME CoordInv, [Next]_vars, table # NoTable, table' # table,
               table.vectors = "real", table.content \notin ChunkFree
        PROVE  table'.vectors = "real"
    <2>1. PICK t \in Task : RunCommit(t)
      BY <1>1, OnlyCommitWrites DEF CoordInv
    <2>2. pc[t] = "commit" /\ table'.vectors = req[t].planned
      BY <2>1 DEF RunCommit, NewTable
    <2>3. req[t].planned \in {"real", "missing"}
      BY <1>1 DEF CoordInv, TypeOK, Request
    <2>4. req[t].planned # "missing"
      BY <1>1, <2>2 DEF CoordInv, PreviousInv, PlannedInv, MayIndexVectorless
    <2> QED BY <2>2, <2>3, <2>4
  <1>2. CoordInv /\ [Next]_vars
          => [table # NoTable /\ table' # table /\ table.vectors = "real"
                /\ table.content \notin ChunkFree
              => table'.vectors = "real"]_vars
    BY <1>1
  <1> QED BY <1>2, Invariance, PTL DEF Spec, VectorsNeverLost
-----------------------------------------------------------------------------
\* The stamp's owner is a refreshing search: every way out of Checking that such
\* a search has keeps the stamp or gives it back.
StampInv ==
    \A p \in Process : lastCheck[p] \in Task =>
        /\ lastCheck[p] \in Searcher /\ ~Creating(lastCheck[p])
        /\ pc[lastCheck[p]] \in Checking /\ Home[lastCheck[p]] = p

\* A task's stamp is its own process's, and nothing else is in lastCheck.
LEMMA StampStep == ASSUME TypeOK, StampInv, [Next]_vars PROVE StampInv'
  <1> USE CoordAssumption, ConstantTypes
  <1> USE DEF TypeOK, StampInv, Checking, Running, Creating, Goto, Respond, Fallback, WatchDone,
          Forget, KeepStamp, RestoreStamp, diskVars, procVars
  <1>1. ASSUME NEW t \in Searcher, StartSearch(t) PROVE StampInv'
    BY <1>1, SMTT(20) DEF StartSearch, Request, Task
  <1>2. ASSUME NEW t \in Searcher, ResolveMissing(t) PROVE StampInv'
    BY <1>2, SMTT(20) DEF ResolveMissing, Task
  <1>3. ASSUME NEW t \in Searcher, CreateLocked(t) PROVE StampInv'
    BY <1>3, SMTT(20) DEF CreateLocked, Task
  <1>4. ASSUME NEW t \in Searcher, CreateWaitedUses(t) PROVE StampInv'
    BY <1>4, SMTT(20) DEF CreateWaitedUses, Task
  <1>5. ASSUME NEW t \in Searcher, CreateWaitedShares(t) PROVE StampInv'
    BY <1>5, SMTT(20) DEF CreateWaitedShares, Task
  <1>6. ASSUME NEW t \in Searcher, CreateWaitedIndexes(t) PROVE StampInv'
    BY <1>6, SMTT(20) DEF CreateWaitedIndexes, Task
  <1>7. ASSUME NEW t \in Searcher, ResolveReused(t) PROVE StampInv'
    BY <1>7, SMTT(20) DEF ResolveReused, Task
  <1>8. ASSUME NEW t \in Searcher, TakeStamp(t) PROVE StampInv'
    BY <1>8, SMTT(20) DEF TakeStamp, Task
  <1>9. ASSUME NEW t \in Searcher, Walk(t) PROVE StampInv'
    BY <1>9, SMTT(20) DEF Walk, Task
  <1>10. ASSUME NEW t \in Searcher, WalkFails(t) PROVE StampInv'
    BY <1>10, SMTT(20) DEF WalkFails, Task
  <1>11. ASSUME NEW t \in Searcher, Decide(t) PROVE StampInv'
    BY <1>11, SMTT(20) DEF Decide, Task
  <1>12. ASSUME NEW t \in Searcher, RefreshTryWrite(t) PROVE StampInv'
    BY <1>12, SMTT(20) DEF RefreshTryWrite, Task
  <1>13. ASSUME NEW t \in Searcher, RefreshRecheck(t) PROVE StampInv'
    BY <1>13, SMTT(20) DEF RefreshRecheck, Task
  <1>14. ASSUME NEW t \in Searcher, RefreshWaitTimesOut(t) PROVE StampInv'
    BY <1>14, SMTT(20) DEF RefreshWaitTimesOut, Task
  <1>15. ASSUME NEW t \in Searcher, Reread(t) PROVE StampInv'
    BY <1>15, SMTT(20) DEF Reread, Task
  <1>16. ASSUME NEW t \in Task, Return(t) PROVE StampInv'
    BY <1>16, SMTT(20) DEF Return
  <1>17. ASSUME NEW t \in Indexer, StartIndex(t) PROVE StampInv'
    BY <1>17, SMTT(20) DEF StartIndex, Task
  <1>18. ASSUME NEW t \in Indexer, IndexLocked(t) PROVE StampInv'
    BY <1>18, SMTT(20) DEF IndexLocked, Task
  <1>19. ASSUME NEW t \in Watcher, WatchWalk(t) PROVE StampInv'
    BY <1>19, SMTT(20) DEF WatchWalk, Task
  <1>20. ASSUME NEW t \in Watcher, WatchCompare(t) PROVE StampInv'
    BY <1>20, SMTT(20) DEF WatchCompare, Task
  <1>21. ASSUME NEW t \in Watcher, WatchRewalk(t) PROVE StampInv'
    BY <1>21, SMTT(20) DEF WatchRewalk, Task
  <1>22. ASSUME NEW t \in Watcher, WatchRecheck(t) PROVE StampInv'
    BY <1>22, SMTT(20) DEF WatchRecheck, Task
  <1>23. ASSUME NEW t \in Task, AcquireWrite(t) PROVE StampInv'
    <2>1. pc[t] \in Waiting /\ UNCHANGED <<lastCheck, req>>
      BY <1>23 DEF AcquireWrite
    <2>2. CASE pc[t] = "wait"
      <3>1. pc' = [pc EXCEPT ![t] = "waitlocked"] BY <1>23, <2>2 DEF AcquireWrite
      <3> QED BY <2>1, <2>2, <3>1
    <2>3. CASE pc[t] # "wait"
      <3>1. pc[t] \notin Checking BY <2>1, <2>3 DEF Waiting
      <3>2. \A u \in Task \ {t} : pc'[u] = pc[u] BY <1>23 DEF AcquireWrite
      <3> QED BY <2>1, <3>1, <3>2
    <2> QED BY <2>2, <2>3
  <1>24. ASSUME NEW t \in Task, RunLock(t) PROVE StampInv'
    BY <1>24, SMTT(20) DEF RunLock
  <1>25. ASSUME NEW t \in Task, RunScan(t) PROVE StampInv'
    BY <1>25, SMTT(20) DEF RunScan, Request
  <1>26. ASSUME NEW t \in Task, RunEmbed(t) PROVE StampInv'
    BY <1>26, SMTT(20) DEF RunEmbed, Request
  <1>27. ASSUME NEW t \in Task, RunCommit(t) PROVE StampInv'
    BY <1>27, SMTT(20) DEF RunCommit
  <1>28. ASSUME NEW t \in Task, RunSave(t) PROVE StampInv'
    BY <1>28, SMTT(20) DEF RunSave
  <1>29. ASSUME NEW t \in Task, RunLockFails(t) PROVE StampInv'
    BY <1>29, SMTT(20) DEF RunLockFails, EndFailedRun
  <1>30. ASSUME NEW t \in Task, RunScanFails(t) PROVE StampInv'
    BY <1>30, SMTT(20) DEF RunScanFails, EndFailedRun
  <1>31. ASSUME NEW t \in Task, RunEmbedUnavailable(t) PROVE StampInv'
    BY <1>31, SMTT(20) DEF RunEmbedUnavailable, EndFailedRun
  <1>32. ASSUME NEW t \in Task, RunEmbedRejected(t) PROVE StampInv'
    BY <1>32, SMTT(20) DEF RunEmbedRejected, EndFailedRun
  <1>33. ASSUME NEW t \in Task, RunCommitFails(t) PROVE StampInv'
    BY <1>33, SMTT(20) DEF RunCommitFails, EndFailedRun
  <1>34. ASSUME NEW t \in Task, RunSaveFails(t) PROVE StampInv'
    BY <1>34, SMTT(20) DEF RunSaveFails, EndFailedRun
  <1>35. ASSUME NEW t \in Task, Cancel(t) PROVE StampInv'
    BY <1>35, SMTT(20) DEF Cancel
  <1>36. ASSUME NEW p \in Process, Crash(p) PROVE StampInv'
    BY <1>36, SMTT(20) DEF Crash, Local
  <1>37. ASSUME NEW p \in Process, CheckFallsDue(p) PROVE StampInv'
    BY <1>37, SMTT(20) DEF CheckFallsDue, taskVars
  <1>38. ASSUME NEW p \in Process, RepairWindowEnds(p) PROVE StampInv'
    BY <1>38, SMTT(20) DEF RepairWindowEnds, taskVars
  <1>39. ASSUME NEW p \in Process, BreakerWindowEnds(p) PROVE StampInv'
    BY <1>39, SMTT(20) DEF BreakerWindowEnds, taskVars
  <1>40. ASSUME NEW p \in Process, QueryRefused(p) PROVE StampInv'
    BY <1>40, SMTT(20) DEF QueryRefused, taskVars
  <1>41. ASSUME NEW p \in Process, ProbeBegins(p) PROVE StampInv'
    BY <1>41, SMTT(20) DEF ProbeBegins, taskVars
  <1>42. ASSUME NEW p \in Process, ProbeEnds(p) PROVE StampInv'
    BY <1>42, SMTT(20) DEF ProbeEnds, taskVars
  <1>43. CASE Edit
    BY <1>43, SMTT(20) DEF Edit, taskVars
  <1>44. CASE Outage
    BY <1>44, SMTT(20) DEF Outage, taskVars
  <1>45. CASE Recover
    BY <1>45, SMTT(20) DEF Recover, taskVars
  <1>46. CASE UNCHANGED vars
    BY <1>46, SMTT(20) DEF vars, taskVars
  <1>47. ASSUME NEW t \in Watcher, WatchRewalkFails(t) PROVE StampInv'
    BY <1>47, SMTT(20) DEF WatchRewalkFails, Task
  <1> QED
    BY <1>1, <1>2, <1>3, <1>4, <1>5, <1>6, <1>7, <1>8, <1>9, <1>10, <1>11, <1>12, <1>13,
       <1>14, <1>15, <1>16, <1>17, <1>18, <1>19, <1>20, <1>21, <1>22, <1>23, <1>24, <1>25,
       <1>26, <1>27, <1>28, <1>29, <1>30, <1>31, <1>32, <1>33, <1>34, <1>35, <1>36, <1>37,
       <1>38, <1>39, <1>40, <1>41, <1>42, <1>43, <1>44, <1>45, <1>46, <1>47
       DEF Next, Run, RunFails, Search, Watch, Elapse, Task

\* The throttle of the staleness check is never held by a search that is gone:
\* cancelled, failed, timed out or crashed (StaleCheckStamp::keep and drop).
THEOREM StampsHaveOwners == Spec => []NoOrphanStamp
  <1>1. Init => StampInv
    BY CoordAssumption DEF Init, StampInv
  <1>2. CoordInv /\ StampInv /\ [Next]_vars => StampInv'
    BY StampStep DEF CoordInv
  <1>3. StampInv => NoOrphanStamp
    BY DEF StampInv, NoOrphanStamp
  <1> QED BY <1>1, <1>2, <1>3, Invariance, PTL DEF Spec
-----------------------------------------------------------------------------
\* Between the table commit and the manifest save a task leaves the pipeline by
\* the save, or by the fault that strikes there.
LEMMA LeavesSave ==
    ASSUME TypeOK, [Next]_vars, NEW t \in Task, pc[t] = "save", pc'[t] # "save", ~RunSave(t)
    PROVE  "gap" \in Faults
  <1> USE DEF TypeOK, Goto, Respond, Fallback, WatchDone, Waiting, taskVars
  <1>1. ASSUME NEW u \in Task, StartSearch(u) PROVE "gap" \in Faults
    BY <1>1, SMTT(20) DEF StartSearch
  <1>2. ASSUME NEW u \in Task, ResolveMissing(u) PROVE "gap" \in Faults
    BY <1>2, SMTT(20) DEF ResolveMissing
  <1>3. ASSUME NEW u \in Task, CreateLocked(u) PROVE "gap" \in Faults
    BY <1>3, SMTT(20) DEF CreateLocked
  <1>4. ASSUME NEW u \in Task, CreateWaitedUses(u) PROVE "gap" \in Faults
    BY <1>4, SMTT(20) DEF CreateWaitedUses
  <1>5. ASSUME NEW u \in Task, CreateWaitedShares(u) PROVE "gap" \in Faults
    BY <1>5, SMTT(20) DEF CreateWaitedShares
  <1>6. ASSUME NEW u \in Task, CreateWaitedIndexes(u) PROVE "gap" \in Faults
    BY <1>6, SMTT(20) DEF CreateWaitedIndexes
  <1>7. ASSUME NEW u \in Task, ResolveReused(u) PROVE "gap" \in Faults
    BY <1>7, SMTT(20) DEF ResolveReused
  <1>8. ASSUME NEW u \in Task, TakeStamp(u) PROVE "gap" \in Faults
    BY <1>8, SMTT(20) DEF TakeStamp
  <1>9. ASSUME NEW u \in Task, Walk(u) PROVE "gap" \in Faults
    BY <1>9, SMTT(20) DEF Walk
  <1>10. ASSUME NEW u \in Task, WalkFails(u) PROVE "gap" \in Faults
    BY <1>10, SMTT(20) DEF WalkFails
  <1>11. ASSUME NEW u \in Task, Decide(u) PROVE "gap" \in Faults
    BY <1>11, SMTT(20) DEF Decide
  <1>12. ASSUME NEW u \in Task, RefreshTryWrite(u) PROVE "gap" \in Faults
    BY <1>12, SMTT(20) DEF RefreshTryWrite
  <1>13. ASSUME NEW u \in Task, RefreshRecheck(u) PROVE "gap" \in Faults
    BY <1>13, SMTT(20) DEF RefreshRecheck
  <1>14. ASSUME NEW u \in Task, RefreshWaitTimesOut(u) PROVE "gap" \in Faults
    BY <1>14, SMTT(20) DEF RefreshWaitTimesOut
  <1>15. ASSUME NEW u \in Task, Reread(u) PROVE "gap" \in Faults
    BY <1>15, SMTT(20) DEF Reread
  <1>16. ASSUME NEW u \in Task, Return(u) PROVE "gap" \in Faults
    BY <1>16, SMTT(20) DEF Return
  <1>17. ASSUME NEW u \in Task, StartIndex(u) PROVE "gap" \in Faults
    BY <1>17, SMTT(20) DEF StartIndex
  <1>18. ASSUME NEW u \in Task, IndexLocked(u) PROVE "gap" \in Faults
    BY <1>18, SMTT(20) DEF IndexLocked
  <1>19. ASSUME NEW u \in Task, WatchWalk(u) PROVE "gap" \in Faults
    BY <1>19, SMTT(20) DEF WatchWalk
  <1>20. ASSUME NEW u \in Task, WatchCompare(u) PROVE "gap" \in Faults
    BY <1>20, SMTT(20) DEF WatchCompare
  <1>21. ASSUME NEW u \in Task, WatchRewalk(u) PROVE "gap" \in Faults
    BY <1>21, SMTT(20) DEF WatchRewalk
  <1>22. ASSUME NEW u \in Task, WatchRecheck(u) PROVE "gap" \in Faults
    BY <1>22, SMTT(20) DEF WatchRecheck
  <1>23. ASSUME NEW u \in Task, AcquireWrite(u) PROVE "gap" \in Faults
    BY <1>23, SMTT(20) DEF AcquireWrite
  <1>24. ASSUME NEW u \in Task, RunLock(u) PROVE "gap" \in Faults
    BY <1>24, SMTT(20) DEF RunLock
  <1>25. ASSUME NEW u \in Task, RunScan(u) PROVE "gap" \in Faults
    BY <1>25, SMTT(20) DEF RunScan
  <1>26. ASSUME NEW u \in Task, RunEmbed(u) PROVE "gap" \in Faults
    BY <1>26, SMTT(20) DEF RunEmbed
  <1>27. ASSUME NEW u \in Task, RunCommit(u) PROVE "gap" \in Faults
    BY <1>27, SMTT(20) DEF RunCommit
  <1>28. ASSUME NEW u \in Task, RunSave(u) PROVE "gap" \in Faults
    <2>1. u # t BY <1>28
    <2>2. pc'[t] = pc[t] BY <1>28, <2>1 DEF RunSave
    <2> QED BY <2>2
  <1>29. ASSUME NEW u \in Task, RunLockFails(u) PROVE "gap" \in Faults
    BY <1>29, SMTT(20) DEF RunLockFails, RunEnds, EndFailedRun, Fault
  <1>30. ASSUME NEW u \in Task, RunScanFails(u) PROVE "gap" \in Faults
    BY <1>30, SMTT(20) DEF RunScanFails, RunEnds, EndFailedRun, Fault
  <1>31. ASSUME NEW u \in Task, RunEmbedUnavailable(u) PROVE "gap" \in Faults
    BY <1>31, SMTT(20) DEF RunEmbedUnavailable, RunEnds, EndFailedRun, Fault
  <1>32. ASSUME NEW u \in Task, RunEmbedRejected(u) PROVE "gap" \in Faults
    BY <1>32, SMTT(20) DEF RunEmbedRejected, RunEnds, EndFailedRun, Fault
  <1>33. ASSUME NEW u \in Task, RunCommitFails(u) PROVE "gap" \in Faults
    BY <1>33, SMTT(20) DEF RunCommitFails, RunEnds, EndFailedRun, Fault
  <1>34. ASSUME NEW u \in Task, RunSaveFails(u) PROVE "gap" \in Faults
    BY <1>34, SMTT(20) DEF RunSaveFails, RunEnds, EndFailedRun, Fault
  <1>35. ASSUME NEW u \in Task, Cancel(u) PROVE "gap" \in Faults
    BY <1>35, SMTT(20) DEF Cancel, StruckBy, Fault
  <1>36. ASSUME NEW p \in Process, Crash(p) PROVE "gap" \in Faults
    BY <1>36, SMTT(20) DEF Crash, Local, Fault
  <1>37. ASSUME NEW p \in Process, CheckFallsDue(p) PROVE "gap" \in Faults
    BY <1>37, SMTT(20) DEF CheckFallsDue
  <1>38. ASSUME NEW p \in Process, RepairWindowEnds(p) PROVE "gap" \in Faults
    BY <1>38, SMTT(20) DEF RepairWindowEnds
  <1>39. ASSUME NEW p \in Process, BreakerWindowEnds(p) PROVE "gap" \in Faults
    BY <1>39, SMTT(20) DEF BreakerWindowEnds
  <1>40. ASSUME NEW p \in Process, QueryRefused(p) PROVE "gap" \in Faults
    BY <1>40, SMTT(20) DEF QueryRefused
  <1>41. ASSUME NEW p \in Process, ProbeBegins(p) PROVE "gap" \in Faults
    BY <1>41, SMTT(20) DEF ProbeBegins
  <1>42. ASSUME NEW p \in Process, ProbeEnds(p) PROVE "gap" \in Faults
    BY <1>42, SMTT(20) DEF ProbeEnds
  <1>43. CASE Edit
    BY <1>43, SMTT(20) DEF Edit
  <1>44. CASE Outage
    BY <1>44, SMTT(20) DEF Outage
  <1>45. CASE Recover
    BY <1>45, SMTT(20) DEF Recover
  <1>46. CASE UNCHANGED vars
    BY <1>46, SMTT(20) DEF vars
  <1>47. ASSUME NEW u \in Task, WatchRewalkFails(u) PROVE "gap" \in Faults
    BY <1>47, SMTT(20) DEF WatchRewalkFails
  <1> QED
    BY <1>1, <1>2, <1>3, <1>4, <1>5, <1>6, <1>7, <1>8, <1>9, <1>10, <1>11, <1>12, <1>13,
       <1>14, <1>15, <1>16, <1>17, <1>18, <1>19, <1>20, <1>21, <1>22, <1>23, <1>24, <1>25,
       <1>26, <1>27, <1>28, <1>29, <1>30, <1>31, <1>32, <1>33, <1>34, <1>35, <1>36, <1>37,
       <1>38, <1>39, <1>40, <1>41, <1>42, <1>43, <1>44, <1>45, <1>46, <1>47
       DEF Next, Run, RunFails, Search, Watch, Elapse, Task

\* Without a failure between the two files, a run that ends in an error, is
\* dropped or dies leaves the table as it found it (App::index_locked).
THEOREM FailedRunsKeepTable == ASSUME "gap" \notin Faults PROVE Spec => FailedRunKeepsTable
  <1>1. ASSUME CoordInv, [Next]_vars, NEW t \in Task,
               pc[t] \in {"embed", "commit", "save"}, pc'[t] \notin Running, ~RunSave(t)
        PROVE  table' = req[t].previous
    <2>1. pc[t] # "save"
      BY <1>1, LeavesSave DEF CoordInv, Running
    <2>2. req[t].previous = table
      BY <1>1, <2>1 DEF CoordInv, PreviousInv
    <2>3. ASSUME table' # table PROVE FALSE
      <3>1. PICK u \in Task : RunCommit(u)
        BY <1>1, <2>3, OnlyCommitWrites DEF CoordInv
      <3>2. pc[u] \in Running /\ pc[t] \in Running
        BY <1>1, <3>1 DEF RunCommit, Running
      <3>3. u = t
        BY <1>1, <3>2 DEF CoordInv, LockInv
      <3>4. pc'[t] = "save"
        BY <1>1, <3>1, <3>3 DEF RunCommit, Goto, CoordInv, TypeOK
      <3> QED BY <1>1, <3>4 DEF Running
    <2> QED BY <2>2, <2>3
  <1> DEFINE Kept == \A t \in Task : /\ pc[t] \in {"embed", "commit", "save"}
                                 /\ pc'[t] \notin Running
                                 /\ ~RunSave(t)
                                 => table' = req[t].previous
  <1>2. CoordInv /\ [Next]_vars => [Kept]_vars
    BY <1>1
  <1>3. FailedRunKeepsTable <=> [][Kept]_vars
    BY DEF FailedRunKeepsTable
  <1> HIDE DEF Kept
  <1>4. Spec => [][Kept]_vars
    BY <1>2, Invariance, PTL DEF Spec
  <1> QED BY <1>3, <1>4

\* Runs are one at a time, and each commits over the table it read.
THEOREM RunsAreSerialised == Spec => []RunsAreSerial
  BY OneRunAtATime, RunsSeeCurrentTable, PTL DEF RunsAreSerial

\* Neither a failed run nor one without vectors replaces what is there; as for
\* FailedRunsKeepTable, no run leaves a gap between its commit and its end.
THEOREM TableIsAlwaysKept == ASSUME "gap" \notin Faults PROVE Spec => TableIsKept
  BY FailedRunsKeepTable, VectorsAreNeverLost DEF TableIsKept

-----------------------------------------------------------------------------
\* What a step does to what freshness is about: the tree, the table, the
\* manifest, and what every task knows and answered.  Every action is of one of
\* a dozen kinds, and the invariants below are proved kind by kind.

Shared     == <<tree, table, manifest, identity>>
Others(t)  == \A u \in Task \ {t} : /\ pc'[u] = pc[u] /\ req'[u] = req[u]
                                    /\ answer'[u] = answer[u] /\ seen'[u] = seen[u]
Knows(t)   == /\ req'[t].initial = req[t].initial /\ req'[t].fp = req[t].fp
              /\ req'[t].scanned = req[t].scanned /\ seen'[t] = seen[t]
Forgets(t) == req'[t] = NoRequest /\ seen'[t] = {}
Fresh      == {"idle", "resolve", "walk", "createlocked", "createwait", "createwaited"}
Creators   == {"createlocked", "createwait", "createwaited"}
Refreshers == {"walk", "decide", "trywrite", "wait", "waitlocked"}
Scanned    == {"embed", "commit", "save"}

\* Why a search may read the table again for its answer.
MayReread(t) ==
    \/ pc[t] \in {"createlocked", "createwaited"} /\ table # NoTable
    \/ pc[t] = "resolve" /\ ~Creating(t) /\ ~IdentityChanged(t)
    \/ pc[t] = "decide" /\ ~FileStale(t) /\ ~IdentityChanged(t)
    \/ pc[t] = "waitlocked" /\ ~StillStale(t)

\* A task goes on, and nothing but its phase changes.
Moves(t) ==
    /\ UNCHANGED <<Shared, sinceCheck>> /\ Others(t) /\ Knows(t) /\ answer'[t] = answer[t]
    /\ pc[t] \notin {"done", "save"} /\ pc'[t] \notin {"idle", "done", "embed", "save"}
    /\ pc'[t] = "commit" => pc[t] = "embed"
    /\ pc'[t] = "reread" => MayReread(t)
    /\ t \in Searcher =>
         /\ pc[t] # "idle"
         /\ pc'[t] \in Fresh => pc[t] \in Fresh
         /\ pc'[t] \in Creators => Creating(t) \/ pc[t] \in Creators
         /\ pc'[t] \in Refreshers => ~Creating(t) \/ pc[t] \in Refreshers

\* StartSearch.
Begins(t) ==
    /\ UNCHANGED <<Shared, sinceCheck>> /\ Others(t) /\ answer'[t] = answer[t]
    /\ t \in Searcher /\ pc[t] = "idle" /\ pc'[t] = "resolve"
    /\ req'[t].initial = table /\ req'[t].fp = req[t].fp
    /\ req'[t].scanned = req[t].scanned /\ seen'[t] = seen[t]

\* Walk, WatchWalk and WatchRewalk.
Walks(t) ==
    /\ UNCHANGED <<Shared, sinceCheck>> /\ Others(t) /\ answer'[t] = answer[t]
    /\ req'[t].initial = req[t].initial /\ req'[t].fp = tree
    /\ req'[t].scanned = req[t].scanned
    /\ pc'[t] \in {"decide", "watchseen", "watchcompare"}
    /\ t \in Searcher => pc[t] = "walk" /\ pc'[t] = "decide" /\ seen'[t] = {tree}
    /\ t \notin Searcher => seen'[t] = seen[t]
    /\ pc[t] \notin Scanned

\* RunScan.
Scans(t) ==
    /\ UNCHANGED <<Shared, sinceCheck>> /\ Others(t) /\ answer'[t] = answer[t]
    /\ pc[t] = "scan" /\ pc'[t] = "embed"
    /\ req'[t].initial = req[t].initial /\ req'[t].fp = req[t].fp
    /\ req'[t].scanned = tree /\ seen'[t] = seen[t]

\* RunCommit.
Commits(t) ==
    /\ UNCHANGED <<tree, manifest, identity, sinceCheck>>
    /\ Others(t) /\ Knows(t) /\ answer'[t] = answer[t] /\ req'[t] = req[t]
    /\ pc[t] = "commit" /\ pc'[t] = "save"
    /\ table' = NewTable(t)

\* RunSave.
Saves(t) ==
    /\ UNCHANGED <<tree, table, identity, sinceCheck>> /\ Others(t)
    /\ pc[t] = "save" /\ manifest' = req[t].scanned
    /\ \/ t \in Searcher /\ pc'[t] = "reread" /\ Knows(t) /\ answer'[t] = answer[t]
       \/ t \notin Searcher /\ pc'[t] \in {"idle", "done"} /\ (Knows(t) \/ Forgets(t))

\* Every way to end with a warning or an error.
Fails(t) ==
    /\ UNCHANGED <<Shared, sinceCheck>> /\ Others(t) /\ Knows(t)
    /\ pc[t] \notin {"idle", "done", "reread"} /\ pc'[t] = "done"
    /\ answer'[t].status \in {"warned", "error", "shared"}
    /\ answer'[t].status = "warned" =>
         /\ answer'[t].snapshot = req[t].initial /\ ~IdentityChanged(t)
         /\ ~Creating(t) \/ pc[t] \in Refreshers

\* Return, Cancel and the end of a watcher's pass.
Ends(t) ==
    /\ UNCHANGED <<Shared, sinceCheck>> /\ Others(t) /\ Forgets(t)
    /\ pc'[t] = "idle"
    /\ \/ answer'[t] = NoAnswer
       \/ pc[t] # "done" /\ answer'[t] = answer[t]

\* Reread.
Answers(t) ==
    /\ UNCHANGED Shared /\ Others(t) /\ Knows(t)
    /\ t \in Searcher /\ pc[t] = "reread" /\ pc'[t] = "done"
    /\ answer'[t].status = "ok" /\ answer'[t].snapshot = table
    /\ answer'[t].checked => req[t].fp # NoContent
    /\ \A p \in Process : sinceCheck'[p] = IF req[t].fp # NoContent /\ p = Home[t]
                                             THEN seen[t] ELSE sinceCheck[p]

\* Crash.
Crashes(p) ==
    /\ UNCHANGED <<tree, table, manifest>>
    /\ \A q \in Process \ {p} : sinceCheck'[q] = sinceCheck[q] /\ identity'[q] = identity[q]
    /\ sinceCheck'[p] = Content
    /\ "reconfigure" \notin Faults => identity'[p] = identity[p]
    /\ \A u \in Task :
         \/ /\ Home[u] = p /\ Forgets(u)
            /\ pc'[u] = "idle" /\ answer'[u] = NoAnswer
         \/ /\ Home[u] # p
            /\ pc'[u] = pc[u] /\ req'[u] = req[u]
            /\ answer'[u] = answer[u] /\ seen'[u] = seen[u]

\* Edit.
Edits ==
    /\ tree' \in Content /\ (Reverts \/ tree' > tree)
    /\ UNCHANGED <<table, manifest, identity, pc, req, answer>>
    /\ \A u \in Task : seen'[u] = IF seen[u] = {} THEN {} ELSE seen[u] \cup {tree'}
    /\ \A p \in Process : sinceCheck'[p] = sinceCheck[p] \cup {tree'}

\* Timers, probes, outages and stuttering.
Still == UNCHANGED <<Shared, sinceCheck, pc, req, answer, seen>>

StepKind ==
    \/ \E t \in Task : \/ Moves(t) \/ Begins(t) \/ Walks(t) \/ Scans(t) \/ Commits(t)
                       \/ Saves(t) \/ Fails(t) \/ Ends(t) \/ Answers(t)
    \/ \E p \in Process : Crashes(p)
    \/ Edits \/ Still

\* Every step is of one of these kinds.
LEMMA StepKinds == ASSUME TypeOK, [Next]_vars PROVE StepKind
  <1> USE CoordAssumption, ConstantTypes
  <1> USE DEF TypeOK, Shared, Others, Knows, Forgets, Goto, Respond, WatchDone, Forget,
              diskVars, procVars, histVars
  <1>1. ASSUME NEW t \in Searcher, StartSearch(t) PROVE Begins(t)
    BY <1>1, SMTT(20) DEF StartSearch, Task, Begins, Request
  <1>2. ASSUME NEW t \in Searcher, ResolveMissing(t) PROVE Moves(t)
    BY <1>2, SMTT(20) DEF ResolveMissing, Task, Moves, MayReread, Fresh, Creators, Refreshers
  <1>3. ASSUME NEW t \in Searcher, CreateLocked(t) PROVE Moves(t)
    BY <1>3, SMTT(20) DEF CreateLocked, Task, Moves, MayReread, Fresh, Creators, Refreshers
  <1>4. ASSUME NEW t \in Searcher, CreateWaitedUses(t) PROVE Moves(t)
    BY <1>4, SMTT(20) DEF CreateWaitedUses, Task, Moves, MayReread, Fresh, Creators, Refreshers
  <1>5. ASSUME NEW t \in Searcher, CreateWaitedShares(t) PROVE Fails(t)
    BY <1>5, SMTT(20) DEF CreateWaitedShares, Task, Fails, Fallback, Refreshers
  <1>6. ASSUME NEW t \in Searcher, CreateWaitedIndexes(t) PROVE Moves(t)
    BY <1>6, SMTT(20) DEF CreateWaitedIndexes, Task, Moves, MayReread, Fresh, Creators, Refreshers
  <1>7. ASSUME NEW t \in Searcher, ResolveReused(t) PROVE Fails(t) \/ Moves(t)
    BY <1>7, SMTT(20) DEF ResolveReused, Task, Fails, Moves, MayReread, Fresh, Creators,
       Refreshers, Fallback, Refreshers
  <1>8. ASSUME NEW t \in Searcher, TakeStamp(t) PROVE Moves(t)
    BY <1>8, SMTT(20) DEF TakeStamp, Task, Moves, MayReread, Fresh, Creators, Refreshers
  <1>9. ASSUME NEW t \in Searcher, Walk(t) PROVE Walks(t)
    BY <1>9, SMTT(20) DEF Walk, Task, Walks, Scanned, Request
  <1>10. ASSUME NEW t \in Searcher, WalkFails(t) PROVE Fails(t)
    BY <1>10, SMTT(20) DEF WalkFails, Task, Fails, Fallback, Refreshers
  <1>11. ASSUME NEW t \in Searcher, Decide(t) PROVE Moves(t)
    BY <1>11, SMTT(20) DEF Decide, Task, Moves, MayReread, Fresh, Creators, Refreshers, Request
  <1>12. ASSUME NEW t \in Searcher, RefreshTryWrite(t) PROVE Moves(t)
    BY <1>12, SMTT(20) DEF RefreshTryWrite, Task, Moves, MayReread, Fresh, Creators, Refreshers
  <1>13. ASSUME NEW t \in Searcher, RefreshRecheck(t) PROVE Moves(t)
    BY <1>13, SMTT(20) DEF RefreshRecheck, Task, Moves, MayReread, Fresh, Creators, Refreshers
  <1>14. ASSUME NEW t \in Searcher, RefreshWaitTimesOut(t) PROVE Fails(t)
    BY <1>14, SMTT(20) DEF RefreshWaitTimesOut, Task, Fails, Fallback, Refreshers
  <1>15. ASSUME NEW t \in Searcher, Reread(t) PROVE Answers(t)
    <2> DEFINE walked == req[t].fp # NoContent
    <2>1. answer'[t].checked = walked
      <3>1. answer' = [answer EXCEPT ![t] = [status |-> "ok", snapshot |-> table,
                                            checked |-> walked]]
        BY <1>15 DEF Reread, Pinned
      <3> HIDE DEF walked
      <3>2. answer'[t] = [status |-> "ok", snapshot |-> table, checked |-> walked]
        BY <3>1, Zenon DEF Task
      <3> QED BY <3>2
    <2>2. answer'[t].checked => req[t].fp # NoContent
      BY <2>1, Zenon
    <2>3. /\ UNCHANGED Shared /\ Others(t) /\ Knows(t)
          /\ t \in Searcher /\ pc[t] = "reread" /\ pc'[t] = "done"
          /\ answer'[t].status = "ok" /\ answer'[t].snapshot = table
      BY <1>15 DEF Reread, Pinned, Task
    <2>4. \A p \in Process : sinceCheck'[p] = IF req[t].fp # NoContent /\ p = Home[t]
                                                 THEN seen[t] ELSE sinceCheck[p]
      BY <1>15 DEF Reread, Task
    <2> QED BY <2>2, <2>3, <2>4, Zenon DEF Answers
  <1>16. ASSUME NEW t \in Task, Return(t) PROVE Ends(t)
    BY <1>16, SMTT(20) DEF Return, Ends
  <1>17. ASSUME NEW t \in Indexer, StartIndex(t) PROVE Moves(t)
    BY <1>17, SMTT(20) DEF StartIndex, Task, Moves, MayReread, Fresh, Creators, Refreshers
  <1>18. ASSUME NEW t \in Indexer, IndexLocked(t) PROVE Moves(t)
    BY <1>18, SMTT(20) DEF IndexLocked, Task, Moves, MayReread, Fresh, Creators, Refreshers
  <1>19. ASSUME NEW t \in Watcher, WatchWalk(t) PROVE Walks(t)
    BY <1>19, SMTT(20) DEF WatchWalk, Task, Walks, Scanned, Request
  <1>20. ASSUME NEW t \in Watcher, WatchCompare(t) PROVE Ends(t) \/ Moves(t)
    BY <1>20, SMTT(20) DEF WatchCompare, Task, Ends, Moves, MayReread, Fresh, Creators, Refreshers
  <1>21. ASSUME NEW t \in Watcher, WatchRewalk(t) PROVE Walks(t)
    BY <1>21, SMTT(20) DEF WatchRewalk, Task, Walks, Scanned, Request
  <1>22. ASSUME NEW t \in Watcher, WatchRewalkFails(t) PROVE Ends(t)
    BY <1>22, SMTT(20) DEF WatchRewalkFails, Task, Ends
  <1>23. ASSUME NEW t \in Watcher, WatchRecheck(t) PROVE Ends(t) \/ Moves(t)
    BY <1>23, SMTT(20) DEF WatchRecheck, Task, Ends, Moves, MayReread, Fresh, Creators, Refreshers
  <1>24. ASSUME NEW t \in Task, AcquireWrite(t) PROVE Moves(t)
    <2>1. pc[t] \in {"createwait", "wait", "indexwait", "watchwait"}
      BY <1>24 DEF AcquireWrite, Waiting
    <2>2. \/ pc[t] = "createwait" /\ pc' = [pc EXCEPT ![t] = "createwaited"]
          \/ pc[t] = "wait" /\ pc' = [pc EXCEPT ![t] = "waitlocked"]
          \/ pc[t] = "indexwait" /\ pc' = [pc EXCEPT ![t] = "indexlocked"]
          \/ pc[t] = "watchwait" /\ pc' = [pc EXCEPT ![t] = "watchlocked"]
      <3>1. CASE pc[t] = "createwait" BY <1>24, <3>1 DEF AcquireWrite
      <3>2. CASE pc[t] = "wait" BY <1>24, <3>2 DEF AcquireWrite
      <3>3. CASE pc[t] = "indexwait" BY <1>24, <3>3 DEF AcquireWrite
      <3>4. CASE pc[t] = "watchwait" BY <1>24, <3>4 DEF AcquireWrite
      <3> QED BY <2>1, <3>1, <3>2, <3>3, <3>4
    <2>3. UNCHANGED <<tree, table, manifest, identity, req, answer, seen, sinceCheck>>
      BY <1>24 DEF AcquireWrite
    <2> QED BY <2>2, <2>3 DEF Moves, Fresh, Creators, Refreshers
  <1>25. ASSUME NEW t \in Task, RunLock(t) PROVE Moves(t)
    BY <1>25, SMTT(20) DEF RunLock, Moves, MayReread, Fresh, Creators, Refreshers
  <1>26. ASSUME NEW t \in Task, RunScan(t) PROVE Scans(t)
    BY <1>26, SMTT(20) DEF RunScan, Scans, Request
  <1>27. ASSUME NEW t \in Task, RunEmbed(t) PROVE Moves(t)
    BY <1>27, SMTT(20) DEF RunEmbed, Moves, MayReread, Fresh, Creators, Refreshers, Request
  <1>28. ASSUME NEW t \in Task, RunCommit(t) PROVE Commits(t)
    BY <1>28, SMTT(20) DEF RunCommit, NewTable, Commits
  <1>29. ASSUME NEW t \in Task, RunSave(t) PROVE Saves(t)
    BY <1>29, SMTT(20) DEF RunSave, SavedFingerprint, Saves
  <1>30. ASSUME NEW t \in Task, RunLockFails(t) PROVE Fails(t) \/ Ends(t)
    BY <1>30, SMTT(20) DEF RunLockFails, EndFailedRun, Ends, Fails, Fallback, Refreshers
  <1>31. ASSUME NEW t \in Task, RunScanFails(t) PROVE Fails(t) \/ Ends(t)
    BY <1>31, SMTT(20) DEF RunScanFails, EndFailedRun, Ends, Fails, Fallback, Refreshers
  <1>32. ASSUME NEW t \in Task, RunEmbedUnavailable(t) PROVE Fails(t) \/ Ends(t)
    BY <1>32, SMTT(20) DEF RunEmbedUnavailable, EndFailedRun, Ends, Fails, Fallback, Refreshers
  <1>33. ASSUME NEW t \in Task, RunEmbedRejected(t) PROVE Fails(t) \/ Ends(t)
    BY <1>33, SMTT(20) DEF RunEmbedRejected, EndFailedRun, Ends, Fails, Fallback, Refreshers
  <1>34. ASSUME NEW t \in Task, RunCommitFails(t) PROVE Fails(t) \/ Ends(t)
    BY <1>34, SMTT(20) DEF RunCommitFails, EndFailedRun, Ends, Fails, Fallback, Refreshers
  <1>35. ASSUME NEW t \in Task, RunSaveFails(t) PROVE Fails(t) \/ Ends(t)
    BY <1>35, SMTT(20) DEF RunSaveFails, EndFailedRun, Ends, Fails, Fallback, Refreshers
  <1>36. ASSUME NEW t \in Task, Cancel(t) PROVE Ends(t)
    BY <1>36, SMTT(20) DEF Cancel, InFlight, Ends
  <1>37. ASSUME NEW p \in Process, Crash(p) PROVE Crashes(p)
    BY <1>37, SMTT(20) DEF Crash, Local, Crashes
  <1>38. ASSUME NEW p \in Process, Elapse(p) PROVE Still
    BY <1>38, SMTT(20) DEF Elapse, CheckFallsDue, RepairWindowEnds, BreakerWindowEnds, taskVars,
       Still
  <1>39. ASSUME NEW p \in Process, QueryRefused(p) \/ ProbeBegins(p) \/ ProbeEnds(p) PROVE Still
    BY <1>39, SMTT(20) DEF QueryRefused, ProbeBegins, ProbeEnds, taskVars, Still
  <1>40. ASSUME Edit PROVE Edits
    BY <1>40, SMTT(20) DEF Edit, taskVars, Edits
  <1>41. ASSUME Outage \/ Recover PROVE Still
    BY <1>41, SMTT(20) DEF Outage, Recover, taskVars, Still
  <1>42. ASSUME UNCHANGED vars PROVE Still
    BY <1>42, SMTT(20) DEF vars, taskVars, Still
  <1> QED
    BY <1>1, <1>2, <1>3, <1>4, <1>5, <1>6, <1>7, <1>8, <1>9, <1>10, <1>11, <1>12, <1>13, <1>14,
       <1>15, <1>16, <1>17, <1>18, <1>19, <1>20, <1>21, <1>22, <1>23, <1>24, <1>25, <1>26,
       <1>27, <1>28, <1>29, <1>30, <1>31, <1>32, <1>33, <1>34, <1>35, <1>36, <1>37, <1>38,
       <1>39, <1>40, <1>41, <1>42,
       Zenon DEF StepKind, Next, Run, RunFails, Search, Watch, Task

-----------------------------------------------------------------------------
\* A run that has committed finds its own table there until it has saved.
CommittedInv == \A t \in Task : pc[t] = "save" => table = NewTable(t)

\* What a search knows in each phase: its answer, its walk, its first snapshot.
AnswerInv == \A t \in Searcher : pc[t] # "done" => answer[t] = NoAnswer
CheckedInv == \A t \in Searcher :
                 answer[t].status = "ok" /\ answer[t].checked => req[t].fp # NoContent
WalkedInv == \A t \in Searcher : /\ pc[t] \in Fresh => req[t].fp = NoContent
                                 /\ (req[t].fp = NoContent <=> seen[t] = {})
FoundInv  == /\ \A t \in Task : ~Creating(t) => table # NoTable
             /\ \A t \in Searcher : /\ pc[t] \in Creators => Creating(t)
                                    /\ pc[t] \in Refreshers => ~Creating(t)
                                    /\ req[t].fp # NoContent => ~Creating(t)
                                    /\ pc[t] = "reread" => table # NoTable
             /\ table = NoTable => manifest = NoContent

KnownInv == CommittedInv /\ AnswerInv /\ CheckedInv /\ WalkedInv /\ FoundInv

\* A commit writes a snapshot.
LEMMA NewTableType ==
    ASSUME CoordInv, NEW t \in Task, pc[t] \in Scanned
    PROVE  NewTable(t) \in Snapshot /\ NewTable(t) # NoTable
  <1>1. req[t].scanned \in Content /\ identity[Home[t]] \in Identity
    BY ConstantTypes DEF CoordInv, TypeOK, ScannedInv, Scanned
  <1>2. req[t].planned \in {"real", "missing"}
    BY DEF CoordInv, TypeOK, Request
  <1> QED BY <1>1, <1>2, CoordAssumption DEF NewTable, Snapshot

\* Only one task is between its scan and the end of its run.
LEMMA OneScanned ==
    ASSUME CoordInv, NEW t \in Task, NEW u \in Task, pc[t] \in Running, pc[u] \in Running
    PROVE  t = u
  BY DEF CoordInv, LockInv

\* Nobody else commits before the manifest is saved.
LEMMA CommittedStep ==
    ASSUME CoordInv, CommittedInv, StepKind PROVE CommittedInv'
  <1> USE CoordAssumption, ConstantTypes
  <1> USE DEF CoordInv, TypeOK, Shared, Others, Knows, Forgets, Task, CommittedInv, NewTable
  <1>1. ASSUME NEW t \in Task, Moves(t) PROVE CommittedInv'
    BY <1>1, SMTT(20) DEF Moves
  <1>2. ASSUME NEW t \in Task, Begins(t) PROVE CommittedInv'
    BY <1>2, SMTT(20) DEF Begins
  <1>3. ASSUME NEW t \in Task, Walks(t) PROVE CommittedInv'
    BY <1>3, SMTT(20) DEF Walks
  <1>4. ASSUME NEW t \in Task, Scans(t) PROVE CommittedInv'
    BY <1>4, SMTT(20) DEF Scans
  <1>5. ASSUME NEW t \in Task, Commits(t) PROVE CommittedInv'
    BY <1>5, SMTT(20) DEF Commits, LockInv, Running
  <1>6. ASSUME NEW t \in Task, Saves(t) PROVE CommittedInv'
    BY <1>6, SMTT(20) DEF Saves, LockInv, Running
  <1>7. ASSUME NEW t \in Task, Fails(t) PROVE CommittedInv'
    BY <1>7, SMTT(20) DEF Fails
  <1>8. ASSUME NEW t \in Task, Ends(t) PROVE CommittedInv'
    BY <1>8, SMTT(20) DEF Ends
  <1>9. ASSUME NEW t \in Task, Answers(t) PROVE CommittedInv'
    BY <1>9, SMTT(20) DEF Answers
  <1>10. ASSUME NEW p \in Process, Crashes(p) PROVE CommittedInv'
    BY <1>10, SMTT(20) DEF Crashes
  <1>11. CASE Edits
    BY <1>11, SMTT(20) DEF Edits
  <1>12. CASE Still
    BY <1>12, SMTT(20) DEF Still
  <1> QED BY <1>1, <1>2, <1>3, <1>4, <1>5, <1>6, <1>7, <1>8, <1>9, <1>10, <1>11, <1>12
      DEF StepKind

\* An answer is there when a search is done, and only then.
LEMMA AnswerStep ==
    ASSUME CoordInv, AnswerInv, StepKind PROVE AnswerInv'
  <1> USE CoordAssumption, ConstantTypes
  <1> USE DEF CoordInv, TypeOK, Shared, Others, Knows, Forgets, Task, AnswerInv
  <1>1. ASSUME NEW t \in Task, Moves(t) PROVE AnswerInv'
    BY <1>1, SMTT(20) DEF Moves
  <1>2. ASSUME NEW t \in Task, Begins(t) PROVE AnswerInv'
    BY <1>2, SMTT(20) DEF Begins
  <1>3. ASSUME NEW t \in Task, Walks(t) PROVE AnswerInv'
    BY <1>3, SMTT(20) DEF Walks
  <1>4. ASSUME NEW t \in Task, Scans(t) PROVE AnswerInv'
    BY <1>4, SMTT(20) DEF Scans
  <1>5. ASSUME NEW t \in Task, Commits(t) PROVE AnswerInv'
    BY <1>5, SMTT(20) DEF Commits
  <1>6. ASSUME NEW t \in Task, Saves(t) PROVE AnswerInv'
    BY <1>6, SMTT(20) DEF Saves
  <1>7. ASSUME NEW t \in Task, Fails(t) PROVE AnswerInv'
    BY <1>7, SMTT(20) DEF Fails
  <1>8. ASSUME NEW t \in Task, Ends(t) PROVE AnswerInv'
    BY <1>8, SMTT(20) DEF Ends
  <1>9. ASSUME NEW t \in Task, Answers(t) PROVE AnswerInv'
    BY <1>9, SMTT(20) DEF Answers
  <1>10. ASSUME NEW p \in Process, Crashes(p) PROVE AnswerInv'
    BY <1>10, SMTT(20) DEF Crashes
  <1>11. CASE Edits
    BY <1>11, SMTT(20) DEF Edits
  <1>12. CASE Still
    BY <1>12, SMTT(20) DEF Still
  <1> QED BY <1>1, <1>2, <1>3, <1>4, <1>5, <1>6, <1>7, <1>8, <1>9, <1>10, <1>11, <1>12
      DEF StepKind

\* An answer counts as checked only when its search has walked.
LEMMA CheckedStep == ASSUME CoordInv, AnswerInv, CheckedInv, StepKind PROVE CheckedInv'
  <1> USE DEF CoordInv, TypeOK, Shared, Others, Knows, Forgets, Task
  <1>1. ASSUME NEW t \in Task, Answers(t) PROVE CheckedInv'
    <2>1. /\ answer'[t].checked => req[t].fp # NoContent
          /\ req'[t].fp = req[t].fp
      BY <1>1, Zenon DEF Answers
    <2>2. \A u \in Searcher : u # t => answer'[u] = answer[u] /\ req'[u].fp = req[u].fp
      BY <1>1 DEF Answers
    <2> QED BY <2>1, <2>2, Zenon DEF CheckedInv
  <1>2. ASSUME ~\E t \in Task : Answers(t) PROVE CheckedInv'
    <2> DEFINE Kept(u) == \/ answer'[u] = answer[u] /\ req'[u].fp = req[u].fp
                          \/ answer'[u].status # "ok"
    <2>1. ASSUME NEW t \in Task, NEW u \in Searcher,
                 Moves(t) \/ Begins(t) \/ Scans(t) \/ Commits(t) \/ Fails(t)
          PROVE  Kept(u)
      BY <2>1 DEF Moves, Begins, Scans, Commits, Fails
    <2>2. ASSUME NEW t \in Task, NEW u \in Searcher, Walks(t) \/ Saves(t) PROVE Kept(u)
      BY <2>2 DEF Walks, Saves, AnswerInv, NoAnswer
    <2>3. ASSUME NEW t \in Task, NEW u \in Searcher, Ends(t) PROVE Kept(u)
      BY <2>3 DEF Ends, AnswerInv, NoAnswer
    <2>4. ASSUME NEW u \in Searcher, (\E p \in Process : Crashes(p)) \/ Edits \/ Still
    PROVE Kept(u)
      BY <2>4 DEF Crashes, Edits, Still, NoAnswer
    <2>5. \A u \in Searcher : Kept(u)
      BY <1>2, <2>1, <2>2, <2>3, <2>4 DEF StepKind
    <2> QED BY <2>5, Zenon DEF CheckedInv
  <1> QED BY <1>1, <1>2

\* A search knows a fingerprint from its walk to its end.
LEMMA WalkedStep ==
    ASSUME CoordInv, WalkedInv, StepKind PROVE WalkedInv'
  <1> USE CoordAssumption, ConstantTypes
  <1> USE DEF CoordInv, TypeOK, Shared, Others, Knows, Forgets, Task, WalkedInv, Fresh, NoRequest
  <1>1. ASSUME NEW t \in Task, Moves(t) PROVE WalkedInv'
    BY <1>1, SMTT(20) DEF Moves
  <1>2. ASSUME NEW t \in Task, Begins(t) PROVE WalkedInv'
    BY <1>2, SMTT(20) DEF Begins
  <1>3. ASSUME NEW t \in Task, Walks(t) PROVE WalkedInv'
    <2>1. tree # NoContent /\ {tree} # {} BY DEF Content, NoContent
    <2> QED BY <1>3, <2>1 DEF Walks
  <1>4. ASSUME NEW t \in Task, Scans(t) PROVE WalkedInv'
    BY <1>4, SMTT(20) DEF Scans
  <1>5. ASSUME NEW t \in Task, Commits(t) PROVE WalkedInv'
    BY <1>5, SMTT(20) DEF Commits
  <1>6. ASSUME NEW t \in Task, Saves(t) PROVE WalkedInv'
    BY <1>6, SMTT(20) DEF Saves
  <1>7. ASSUME NEW t \in Task, Fails(t) PROVE WalkedInv'
    BY <1>7, SMTT(20) DEF Fails
  <1>8. ASSUME NEW t \in Task, Ends(t) PROVE WalkedInv'
    BY <1>8, SMTT(20) DEF Ends
  <1>9. ASSUME NEW t \in Task, Answers(t) PROVE WalkedInv'
    BY <1>9, SMTT(20) DEF Answers
  <1>10. ASSUME NEW p \in Process, Crashes(p) PROVE WalkedInv'
    BY <1>10, SMTT(20) DEF Crashes
  <1>11. CASE Edits
    <2>1. \A u \in Task : seen'[u] = {} <=> seen[u] = {}
      <3> SUFFICES ASSUME NEW u \in Task PROVE seen'[u] = {} <=> seen[u] = {} OBVIOUS
      <3>1. seen'[u] = IF seen[u] = {} THEN {} ELSE seen[u] \cup {tree'} BY <1>11 DEF Edits
      <3> QED BY <3>1, Zenon
    <2> QED BY <1>11, <2>1 DEF Edits
  <1>12. CASE Still
    BY <1>12, SMTT(20) DEF Still
  <1> QED BY <1>1, <1>2, <1>3, <1>4, <1>5, <1>6, <1>7, <1>8, <1>9, <1>10, <1>11, <1>12
      DEF StepKind

\* What a search found stays there.
LEMMA FoundStep ==
    ASSUME CoordInv, CommittedInv, WalkedInv, FoundInv, StepKind PROVE FoundInv'
  <1> USE CoordAssumption, ConstantTypes, NewTableType
  <1> USE DEF CoordInv, TypeOK, Shared, Others, Knows, Forgets, Task, FoundInv, WalkedInv,
              Fresh, Creators, Refreshers, Scanned, Creating, NoRequest, CommittedInv
  <1>1. ASSUME NEW t \in Task, Moves(t) PROVE FoundInv'
    BY <1>1, SMTT(20) DEF Moves, MayReread
  <1>2. ASSUME NEW t \in Task, Begins(t) PROVE FoundInv'
    BY <1>2, SMTT(20) DEF Begins
  <1>3. ASSUME NEW t \in Task, Walks(t) PROVE FoundInv'
    BY <1>3, SMTT(20) DEF Walks
  <1>4. ASSUME NEW t \in Task, Scans(t) PROVE FoundInv'
    BY <1>4, SMTT(20) DEF Scans
  <1>5. ASSUME NEW t \in Task, Commits(t) PROVE FoundInv'
    BY <1>5, SMTT(20) DEF Commits
  <1>6. ASSUME NEW t \in Task, Saves(t) PROVE FoundInv'
    BY <1>6, SMTT(20) DEF Saves
  <1>7. ASSUME NEW t \in Task, Fails(t) PROVE FoundInv'
    BY <1>7, SMTT(20) DEF Fails
  <1>8. ASSUME NEW t \in Task, Ends(t) PROVE FoundInv'
    BY <1>8, SMTT(20) DEF Ends
  <1>9. ASSUME NEW t \in Task, Answers(t) PROVE FoundInv'
    BY <1>9, SMTT(20) DEF Answers
  <1>10. ASSUME NEW p \in Process, Crashes(p) PROVE FoundInv'
    BY <1>10, SMTT(20) DEF Crashes
  <1>11. CASE Edits
    BY <1>11, SMTT(20) DEF Edits
  <1>12. CASE Still
    BY <1>12, SMTT(20) DEF Still
  <1> QED BY <1>1, <1>2, <1>3, <1>4, <1>5, <1>6, <1>7, <1>8, <1>9, <1>10, <1>11, <1>12
      DEF StepKind

-----------------------------------------------------------------------------
\* Where edits bring no earlier content back, contents are versions, and what
\* is derived from an earlier walk is never newer than what a later one finds.
GrowInv ==
    /\ manifest <= tree
    /\ table # NoTable => manifest <= table.content /\ table.content <= tree
    /\ \A t \in Task : pc[t] \in Scanned =>
         /\ req[t].scanned <= tree /\ manifest <= req[t].scanned
         /\ table # NoTable => table.content <= req[t].scanned
    /\ \A t \in Searcher : req[t].fp <= tree

\* Unless a run's save is missing, the manifest is the fingerprint of the table.
MatchInv ==
    (\A t \in Task : pc[t] # "save") =>
        manifest = IF table = NoTable THEN NoContent ELSE table.content

\* What a search that has walked may still answer from: what the tree has had
\* since, or what is older than its walk, which it does not answer from.
SeenOf(t) ==
    /\ {req[t].fp, tree} \subseteq seen[t]
    /\ table.content \in seen[t] \/ table.content <= req[t].fp
    /\ \A u \in Task : pc[u] \in Scanned =>
          req[u].scanned \in seen[t] \/ req[u].scanned <= req[t].fp
    /\ pc[t] \in Scanned => req[t].fp <= req[t].scanned
    /\ pc[t] = "reread" => req[t].fp <= table.content
    /\ pc[t] = "done" /\ answer[t].status = "ok" => answer[t].snapshot.content \in seen[t]
SeenInv == \A t \in Searcher : req[t].fp # NoContent => SeenOf(t)

\* What a throttled search may answer from.
SinceInv ==
    \A p \in Process :
        /\ tree \in sinceCheck[p]
        /\ table # NoTable => table.content \in sinceCheck[p]
        /\ \A u \in Task : pc[u] \in Scanned => req[u].scanned \in sinceCheck[p]

\* Contents are numbers.
LEMMA Numbers ==
    ASSUME TypeOK
    PROVE  /\ tree \in Nat /\ manifest \in Nat /\ (table # NoTable => table.content \in Nat)
           /\ \A t \in Task : req[t].fp \in Nat /\ req[t].scanned \in Nat
           /\ NoContent \in Nat /\ NoContent <= tree /\ NoRequest.fp = NoContent
  <1>1. Content \subseteq Nat /\ NoContent = 0 /\ \A c \in Content : c > 0
    BY CoordAssumption DEF Content, NoContent
  <1>2. table # NoTable => table.content \in Content
    BY DEF TypeOK, AnySnapshot, Snapshot
  <1>3. \A t \in Task : /\ req[t].fp \in Content \cup {NoContent}
                        /\ req[t].scanned \in Content \cup {NoContent}
    BY DEF TypeOK, Request
  <1>4. tree \in Content /\ manifest \in Content \cup {NoContent}
    BY DEF TypeOK
  <1>5. NoContent \in Nat /\ NoContent <= tree /\ NoRequest.fp = NoContent /\ tree \in Nat
    BY <1>1, <1>4 DEF NoRequest
  <1>6. manifest \in Nat /\ \A t \in Task : req[t].fp \in Nat /\ req[t].scanned \in Nat
    BY <1>1, <1>3, <1>4, <1>5
  <1> QED BY <1>1, <1>2, <1>5, <1>6

\* A search that has walked has a table to answer from.
LEMMA WalkedFinds ==
    ASSUME CoordInv, KnownInv, GrowInv, NEW t \in Searcher, req[t].fp # NoContent
    PROVE  /\ table # NoTable /\ manifest <= table.content /\ table.content <= tree
           /\ table.content \in Nat
  BY Numbers DEF CoordInv, KnownInv, FoundInv, GrowInv, Task

\* A run and a walk read the tree as it is now.
LEMMA GrowStep ==
    ASSUME CoordInv, CommittedInv, GrowInv, ~Reverts, StepKind PROVE GrowInv'
  <1> USE CoordAssumption, ConstantTypes, Numbers, NewTableType
  <1> USE DEF CoordInv, TypeOK, Shared, Others, Knows, Forgets, Task, GrowInv, Scanned
  <1>1. ASSUME NEW t \in Task, Moves(t) PROVE GrowInv'
    BY <1>1, SMTT(20) DEF Moves
  <1>2. ASSUME NEW t \in Task, Begins(t) PROVE GrowInv'
    BY <1>2, SMTT(20) DEF Begins
  <1>3. ASSUME NEW t \in Task, Walks(t) PROVE GrowInv'
    BY <1>3, SMTT(20) DEF Walks
  <1>4. ASSUME NEW t \in Task, Scans(t) PROVE GrowInv'
    BY <1>4, SMTT(20) DEF Scans
  <1>5. ASSUME NEW t \in Task, Commits(t) PROVE GrowInv'
    BY <1>5, SMTT(20) DEF Commits, LockInv, Running, NewTable
  <1>6. ASSUME NEW t \in Task, Saves(t) PROVE GrowInv'
    BY <1>6, SMTT(20) DEF Saves, LockInv, Running, CommittedInv, NewTable
  <1>7. ASSUME NEW t \in Task, Fails(t) PROVE GrowInv'
    BY <1>7, SMTT(20) DEF Fails
  <1>8. ASSUME NEW t \in Task, Ends(t) PROVE GrowInv'
    BY <1>8, SMTT(20) DEF Ends
  <1>9. ASSUME NEW t \in Task, Answers(t) PROVE GrowInv'
    BY <1>9, SMTT(20) DEF Answers
  <1>10. ASSUME NEW p \in Process, Crashes(p) PROVE GrowInv'
    <2>1. \A u \in Searcher : req'[u].fp = NoContent \/ req'[u].fp = req[u].fp
      BY <1>10 DEF Crashes
    <2> QED BY <1>10, <2>1 DEF Crashes
  <1>11. CASE Edits
    <2>1. tree' \in Nat /\ tree < tree' /\ UNCHANGED <<table, manifest, pc, req>>
      BY <1>11 DEF Edits, Content
    <2>2. \A n \in Nat : n <= tree => n <= tree'
      BY <2>1
    <2> QED BY <2>1, <2>2
  <1>12. CASE Still
    BY <1>12, SMTT(20) DEF Still
  <1> QED BY <1>1, <1>2, <1>3, <1>4, <1>5, <1>6, <1>7, <1>8, <1>9, <1>10, <1>11, <1>12
      DEF StepKind

\* A run ends after its commit by saving, where no fault strikes in between.
\* Without the fault between the two files they match when nobody saves.
LEMMA MatchStep ==
    ASSUME CoordInv, CommittedInv, MatchInv, "gap" \notin Faults, [Next]_vars, StepKind
    PROVE  MatchInv'
  <1> USE CoordAssumption
  <1>1. ASSUME NEW t \in Task, pc[t] = "save", pc'[t] # "save"
        PROVE  table # NoTable /\ manifest' = table.content /\ table' = table
    <2>1. RunSave(t) BY <1>1, LeavesSave DEF CoordInv
    <2>2. manifest' = req[t].scanned /\ table' = table
      BY <2>1 DEF RunSave, SavedFingerprint
    <2>3. table = NewTable(t) /\ table # NoTable
      BY <1>1, NewTableType DEF CommittedInv, Scanned
    <2> QED BY <2>2, <2>3 DEF NewTable
  <1>2. CASE \E t \in Task : pc[t] = "save" /\ pc'[t] # "save"
    BY <1>1, <1>2 DEF MatchInv
  <1>3. CASE \A t \in Task : pc[t] = "save" => pc'[t] = "save"
    <2>1. (\A t \in Task : pc'[t] # "save") => UNCHANGED <<table, manifest>>
      <3> USE DEF StepKind
      <3>1. ASSUME NEW t \in Task, Commits(t) PROVE pc'[t] = "save" BY <3>1 DEF Commits
      <3>2. ASSUME NEW t \in Task, Saves(t) PROVE pc'[t] = "save" BY <3>2, <1>3 DEF Saves
      <3>3. ASSUME NEW t \in Task, Moves(t) \/ Begins(t) \/ Walks(t) \/ Scans(t) \/ Fails(t)
                                      \/ Ends(t) \/ Answers(t)
            PROVE  UNCHANGED <<table, manifest>>
        BY <3>3 DEF Moves, Begins, Walks, Scans, Fails, Ends, Answers, Shared
      <3>4. CASE \/ \E p \in Process : Crashes(p)
                 \/ Edits \/ Still
        BY <3>4 DEF Crashes, Edits, Still, Shared
      <3> QED BY <3>1, <3>2, <3>3, <3>4
    <2>2. (\A t \in Task : pc'[t] # "save") => \A t \in Task : pc[t] # "save"
      BY <1>3
    <2> QED BY <2>1, <2>2 DEF MatchInv
  <1> QED BY <1>2, <1>3

\* A search answers from nothing that was gone before its walk.
LEMMA SeenStep ==
    ASSUME CoordInv, KnownInv, KnownInv', GrowInv, GrowInv', SeenInv, TypeOK', ~Reverts,
           StepKind
    PROVE SeenInv'
  <1> USE CoordAssumption, ConstantTypes, Numbers, WalkedFinds
  <1> USE DEF CoordInv, TypeOK, Shared, Others, Knows, Forgets, Task, Scanned, LockInv, Running,
              SeenInv, SeenOf, GrowInv
  <1>1. ASSUME NEW t \in Task, Moves(t) PROVE SeenInv'
    <2>1. ASSUME t \in Searcher, pc'[t] = "reread", req[t].fp # NoContent
          PROVE  req[t].fp <= table.content
      <3>1. table # NoTable /\ manifest <= table.content
        BY <2>1, WalkedFinds
      <3>2. pc[t] \notin Fresh
        BY <2>1 DEF KnownInv, WalkedInv
      <3>3. ~FileStale(t) \/ ~StillStale(t)
        BY <1>1, <2>1, <3>2 DEF Moves, MayReread, Fresh
      <3>4. manifest = req[t].fp
        BY <2>1, <3>3 DEF FileStale, StillStale
      <3> QED BY <3>1, <3>4
    <2>2. UNCHANGED <<tree, table>>
          /\ \A u \in Task : /\ req'[u].fp = req[u].fp /\ seen'[u] = seen[u]
                             /\ req'[u].scanned = req[u].scanned /\ answer'[u] = answer[u]
      BY <1>1 DEF Moves
    <2>3. \A u \in Task : /\ pc'[u] \in Scanned => pc[u] \in Scanned
                          /\ pc'[u] = "done" => pc[u] = "done"
                          /\ pc'[u] = "reread" => pc[u] = "reread" \/ u = t
      BY <1>1 DEF Moves
    <2>4. ASSUME NEW s \in Searcher, req'[s].fp # NoContent
          PROVE  SeenOf(s)'
      <3>1. req[s].fp # NoContent /\ SeenOf(s) BY <2>2, <2>4
      <3>2. pc'[s] = "reread" => req'[s].fp <= table'.content
        BY <2>1, <2>2, <2>3, <3>1
      <3>3. \A u \in Task : pc'[u] \in Scanned =>
               req'[u].scanned \in seen'[s] \/ req'[u].scanned <= req'[s].fp
        BY <2>2, <2>3, <3>1
      <3>4. /\ pc'[s] \in Scanned => req'[s].fp <= req'[s].scanned
            /\ pc'[s] = "done" /\ answer'[s].status = "ok" => answer'[s].snapshot.content \in seen'[s]
        BY <2>2, <2>3, <3>1
      <3>5. /\ {req'[s].fp, tree'} \subseteq seen'[s]
            /\ table'.content \in seen'[s] \/ table'.content <= req'[s].fp
        BY <2>2, <3>1
      <3> QED BY <3>2, <3>3, <3>4, <3>5
    <2> QED BY <2>4
  <1>2. ASSUME NEW t \in Task, Begins(t) PROVE SeenInv'
    BY <1>2, SMTT(20) DEF Begins
  <1>3. ASSUME NEW t \in Task, Walks(t) PROVE SeenInv'
    <2>1. UNCHANGED <<tree, table>>
          /\ \A u \in Task : /\ req'[u].scanned = req[u].scanned /\ answer'[u] = answer[u]
                             /\ pc'[u] \in Scanned => pc[u] \in Scanned
      BY <1>3 DEF Walks
    <2>2. ASSUME NEW s \in Searcher, s # t
          PROVE  req'[s].fp = req[s].fp /\ seen'[s] = seen[s] /\ pc'[s] = pc[s]
      BY <1>3, <2>2 DEF Walks
    <2>3. ASSUME t \in Searcher
          PROVE  /\ req'[t].fp = tree /\ seen'[t] = {tree} /\ pc'[t] = "decide"
                 /\ table.content <= tree
      <3>1. req'[t].fp = tree /\ seen'[t] = {tree} /\ pc'[t] = "decide" /\ pc[t] = "walk"
        BY <1>3, <2>3 DEF Walks
      <3>2. table # NoTable
        BY <3>1, <2>3 DEF KnownInv, FoundInv, Refreshers
      <3> QED BY <3>1, <3>2
    <2>4. \A u \in Task : pc'[u] \in Scanned => req[u].scanned <= tree
      BY <2>1
    <2>5. ASSUME NEW s \in Searcher, s # t, req'[s].fp # NoContent
          PROVE  SeenOf(s)'
      <3>1. SeenOf(s) BY <2>2, <2>5
      <3>2. \A u \in Task : pc'[u] \in Scanned =>
               req'[u].scanned \in seen'[s] \/ req'[u].scanned <= req'[s].fp
        BY <2>1, <2>2, <2>5, <3>1
      <3> QED BY <2>1, <2>2, <2>5, <3>1, <3>2
    <2>6. ASSUME t \in Searcher
          PROVE  /\ {req'[t].fp, tree'} \subseteq seen'[t]
                 /\ table'.content <= req'[t].fp
                 /\ \A u \in Task : pc'[u] \in Scanned => req'[u].scanned <= req'[t].fp
                 /\ pc'[t] \notin Scanned \cup {"reread", "done"}
      BY <2>1, <2>3, <2>4, <2>6
    <2> QED BY <2>5, <2>6
  <1>4. ASSUME NEW t \in Task, Scans(t) PROVE SeenInv'
    BY <1>4, SMTT(20) DEF Scans
  <1>5. ASSUME NEW t \in Task, Commits(t) PROVE SeenInv'
    <2>1. table' = NewTable(t) /\ table'.content = req[t].scanned /\ pc[t] \in Scanned
      BY <1>5 DEF Commits, NewTable
    <2>2. UNCHANGED tree /\ \A u \in Task : /\ req'[u] = req[u] /\ seen'[u] = seen[u]
                                            /\ answer'[u] = answer[u]
                                            /\ u # t => pc'[u] = pc[u]
      BY <1>5 DEF Commits
    <2>3. pc[t] = "commit" /\ pc'[t] = "save"
      BY <1>5 DEF Commits
    <2>4. ASSUME NEW s \in Searcher, req[s].fp # NoContent, pc[s] = "reread"
          PROVE  req[s].fp <= table'.content
      <3>1. req[s].fp <= table.content BY <2>4
      <3>2. table # NoTable BY <2>4, WalkedFinds
      <3>3. table.content <= req[t].scanned BY <2>1, <3>2
      <3>4. req[s].fp \in Nat /\ req[t].scanned \in Nat /\ table.content \in Nat BY <3>2
      <3> QED BY <2>1, <3>1, <3>3, <3>4
    <2>5. ASSUME NEW s \in Searcher, req[s].fp # NoContent
          PROVE  table'.content \in seen[s] \/ table'.content <= req[s].fp
      BY <2>1, <2>5
    <2>6. \A u \in Task : /\ pc'[u] \in Scanned => pc[u] \in Scanned
                          /\ pc'[u] \in {"reread", "done"} => pc'[u] = pc[u]
      BY <2>1, <2>2, <2>3
    <2> QED BY <2>2, <2>4, <2>5, <2>6
  <1>6. ASSUME NEW t \in Task, Saves(t) PROVE SeenInv'
    <2>1. table = NewTable(t) /\ table.content = req[t].scanned /\ pc[t] \in Scanned
      BY <1>6 DEF Saves, NewTable, KnownInv, CommittedInv
    <2>2. UNCHANGED <<tree, table>>
          /\ \A s \in Searcher : /\ req'[s].fp = req[s].fp /\ seen'[s] = seen[s]
                                 /\ req'[s].scanned = req[s].scanned
                                 /\ answer'[s] = answer[s]
                                 /\ pc'[s] = "done" => pc[s] = "done"
      BY <1>6 DEF Saves
    <2>3. \A u \in Task : /\ pc'[u] \in Scanned => /\ pc[u] \in Scanned
                                                   /\ req'[u].scanned = req[u].scanned
                          /\ pc'[u] = "reread" => pc[u] = "reread" \/ u = t
      BY <1>6 DEF Saves
    <2>4. ASSUME t \in Searcher, req[t].fp # NoContent PROVE req[t].fp <= table.content
      BY <2>1, <2>4
    <2> QED BY <2>2, <2>3, <2>4
  <1>7. ASSUME NEW t \in Task, Fails(t) PROVE SeenInv'
    BY <1>7, SMTT(20) DEF Fails
  <1>8. ASSUME NEW t \in Task, Ends(t) PROVE SeenInv'
    BY <1>8, SMTT(20) DEF Ends
  <1>9. ASSUME NEW t \in Task, Answers(t) PROVE SeenInv'
    <2>1. UNCHANGED <<tree, table>>
          /\ \A u \in Task : /\ req'[u].fp = req[u].fp /\ seen'[u] = seen[u]
                             /\ req'[u].scanned = req[u].scanned
                             /\ u # t => answer'[u] = answer[u] /\ pc'[u] = pc[u]
      BY <1>9 DEF Answers
    <2>2. t \in Searcher /\ pc[t] = "reread" /\ pc'[t] = "done" /\ answer'[t].snapshot = table
      BY <1>9 DEF Answers
    <2>3. ASSUME req[t].fp # NoContent PROVE table.content \in seen[t]
      <3>1. /\ req[t].fp \in seen[t] /\ req[t].fp <= table.content
            /\ table.content \in seen[t] \/ table.content <= req[t].fp
        BY <2>2, <2>3
      <3>2. table.content \in Nat /\ req[t].fp \in Nat BY <2>2, <2>3, WalkedFinds
      <3>3. ASSUME table.content <= req[t].fp PROVE table.content = req[t].fp
        <4>1. \A m, n \in Nat : m <= n /\ n <= m => m = n OBVIOUS
        <4> QED BY <3>1, <3>2, <3>3, <4>1, Zenon
      <3> QED BY <3>1, <3>3
    <2>4. \A u \in Task : /\ pc'[u] \in Scanned => pc[u] \in Scanned
                          /\ pc'[u] = "reread" => pc[u] = "reread"
                          /\ pc'[u] = "done" => pc[u] = "done" \/ u = t
      BY <2>1, <2>2
    <2>5. answer'[t].snapshot.content = table.content
      BY <2>2
    <2>6. ASSUME NEW s \in Searcher, req'[s].fp # NoContent
          PROVE  SeenOf(s)'
      <3>1. req[s].fp # NoContent /\ SeenOf(s) BY <2>1, <2>6
      <3>2. pc'[s] = "done" /\ answer'[s].status = "ok" => answer'[s].snapshot.content \in seen'[s]
        <4>1. CASE s = t
          BY <2>1, <2>2, <2>3, <2>5, <3>1, <4>1
        <4>2. CASE s # t
          BY <2>1, <3>1, <4>2
        <4> QED BY <4>1, <4>2
      <3> QED BY <2>1, <2>4, <3>1, <3>2
    <2> QED BY <2>6
  <1>10. ASSUME NEW p \in Process, Crashes(p) PROVE SeenInv'
    BY <1>10, SMTT(20) DEF Crashes
  <1>11. CASE Edits
    <2>1. UNCHANGED <<table, pc, req, answer>>
      BY <1>11 DEF Edits
    <2>2. ASSUME NEW s \in Searcher, req[s].fp # NoContent
          PROVE  /\ seen[s] \subseteq seen'[s] /\ tree' \in seen'[s]
      <3>1. seen[s] # {} BY <2>2 DEF KnownInv, WalkedInv
      <3>2. seen'[s] = seen[s] \cup {tree'} BY <3>1, <1>11, Zenon DEF Edits, Task
      <3> QED BY <3>2
    <2> QED BY <2>1, <2>2
  <1>12. CASE Still
    BY <1>12, SMTT(20) DEF Still
  <1> QED BY <1>1, <1>2, <1>3, <1>4, <1>5, <1>6, <1>7, <1>8, <1>9, <1>10, <1>11, <1>12
      DEF StepKind

\* Where all tasks share a process, or none is configured anew, the processes
\* name one identity.
SameIdentity == \A t, u \in Task : identity[Home[t]] = identity[Home[u]]

\* A search that found its own identity, or nothing, finds its own identity
\* ever after, and one that reads the table again has made sure of it.
OwnTable(t) == table # NoTable => table.identity = identity[Home[t]]
OwnInv ==
    \A t \in Searcher :
        /\ pc[t] \notin {"idle", "done"} /\ ~IdentityChanged(t) => OwnTable(t)
        /\ pc[t] = "reread" => OwnTable(t)
        /\ pc[t] = "done" /\ answer[t].status \in {"ok", "warned"} =>
              answer[t].snapshot.identity = identity[Home[t]]

\* What a throttled search answers from was there at the last check or since.
LEMMA SinceStep ==
    ASSUME CoordInv, KnownInv, GrowInv, SeenInv, SinceInv, TypeOK', ~Reverts, StepKind
    PROVE SinceInv'
  <1> USE CoordAssumption, ConstantTypes, Numbers, WalkedFinds
  <1> USE DEF CoordInv, TypeOK, Shared, Others, Knows, Forgets, Task, Scanned, SinceInv
  <1>1. ASSUME NEW t \in Task, Moves(t) PROVE SinceInv'
    BY <1>1, SMTT(20) DEF Moves
  <1>2. ASSUME NEW t \in Task, Begins(t) PROVE SinceInv'
    BY <1>2, SMTT(20) DEF Begins
  <1>3. ASSUME NEW t \in Task, Walks(t) PROVE SinceInv'
    BY <1>3, SMTT(20) DEF Walks
  <1>4. ASSUME NEW t \in Task, Scans(t) PROVE SinceInv'
    BY <1>4, SMTT(20) DEF Scans
  <1>5. ASSUME NEW t \in Task, Commits(t) PROVE SinceInv'
    BY <1>5, SMTT(20) DEF Commits, NewTable
  <1>6. ASSUME NEW t \in Task, Saves(t) PROVE SinceInv'
    BY <1>6, SMTT(20) DEF Saves
  <1>7. ASSUME NEW t \in Task, Fails(t) PROVE SinceInv'
    BY <1>7, SMTT(20) DEF Fails
  <1>8. ASSUME NEW t \in Task, Ends(t) PROVE SinceInv'
    BY <1>8, SMTT(20) DEF Ends
  <1>9. ASSUME NEW t \in Task, Answers(t) PROVE SinceInv'
    <2>1. UNCHANGED <<tree, table>>
          /\ \A u \in Task : req'[u].scanned = req[u].scanned /\ (pc'[u] \in Scanned => pc[u] \in Scanned)
      BY <1>9 DEF Answers
    <2>2. ASSUME req[t].fp # NoContent
          PROVE  /\ tree \in seen[t] /\ table.content \in seen[t]
                 /\ \A u \in Task : pc[u] \in Scanned => req[u].scanned \in seen[t]
      <3>1. t \in Searcher /\ pc[t] = "reread" /\ SeenOf(t)
        BY <1>9, <2>2 DEF Answers, SeenInv
      <3>2. \A m, n \in Nat : m <= n /\ n <= m => m = n OBVIOUS
      <3>3. table.content \in Nat /\ req[t].fp \in Nat /\ table # NoTable
        BY <2>2, <3>1, WalkedFinds
      <3>4. req[t].fp \in seen[t] /\ req[t].fp <= table.content BY <3>1 DEF SeenOf
      <3>5. table.content \in seen[t]
        <4>1. CASE table.content <= req[t].fp
          <5>1. table.content = req[t].fp BY <3>2, <3>3, <3>4, <4>1
          <5> QED BY <3>4, <5>1
        <4> QED BY <3>1, <4>1 DEF SeenOf
      <3>6. ASSUME NEW u \in Task, pc[u] \in Scanned PROVE req[u].scanned \in seen[t]
        <4>1. CASE req[u].scanned <= req[t].fp
          <5>1. req[t].fp <= req[u].scanned /\ req[u].scanned \in Nat BY <3>3, <3>4, <3>6
              DEF GrowInv
          <5>2. req[u].scanned = req[t].fp BY <3>2, <3>3, <3>4, <4>1, <5>1
          <5> QED BY <3>4, <5>2
        <4> QED BY <3>1, <3>6, <4>1 DEF SeenOf
      <3> QED BY <3>1, <3>5, <3>6 DEF SeenOf
    <2>3. \A p \in Process : sinceCheck'[p] = IF req[t].fp # NoContent /\ p = Home[t]
                                                 THEN seen[t] ELSE sinceCheck[p]
      BY <1>9 DEF Answers
    <2> QED BY <2>1, <2>2, <2>3
  <1>10. ASSUME NEW p \in Process, Crashes(p) PROVE SinceInv'
    BY <1>10, SMTT(20) DEF Crashes
  <1>11. CASE Edits
    BY <1>11, SMTT(20) DEF Edits
  <1>12. CASE Still
    BY <1>12, SMTT(20) DEF Still
  <1> QED BY <1>1, <1>2, <1>3, <1>4, <1>5, <1>6, <1>7, <1>8, <1>9, <1>10, <1>11, <1>12
      DEF StepKind

\* Only a restart changes the identity of a process.
LEMMA SameStep ==
    ASSUME CoordInv, SameIdentity, (\A t,
           u \in Task : Home[t] = Home[u]) \/ "reconfigure" \notin Faults, StepKind
    PROVE SameIdentity'
  <1> USE CoordAssumption, ConstantTypes
  <1> USE DEF Shared, SameIdentity
  <1>1. ASSUME NEW t \in Task, Moves(t) PROVE SameIdentity'
    BY <1>1, SMTT(20) DEF Moves
  <1>2. ASSUME NEW t \in Task, Begins(t) PROVE SameIdentity'
    BY <1>2, SMTT(20) DEF Begins
  <1>3. ASSUME NEW t \in Task, Walks(t) PROVE SameIdentity'
    BY <1>3, SMTT(20) DEF Walks
  <1>4. ASSUME NEW t \in Task, Scans(t) PROVE SameIdentity'
    BY <1>4, SMTT(20) DEF Scans
  <1>5. ASSUME NEW t \in Task, Commits(t) PROVE SameIdentity'
    BY <1>5, SMTT(20) DEF Commits
  <1>6. ASSUME NEW t \in Task, Saves(t) PROVE SameIdentity'
    BY <1>6, SMTT(20) DEF Saves
  <1>7. ASSUME NEW t \in Task, Fails(t) PROVE SameIdentity'
    BY <1>7, SMTT(20) DEF Fails
  <1>8. ASSUME NEW t \in Task, Ends(t) PROVE SameIdentity'
    BY <1>8, SMTT(20) DEF Ends
  <1>9. ASSUME NEW t \in Task, Answers(t) PROVE SameIdentity'
    BY <1>9, SMTT(20) DEF Answers
  <1>10. ASSUME NEW p \in Process, Crashes(p) PROVE SameIdentity'
    BY <1>10, SMTT(20) DEF Crashes
  <1>11. CASE Edits
    BY <1>11, SMTT(20) DEF Edits
  <1>12. CASE Still
    BY <1>12, SMTT(20) DEF Still
  <1> QED BY <1>1, <1>2, <1>3, <1>4, <1>5, <1>6, <1>7, <1>8, <1>9, <1>10, <1>11, <1>12
      DEF StepKind

\* No search answers from a table of another identity.
LEMMA OwnStep ==
    ASSUME CoordInv, KnownInv, SameIdentity, SameIdentity', OwnInv, (\A t,
           u \in Task : Home[t] = Home[u]) \/ "reconfigure" \notin Faults, StepKind
    PROVE OwnInv'
  <1> USE CoordAssumption, ConstantTypes
  <1> USE DEF CoordInv, TypeOK, Shared, Others, Knows, Forgets, Task, OwnInv, OwnTable,
              IdentityChanged, SameIdentity
  <1>1. ASSUME NEW t \in Task, Moves(t) PROVE OwnInv'
    BY <1>1, SMTT(20) DEF Moves, MayReread, StillStale, KnownInv, FoundInv, Creators, Creating
  <1>2. ASSUME NEW t \in Task, Begins(t) PROVE OwnInv'
    BY <1>2, SMTT(20) DEF Begins
  <1>3. ASSUME NEW t \in Task, Walks(t) PROVE OwnInv'
    BY <1>3, SMTT(20) DEF Walks
  <1>4. ASSUME NEW t \in Task, Scans(t) PROVE OwnInv'
    BY <1>4, SMTT(20) DEF Scans
  <1>5. ASSUME NEW t \in Task, Commits(t) PROVE OwnInv'
    BY <1>5, SMTT(20) DEF Commits, NewTable
  <1>6. ASSUME NEW t \in Task, Saves(t) PROVE OwnInv'
    BY <1>6, SMTT(20) DEF Saves, NewTable, KnownInv, CommittedInv
  <1>7. ASSUME NEW t \in Task, Fails(t) PROVE OwnInv'
    BY <1>7, SMTT(20) DEF Fails, KnownInv, FoundInv, Creating
  <1>8. ASSUME NEW t \in Task, Ends(t) PROVE OwnInv'
    BY <1>8, SMTT(20) DEF Ends
  <1>9. ASSUME NEW t \in Task, Answers(t) PROVE OwnInv'
    BY <1>9, SMTT(20) DEF Answers, KnownInv, FoundInv
  <1>10. ASSUME NEW p \in Process, Crashes(p) PROVE OwnInv'
    BY <1>10, SMTT(20) DEF Crashes, KnownInv, AnswerInv, NoAnswer, NoRequest
  <1>11. CASE Edits
    BY <1>11, SMTT(20) DEF Edits
  <1>12. CASE Still
    BY <1>12, SMTT(20) DEF Still
  <1> QED BY <1>1, <1>2, <1>3, <1>4, <1>5, <1>6, <1>7, <1>8, <1>9, <1>10, <1>11, <1>12
      DEF StepKind

-----------------------------------------------------------------------------
\* What searches know holds in every reachable state.
LEMMA KnownInvariance == Spec => []KnownInv
  <1>1. Init => KnownInv
    BY ConstantTypes DEF Init, KnownInv, CommittedInv, AnswerInv, CheckedInv, WalkedInv,
       FoundInv, Creating, NoRequest,
       NoAnswer, Creators, Refreshers, Fresh, Task
  <1>2. CoordInv /\ KnownInv /\ [Next]_vars => KnownInv'
    BY StepKinds, CommittedStep, AnswerStep, CheckedStep, WalkedStep, FoundStep DEF KnownInv,
       CoordInv
  <1> QED BY <1>1, <1>2, Invariance, PTL DEF Spec

\* Where contents are versions, what a search answers from is bounded below.
LEMMA FreshInvariance == ASSUME ~Reverts PROVE Spec => [](GrowInv /\ SeenInv /\ SinceInv)
  <1>1. Init => GrowInv /\ SeenInv /\ SinceInv
    <2> SUFFICES ASSUME Init PROVE GrowInv /\ SeenInv /\ SinceInv OBVIOUS
    <2>1. tree \in Nat /\ tree \in Content /\ NoContent = 0 /\ Content \subseteq Nat
      BY CoordAssumption DEF Init, Content, NoContent
    <2>2. /\ manifest = NoContent /\ table = NoTable
          /\ \A t \in Task : pc[t] \notin Scanned /\ req[t].fp = NoContent
          /\ \A p \in Process : sinceCheck[p] = Content
      BY DEF Init, Scanned, NoRequest
    <2>3. GrowInv
      BY <2>1, <2>2 DEF GrowInv, Task
    <2>4. SeenInv
      BY <2>2 DEF SeenInv, Task
    <2>5. SinceInv
      BY <2>1, <2>2 DEF SinceInv
    <2> QED BY <2>3, <2>4, <2>5
  <1>2. CoordInv /\ CoordInv' /\ KnownInv /\ KnownInv' /\ GrowInv /\ [Next]_vars => GrowInv'
    BY StepKinds, GrowStep DEF KnownInv, CoordInv
  <1>3. /\ CoordInv /\ CoordInv' /\ KnownInv /\ KnownInv' /\ GrowInv /\ GrowInv'
        /\ SeenInv /\ [Next]_vars
        => SeenInv'
    BY StepKinds, SeenStep DEF CoordInv
  <1>4. /\ CoordInv /\ CoordInv' /\ KnownInv /\ GrowInv /\ SeenInv /\ SinceInv /\ [Next]_vars
        => SinceInv'
    BY StepKinds, SinceStep DEF CoordInv
  <1> QED BY <1>1, <1>2, <1>3, <1>4, Invariance, KnownInvariance, PTL DEF Spec

\* A search that walked the tree and answers without a warning answers from
\* content the tree has had since its walk, whatever other searches, runs,
\* restarts and edits do meanwhile (search_once, resolve_index_for_search).
\* With edits that bring an earlier content back it does not hold: a search whose
\* walk matches the manifest may read the table just after a run has committed
\* the older tree it scanned, and before that run has saved.
THEOREM CheckedAnswersAreFresh == ASSUME ~Reverts PROVE Spec => []CheckedAnswerIsFresh
  <1>1. KnownInv /\ SeenInv => CheckedAnswerIsFresh
    <2> SUFFICES ASSUME KnownInv, SeenInv, NEW t \in Searcher,
                        answer[t].status = "ok", answer[t].checked
                 PROVE  answer[t].snapshot.content \in seen[t]
      BY DEF CheckedAnswerIsFresh
    <2>1. pc[t] = "done" /\ req[t].fp # NoContent
      BY DEF KnownInv, AnswerInv, CheckedInv, NoAnswer
    <2> QED BY <2>1 DEF SeenInv, SeenOf
  <1> QED BY <1>1, KnownInvariance, FreshInvariance, PTL

\* A search that is spared the walk answers from content the tree has had since
\* the walk of its process's last good check (StaleCheckStamp::take).
THEOREM ThrottledAnswersAreBounded == ASSUME ~Reverts PROVE Spec => ThrottledAnswerIsBounded
  <1> DEFINE Bounded == \A t \in Searcher :
                           pc[t] = "reread" /\ pc'[t] = "done" /\ req[t].fp = NoContent =>
                             answer'[t].snapshot.content \in sinceCheck[Home[t]]
  <1>1. CoordInv /\ KnownInv /\ SinceInv /\ [Next]_vars => [Bounded]_vars
    <2> SUFFICES ASSUME CoordInv, KnownInv, SinceInv, [Next]_vars, NEW t \in Searcher,
                        pc[t] = "reread", pc'[t] = "done"
                 PROVE  answer'[t].snapshot.content \in sinceCheck[Home[t]]
      OBVIOUS
    <2>1. answer'[t].snapshot = table
      <3> USE DEF Task, Others
      <3>1. ASSUME NEW u \in Task, Moves(u) \/ Begins(u) \/ Walks(u) \/ Scans(u) \/ Commits(u)
                                     \/ Saves(u) \/ Fails(u) \/ Ends(u)
            PROVE  FALSE
        BY <3>1 DEF Moves, Begins, Walks, Scans, Commits, Saves, Fails, Ends
      <3>2. ASSUME NEW u \in Task, Answers(u) PROVE answer'[t].snapshot = table
        BY <3>2 DEF Answers
      <3>3. CASE \/ \E p \in Process : Crashes(p)
                 \/ Edits \/ Still
        BY <3>3 DEF Crashes, Edits, Still
      <3>4. StepKind BY StepKinds DEF CoordInv
      <3> QED BY <3>1, <3>2, <3>3, <3>4 DEF StepKind
    <2>2. table # NoTable BY DEF KnownInv, FoundInv
    <2>3. Home[t] \in Process BY ConstantTypes DEF Task
    <2> QED BY <2>1, <2>2, <2>3 DEF SinceInv
  <1>2. ThrottledAnswerIsBounded <=> [][Bounded]_vars
    BY DEF ThrottledAnswerIsBounded
  <1> HIDE DEF Bounded
  <1>3. Spec => [][Bounded]_vars
    BY <1>1, Invariance, KnownInvariance, FreshInvariance, PTL DEF Spec
  <1> QED BY <1>2, <1>3

\* While nobody runs, a manifest that matches the tree stands beside a table
\* that holds the tree.  Two things are needed to break this, and either alone
\* does not: a run that ends between its two files, and an edit that brings back
\* the content of the manifest that run left behind.
THEOREM StampsAreAlwaysSound ==
    ASSUME "gap" \notin Faults \/ ~Reverts PROVE Spec => []StampsAreSound
  <1>1. CASE ~Reverts
    <2>1. CoordInv /\ KnownInv /\ GrowInv => StaleCheckIsSound
      <3> SUFFICES ASSUME CoordInv, KnownInv, GrowInv, manifest = tree
                   PROVE  table # NoTable /\ table.content = tree
        BY DEF StaleCheckIsSound
      <3>1. tree \in Content /\ tree # NoContent BY DEF CoordInv, TypeOK, Content, NoContent
      <3>2. table # NoTable BY <3>1 DEF KnownInv, FoundInv
      <3>3. tree <= table.content /\ table.content <= tree BY <3>2 DEF GrowInv
      <3>4. tree \in Nat /\ table.content \in Nat BY <3>2, Numbers DEF CoordInv
      <3>5. \A m, n \in Nat : m <= n /\ n <= m => m = n OBVIOUS
      <3> QED BY <3>2, <3>3, <3>4, <3>5
    <2> QED BY <1>1, <2>1, Invariance, KnownInvariance, FreshInvariance, StampsHaveOwners, PTL
        DEF StampsAreSound
  <1>2. CASE "gap" \notin Faults
    <2>1. Init => MatchInv BY DEF Init, MatchInv
    <2>2. CoordInv /\ KnownInv /\ MatchInv /\ [Next]_vars => MatchInv'
      BY <1>2, MatchStep, StepKinds DEF KnownInv, CoordInv
    <2>3. CoordInv /\ MatchInv => StaleCheckIsSound
      <3>1. CoordInv => tree # NoContent BY DEF CoordInv, TypeOK, Content, NoContent
      <3> QED BY <3>1 DEF MatchInv, StaleCheckIsSound, Running
    <2> QED BY <2>1, <2>2, <2>3, Invariance, KnownInvariance, StampsHaveOwners, PTL
        DEF StampsAreSound, Spec
  <1> QED BY <1>1, <1>2

\* No search answers from a table of another embedding identity, where all tasks
\* live in one process or no restart configures one anew: a process that names
\* another identity may otherwise commit behind the check of a search
\* (src/app/search.rs's identity comparison).
THEOREM AnswersHaveIdentity ==
    ASSUME (\A t, u \in Task : Home[t] = Home[u]) \/ "reconfigure" \notin Faults
    PROVE  Spec => []AnswerHasIdentity
  <1>1. Init => SameIdentity /\ OwnInv
    BY ConstantTypes DEF Init, SameIdentity, OwnInv, OwnTable, Task
  <1>2. CoordInv /\ SameIdentity /\ [Next]_vars => SameIdentity'
    BY StepKinds, SameStep DEF CoordInv
  <1>3. CoordInv /\ KnownInv /\ SameIdentity /\ SameIdentity' /\ OwnInv /\ [Next]_vars => OwnInv'
    BY StepKinds, OwnStep DEF CoordInv
  <1>4. KnownInv /\ OwnInv => AnswerHasIdentity
    BY DEF KnownInv, AnswerInv, NoAnswer, OwnInv, AnswerHasIdentity
  <1> QED BY <1>1, <1>2, <1>3, <1>4, Invariance, KnownInvariance, PTL DEF Spec
==============================================================================
