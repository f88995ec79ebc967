------------------------- MODULE WatchAndClients_proofs -------------------------
(***************************************************************************)
(* The watcher registry keeps its promises for any registrations, clients, *)
(* jobs, contents and faults, and the breaker of a model service is fair   *)
(* for every number of calls, batches and attempts and every window.       *)
(***************************************************************************)
EXTENDS MCWatchAndClients, TLAPS

-----------------------------------------------------------------------------
(* The watchers of a workspace.                                            *)

USE RegistryAssumption DEF Content, NoContent, Fault

\* A pass that goes on after its second look has a change to commit: contents
\* only grow, and nobody else commits while it holds the write lock.
PassInv ==
    /\ manifest <= tree
    /\ \A j \in Job : job[j] = "running" => jobScan[j] \in Content /\ jobScan[j] <= tree
    /\ \A t \in Token : task[t] = "run" => manifest < tree
    /\ \A t \in Token : task[t] = "commit" =>
         current[t] \in Content /\ manifest < current[t] /\ current[t] <= tree

\* The registration a client relies on is not about to end by itself.
AnswerInv ==
    /\ answered # NoToken => exists
    /\ answered \notin late \cup {NoToken} =>
         watchers = answered /\ task[answered] # "leaving"

\* A token that has no task yet has not been cancelled.
FreshInv == \A t \in cancelled : task[t] # "unused"

\* A task that was cancelled before its pass asked never asks again.
EarlyInv == \A t \in early : t \in cancelled /\ task[t] \notin Committed

RegistryInv == /\ WatchTypeOK /\ WriterIsOne /\ RegistryExact
               /\ FreshInv /\ PassInv /\ AnswerInv /\ EarlyInv

-----------------------------------------------------------------------------
\* WatchInit establishes the invariant.
LEMMA RegistryInit == WatchInit => RegistryInv
<1> SUFFICES ASSUME WatchInit PROVE RegistryInv
  OBVIOUS
<1> USE DEF WatchInit
<1>1. WatchTypeOK
  BY SMTT(30) DEF WatchTypeOK, PCs, Committed
<1>2. WriterIsOne /\ RegistryExact /\ PassInv
  BY SMTT(30) DEF WriterIsOne, RegistryExact, PassInv, Writing, Live
<1>3. AnswerInv /\ EarlyInv /\ FreshInv
  BY Zenon DEF AnswerInv, EarlyInv, FreshInv
<1> QED
  BY <1>1, <1>2, <1>3 DEF RegistryInv

\* Every step keeps the types; a commit needs PassInv for what it saves.
LEMMA TypeStep == WatchTypeOK /\ PassInv /\ [WatchNext]_watchVars => WatchTypeOK'
<1> SUFFICES ASSUME WatchTypeOK, PassInv, [WatchNext]_watchVars PROVE WatchTypeOK'
  OBVIOUS
<1> USE DEF WatchTypeOK, PCs, Committed, Writing, histVars, envVars, regVars, jobVars, Goto, EndPass
<1>1. ASSUME NEW c \in Client, WatchResolves(c) \/ WatchAlready(c) \/ WatchRegisters(c)
      PROVE WatchTypeOK'
  BY <1>1, SMTT(30) DEF WatchResolves, WatchAlready, WatchRegisters
<1>2. CASE Unwatch
  BY <1>2, SMTT(30) DEF Unwatch
<1>3. ASSUME NEW t \in Token, TaskStep(t) PROVE WatchTypeOK'
  <2>1. CASE Stop(t) \/ Tick(t) \/ Scan(t) \/ ScanFindsNothing(t) \/ ScanFails(t)
    BY <2>1, SMTT(30) DEF Stop, Tick, Scan, ScanFindsNothing, ScanFails
  <2>2. CASE Compare(t) \/ Debounced(t) \/ Ask(t) \/ GiveUp(t) \/ Acquire(t) \/ Park(t)
    BY <2>2, SMTT(30) DEF Compare, Debounced, Ask, GiveUp, Acquire, Park
  <2>3. CASE Rescan(t) \/ RunScan(t) \/ RunCommit(t)
    BY <2>3, SMTT(30) DEF Rescan, RunScan, RunCommit, PassInv
  <2>4. CASE PassFails(t) \/ Leave(t)
    BY <2>4, SMTT(30) DEF PassFails, Leave
  <2> QED
    BY <1>3, <2>1, <2>2, <2>3, <2>4 DEF TaskStep
<1>4. ASSUME NEW j \in Job, JobStarts(j) \/ JobEnds(j) PROVE WatchTypeOK'
  BY <1>4, SMTT(30) DEF JobStarts, JobEnds, PassInv
<1>5. CASE Edit \/ Vanish \/ Reappear
  <2>1. exists' \in BOOLEAN
    BY <1>5, Zenon DEF Edit, Vanish, Reappear
  <2> QED
    BY <1>5, <2>1, SMTT(30) DEF Edit, Vanish, Reappear
<1>6. CASE UNCHANGED watchVars
  BY <1>6 DEF watchVars
<1> QED
  BY <1>1, <1>2, <1>3, <1>4, <1>5, <1>6 DEF WatchNext

\* The write lock is taken only when it is free, and every way out of a pass or
\* a job gives it back.
LEMMA WriterStep == WatchTypeOK /\ WriterIsOne /\ [WatchNext]_watchVars => WriterIsOne'
<1> SUFFICES ASSUME WatchTypeOK, WriterIsOne, [WatchNext]_watchVars PROVE WriterIsOne'
  OBVIOUS
<1> USE DEF WatchTypeOK, WriterIsOne, PCs, Committed, Writing, histVars, envVars, regVars, jobVars,
            Goto, EndPass
<1>1. ASSUME NEW c \in Client, WatchResolves(c) \/ WatchAlready(c) \/ WatchRegisters(c)
      PROVE WriterIsOne'
  BY <1>1, SMTT(30) DEF WatchResolves, WatchAlready, WatchRegisters
<1>2. CASE Unwatch
  BY <1>2, SMTT(30) DEF Unwatch
<1>3. ASSUME NEW t \in Token, TaskStep(t) PROVE WriterIsOne'
  <2>1. CASE Stop(t) \/ Tick(t) \/ Scan(t) \/ ScanFindsNothing(t) \/ ScanFails(t)
    BY <2>1, SMTT(30) DEF Stop, Tick, Scan, ScanFindsNothing, ScanFails
  <2>2. CASE Compare(t) \/ Debounced(t) \/ Ask(t) \/ GiveUp(t) \/ Acquire(t) \/ Park(t)
    BY <2>2, SMTT(30) DEF Compare, Debounced, Ask, GiveUp, Acquire, Park
  <2>3. CASE Rescan(t) \/ RunScan(t) \/ RunCommit(t)
    BY <2>3, SMTT(30) DEF Rescan, RunScan, RunCommit
  <2>4. CASE PassFails(t) \/ Leave(t)
    BY <2>4, SMTT(30) DEF PassFails, Leave
  <2> QED
    BY <1>3, <2>1, <2>2, <2>3, <2>4 DEF TaskStep
<1>4. ASSUME NEW j \in Job, JobStarts(j) \/ JobEnds(j) PROVE WriterIsOne'
  BY <1>4, SMTT(30) DEF JobStarts, JobEnds
<1>5. CASE Edit \/ Vanish \/ Reappear
  BY <1>5, SMTT(30) DEF Edit, Vanish, Reappear
<1>6. CASE UNCHANGED watchVars
  BY <1>6 DEF watchVars
<1> QED
  BY <1>1, <1>2, <1>3, <1>4, <1>5, <1>6 DEF WatchNext

\* unwatch cancels what it removes, and a task removes only itself.
LEMMA RegistryStep == WatchTypeOK /\ FreshInv /\ RegistryExact /\ [WatchNext]_watchVars
                       => FreshInv' /\ RegistryExact'
<1> SUFFICES ASSUME WatchTypeOK, FreshInv, RegistryExact, [WatchNext]_watchVars
             PROVE FreshInv' /\ RegistryExact'
  OBVIOUS
<1> USE DEF WatchTypeOK, FreshInv, RegistryExact, Live, PCs, Committed, Writing, histVars, envVars,
            regVars, jobVars, Goto, EndPass
<1>1. ASSUME NEW c \in Client, WatchResolves(c) \/ WatchAlready(c) \/ WatchRegisters(c)
      PROVE FreshInv' /\ RegistryExact'
  BY <1>1, SMTT(30) DEF WatchResolves, WatchAlready, WatchRegisters
<1>2. CASE Unwatch
  BY <1>2, SMTT(30) DEF Unwatch
<1>3. ASSUME NEW t \in Token, TaskStep(t) PROVE FreshInv' /\ RegistryExact'
  <2>1. CASE Stop(t) \/ Tick(t) \/ Scan(t) \/ ScanFindsNothing(t) \/ ScanFails(t)
    BY <2>1, SMTT(30) DEF Stop, Tick, Scan, ScanFindsNothing, ScanFails
  <2>2. CASE Compare(t) \/ Debounced(t) \/ Ask(t) \/ GiveUp(t) \/ Acquire(t) \/ Park(t)
    BY <2>2, SMTT(30) DEF Compare, Debounced, Ask, GiveUp, Acquire, Park
  <2>3. CASE Rescan(t) \/ RunScan(t) \/ RunCommit(t)
    BY <2>3, SMTT(30) DEF Rescan, RunScan, RunCommit
  <2>4. CASE PassFails(t) \/ Leave(t)
    BY <2>4, SMTT(30) DEF PassFails, Leave
  <2> QED
    BY <1>3, <2>1, <2>2, <2>3, <2>4 DEF TaskStep
<1>4. ASSUME NEW j \in Job, JobStarts(j) \/ JobEnds(j) PROVE FreshInv' /\ RegistryExact'
  BY <1>4, SMTT(30) DEF JobStarts, JobEnds
<1>5. CASE Edit \/ Vanish \/ Reappear
  BY <1>5, SMTT(30) DEF Edit, Vanish, Reappear
<1>6. CASE UNCHANGED watchVars
  BY <1>6 DEF watchVars
<1> QED
  BY <1>1, <1>2, <1>3, <1>4, <1>5, <1>6 DEF WatchNext

\* Between the second look and the commit nobody else commits.
LEMMA PassStep == WatchTypeOK /\ WriterIsOne /\ PassInv /\ [WatchNext]_watchVars => PassInv'
<1> SUFFICES ASSUME WatchTypeOK, WriterIsOne, PassInv, [WatchNext]_watchVars PROVE PassInv'
  OBVIOUS
<1> USE DEF WatchTypeOK, WriterIsOne, PassInv, PCs, Committed, Writing, histVars, envVars, regVars,
            jobVars, Goto, EndPass
<1>1. ASSUME NEW c \in Client, WatchResolves(c) \/ WatchAlready(c) \/ WatchRegisters(c)
      PROVE PassInv'
  BY <1>1, SMTT(30) DEF WatchResolves, WatchAlready, WatchRegisters
<1>2. CASE Unwatch
  BY <1>2, SMTT(30) DEF Unwatch
<1>3. ASSUME NEW t \in Token, TaskStep(t) PROVE PassInv'
  <2>1. CASE Stop(t) \/ Tick(t) \/ Scan(t) \/ ScanFindsNothing(t) \/ ScanFails(t)
    BY <2>1, SMTT(30) DEF Stop, Tick, Scan, ScanFindsNothing, ScanFails
  <2>2. CASE Compare(t) \/ Debounced(t) \/ Ask(t) \/ GiveUp(t) \/ Acquire(t) \/ Park(t)
    BY <2>2, SMTT(30) DEF Compare, Debounced, Ask, GiveUp, Acquire, Park
  <2>3. CASE Rescan(t)
    BY <2>3, SMTT(30) DEF Rescan
  <2>4. CASE RunScan(t)
    BY <2>4, SMTT(30) DEF RunScan
  <2>5. CASE RunCommit(t)
    BY <2>5, SMTT(30) DEF RunCommit
  <2>6. CASE PassFails(t) \/ Leave(t)
    BY <2>6, SMTT(30) DEF PassFails, Leave
  <2> QED
    BY <1>3, <2>1, <2>2, <2>3, <2>4, <2>5, <2>6 DEF TaskStep
<1>4. ASSUME NEW j \in Job, JobStarts(j) \/ JobEnds(j) PROVE PassInv'
  BY <1>4, SMTT(30) DEF JobStarts, JobEnds
<1>5. CASE Edit \/ Vanish \/ Reappear
  BY <1>5, SMTT(30) DEF Edit, Vanish, Reappear
<1>6. CASE UNCHANGED watchVars
  BY <1>6 DEF watchVars
<1> QED
  BY <1>1, <1>2, <1>3, <1>4, <1>5, <1>6 DEF WatchNext

\* A task starts to leave when it is cancelled, which ends the answer, or when
\* the directory is gone, which ended it before.
LEMMA AnswerStep == WatchTypeOK /\ RegistryExact /\ AnswerInv /\ [WatchNext]_watchVars => AnswerInv'
<1> SUFFICES ASSUME WatchTypeOK, RegistryExact, AnswerInv, [WatchNext]_watchVars PROVE AnswerInv'
  OBVIOUS
<1> USE DEF WatchTypeOK, RegistryExact, Live, AnswerInv, PCs, Committed, Writing, histVars, envVars,
            regVars, jobVars, Goto, EndPass
<1>1. ASSUME NEW c \in Client, WatchResolves(c) \/ WatchAlready(c) \/ WatchRegisters(c)
      PROVE AnswerInv'
  BY <1>1, SMTT(30) DEF WatchResolves, WatchAlready, WatchRegisters
<1>2. CASE Unwatch
  BY <1>2, SMTT(30) DEF Unwatch
<1>3. ASSUME NEW t \in Token, TaskStep(t) PROVE AnswerInv'
  <2>1. CASE Stop(t) \/ Tick(t) \/ Scan(t) \/ ScanFindsNothing(t) \/ ScanFails(t)
    BY <2>1, SMTT(30) DEF Stop, Tick, Scan, ScanFindsNothing, ScanFails
  <2>2. CASE Compare(t) \/ Debounced(t) \/ Ask(t) \/ GiveUp(t) \/ Acquire(t) \/ Park(t)
    BY <2>2, SMTT(30) DEF Compare, Debounced, Ask, GiveUp, Acquire, Park
  <2>3. CASE Rescan(t) \/ RunScan(t) \/ RunCommit(t)
    BY <2>3, SMTT(30) DEF Rescan, RunScan, RunCommit
  <2>4. CASE PassFails(t) \/ Leave(t)
    BY <2>4, SMTT(30) DEF PassFails, Leave
  <2> QED
    BY <1>3, <2>1, <2>2, <2>3, <2>4 DEF TaskStep
<1>4. ASSUME NEW j \in Job, JobStarts(j) \/ JobEnds(j) PROVE AnswerInv'
  BY <1>4, SMTT(30) DEF JobStarts, JobEnds
<1>5. CASE Edit \/ Vanish \/ Reappear
  BY <1>5, SMTT(30) DEF Edit, Vanish, Reappear
<1>6. CASE UNCHANGED watchVars
  BY <1>6 DEF watchVars
<1> QED
  BY <1>1, <1>2, <1>3, <1>4, <1>5, <1>6 DEF WatchNext

\* A cancelled task gets past its check only if it had passed it before.
LEMMA EarlyStep == WatchTypeOK /\ EarlyInv /\ [WatchNext]_watchVars => EarlyInv'
<1> SUFFICES ASSUME WatchTypeOK, EarlyInv, [WatchNext]_watchVars PROVE EarlyInv'
  OBVIOUS
<1> USE DEF WatchTypeOK, EarlyInv, PCs, Committed, Writing, histVars, envVars, regVars, jobVars,
            Goto, EndPass
<1>1. ASSUME NEW c \in Client, WatchResolves(c) \/ WatchAlready(c) \/ WatchRegisters(c)
      PROVE EarlyInv'
  BY <1>1, SMTT(30) DEF WatchResolves, WatchAlready, WatchRegisters
<1>2. CASE Unwatch
  BY <1>2, SMTT(30) DEF Unwatch
<1>3. ASSUME NEW t \in Token, TaskStep(t) PROVE EarlyInv'
  <2>1. CASE Stop(t) \/ Tick(t) \/ Scan(t) \/ ScanFindsNothing(t) \/ ScanFails(t)
    BY <2>1, SMTT(30) DEF Stop, Tick, Scan, ScanFindsNothing, ScanFails
  <2>2. CASE Compare(t) \/ Debounced(t) \/ Ask(t) \/ GiveUp(t) \/ Acquire(t) \/ Park(t)
    BY <2>2, SMTT(30) DEF Compare, Debounced, Ask, GiveUp, Acquire, Park
  <2>3. CASE Rescan(t) \/ RunScan(t) \/ RunCommit(t)
    BY <2>3, SMTT(30) DEF Rescan, RunScan, RunCommit
  <2>4. CASE PassFails(t) \/ Leave(t)
    BY <2>4, SMTT(30) DEF PassFails, Leave
  <2> QED
    BY <1>3, <2>1, <2>2, <2>3, <2>4 DEF TaskStep
<1>4. ASSUME NEW j \in Job, JobStarts(j) \/ JobEnds(j) PROVE EarlyInv'
  BY <1>4, SMTT(30) DEF JobStarts, JobEnds
<1>5. CASE Edit \/ Vanish \/ Reappear
  BY <1>5, SMTT(30) DEF Edit, Vanish, Reappear
<1>6. CASE UNCHANGED watchVars
  BY <1>6 DEF watchVars
<1> QED
  BY <1>1, <1>2, <1>3, <1>4, <1>5, <1>6 DEF WatchNext

-----------------------------------------------------------------------------
LEMMA RegistryNext == RegistryInv /\ [WatchNext]_watchVars => RegistryInv'
  BY TypeStep, WriterStep, RegistryStep, PassStep, AnswerStep, EarlyStep DEF RegistryInv

THEOREM RegistryInvariant == WatchSpec => []RegistryInv
  BY RegistryInit, RegistryNext, PTL DEF WatchSpec

\* Every variable keeps its type, and with it every task its phases.
THEOREM RegistryTypeCorrect == WatchSpec => []WatchTypeOK
<1>1. RegistryInv => WatchTypeOK
  BY DEF RegistryInv
<1> QED
  BY <1>1, RegistryInvariant, PTL

\* The registry names the one live task that is not cancelled, however old
\* tasks end while new registrations are made.
THEOREM RegistryIsExact == WatchSpec => []RegistryExact
<1>1. RegistryInv => RegistryExact
  BY DEF RegistryInv
<1> QED
  BY <1>1, RegistryInvariant, PTL

\* Passes and jobs hold the write lock one at a time.
THEOREM PassesAreExclusive == WatchSpec => []WriterIsOne
<1>1. RegistryInv => WriterIsOne
  BY DEF RegistryInv
<1> QED
  BY <1>1, RegistryInvariant, PTL

\* A pass commits nothing the index already has.
THEOREM PassesAreNeeded == WatchSpec => []NoRedundantRun
<1>1. RegistryInv => NoRedundantRun
  BY SMTT(30) DEF RegistryInv, WatchTypeOK, PassInv, NoRedundantRun
<1> QED
  BY <1>1, RegistryInvariant, PTL

\* A caller who is told that the workspace is watched can rely on it, unless
\* its task was leaving when it was told.
THEOREM AnswersHold == WatchSpec => []EarlyWatchAnswerHolds
<1>1. RegistryInv => EarlyWatchAnswerHolds
  BY DEF RegistryInv, AnswerInv, EarlyWatchAnswerHolds
<1> QED
  BY <1>1, RegistryInvariant, PTL

\* A pass unwatched before it asked for the last time commits nothing: it never
\* holds the write lock, so the step is somebody else's.
THEOREM UnwatchedPassesGiveUp == WatchSpec => UnwatchedPassGivesUp
<1>1. RegistryInv => \A t \in early : writer # t
  BY SMTT(30) DEF RegistryInv, WatchTypeOK, EarlyInv, WriterIsOne, Writing, Committed
<1> DEFINE Kept == \A t \in early : writer = t => manifest' = manifest
<1>2. RegistryInv /\ [WatchNext]_watchVars => [Kept]_watchVars
  BY <1>1
<1>3. UnwatchedPassGivesUp <=> [][Kept]_watchVars
  BY DEF UnwatchedPassGivesUp
<1> HIDE DEF Kept
<1> QED
  BY <1>2, <1>3, RegistryInvariant, PTL DEF WatchSpec

\* Every pass is owed, alone, and known to the registry.
THEOREM PassesMatch == WatchSpec => []PassesMatchTheRegistry
  BY RegistryIsExact, PassesAreNeeded, PassesAreExclusive, PTL DEF PassesMatchTheRegistry

-----------------------------------------------------------------------------
(* The calls of a model service.                                           *)

Trying == {"sending", "met", "sleeping", "reading"}

\* Who waits for one attempt only does not retry, and a retry sleeps with an
\* attempt left.
PolicyInv ==
    /\ \A c \in Searcher \cup probing :
         policy[c] = "FailFast" /\ tries[c] <= 1 /\ stage[c] # "sleeping"
    /\ \A c \in ModelCall : stage[c] = "sleeping" => tries[c] < MaxAttempts

\* A call that is still trying is at the request after those that were answered well.
BatchInv ==
    \A c \in ModelCall :
        /\ stage[c] \in Trying => batch[c] \in 1..Sends(c) /\ scored[c] = 1..(batch[c] - 1)
        /\ stage[c] = "answered" => scored[c] = 1..Sends(c)

ClientInv == ClientTypeOK /\ SkippedOnlyWhenRefused /\ PolicyInv /\ BatchInv

-----------------------------------------------------------------------------
LEMMA SendsBounded == \A c \in ModelCall : Sends(c) \in 1..Batches
  BY ClientsAreBounded DEF Sends

LEMMA ClientInitially == ClientInit => ClientInv
  BY ClientsAreBounded, SMTT(30)
     DEF ClientInit, ClientInv, ClientTypeOK, SkippedOnlyWhenRefused, PolicyInv, BatchInv,
         ModelCall, Ended, Trying

LEMMA ClientTypeStep == ClientInv /\ [ClientNext]_clientVars => ClientTypeOK'
<1> SUFFICES ASSUME ClientInv, [ClientNext]_clientVars PROVE ClientTypeOK'
  OBVIOUS
<1> USE ClientsAreBounded, SendsBounded DEF ClientInv, ClientTypeOK
<1>1. ASSUME NEW c \in ModelCall, CallSkips(c) PROVE ClientTypeOK'
  BY <1>1, SMTT(30) DEF CallSkips, Ended
<1>2. ASSUME NEW c \in ModelCall, CallBegins(c) PROVE ClientTypeOK'
  <2>1. PolicyOf(c) \in {"Retry", "FailFast"}
    BY DEF PolicyOf
  <2>2. stage' \in [ModelCall -> Ended \cup {"sending", "met", "sleeping", "reading"}]
    BY <1>2, Zenon DEF CallBegins
  <2>3. policy' \in [ModelCall -> {"Retry", "FailFast"}]
    BY <1>2, <2>1, Zenon DEF CallBegins
  <2>4. tries' \in [ModelCall -> 0..MaxAttempts] /\ batch' \in [ModelCall -> 0..Batches]
    BY <1>2, SMTT(30) DEF CallBegins
  <2>5. scored' \in [ModelCall -> SUBSET (1..Batches)]
    BY <1>2, Zenon DEF CallBegins
  <2>6. probing' \subseteq ModelCall
    BY <1>2 DEF CallBegins
  <2> QED
    BY <1>2, <2>2, <2>3, <2>4, <2>5, <2>6, Zenon DEF CallBegins
<1>3. ASSUME NEW c \in ModelCall, AttemptMeets(c) PROVE ClientTypeOK'
  BY <1>3, SMTT(30) DEF AttemptMeets, Faults
<1>4. ASSUME NEW c \in ModelCall, BacksOff(c) \/ HearsAnswer(c) PROVE ClientTypeOK'
  <2>1. stage' \in [ModelCall -> Ended \cup {"sending", "met", "sleeping", "reading"}]
    BY <1>4, Zenon DEF BacksOff, HearsAnswer
  <2>2. open' \in 0..Window
    BY <1>4, SMTT(30) DEF BacksOff, HearsAnswer
  <2> QED
    BY <1>4, <2>1, <2>2, Zenon DEF BacksOff, HearsAnswer
<1>5. ASSUME NEW c \in ModelCall, TriesAgain(c) PROVE ClientTypeOK'
  BY <1>5, SMTT(30) DEF TriesAgain, PolicyInv
<1>6. ASSUME NEW c \in ModelCall, CallFails(c) PROVE ClientTypeOK'
  BY <1>6, SMTT(30) DEF CallFails, Ended, Trips
<1>7. ASSUME NEW c \in ModelCall, CallReads(c) PROVE ClientTypeOK'
  <2>1. batch[c] \in 1..Sends(c) /\ Sends(c) \in 1..Batches /\ batch[c] \in 1..Batches
    BY <1>7, SMTT(30) DEF CallReads, BatchInv, Trying
  <2>2. stage' \in [ModelCall -> Ended \cup {"sending", "met", "sleeping", "reading"}]
    BY <1>7, Zenon DEF CallReads, Ended
  <2>3. tries' \in [ModelCall -> 0..MaxAttempts]
    BY <1>7, SMTT(30) DEF CallReads
  <2>4. batch' \in [ModelCall -> 0..Batches]
    <3>1. batch[c] < Sends(c) => batch[c] + 1 \in 0..Batches
      BY <2>1, SMTT(30)
    <3> QED
      BY <1>7, <3>1, Zenon DEF CallReads
  <2>5. scored' \in [ModelCall -> SUBSET (1..Batches)]
    <3>1. scored[c] \cup {batch[c]} \in SUBSET (1..Batches)
      BY <2>1, Zenon
    <3> QED
      BY <1>7, <3>1, Zenon DEF CallReads
  <2> QED
    BY <1>7, <2>2, <2>3, <2>4, <2>5, Zenon DEF CallReads
<1>8. ASSUME NEW c \in ModelCall, CallDropped(c) PROVE ClientTypeOK'
  BY <1>8, SMTT(30) DEF CallDropped, Ended
<1>9. ASSUME ClockTicks \/ ServiceTurns PROVE ClientTypeOK'
  <2>1. ASSUME ClockTicks PROVE open' \in 0..Window /\ refusedAgo' \in 0..Window
    BY <2>1, SMTT(30) DEF ClockTicks, WindowPasses
  <2>2. ASSUME ClockTicks PROVE ClientTypeOK'
    BY <2>1, <2>2, Zenon DEF ClockTicks
  <2>3. ASSUME ServiceTurns PROVE ClientTypeOK'
    BY <2>3, Zenon DEF ServiceTurns
  <2> QED
    BY <1>9, <2>2, <2>3
<1>10. ASSUME UNCHANGED clientVars PROVE ClientTypeOK'
  BY <1>10 DEF clientVars
<1> QED
  BY <1>1, <1>2, <1>3, <1>4, <1>5, <1>6, <1>7, <1>8, <1>9, <1>10 DEF ClientNext, CallGoesOn

LEMMA WindowStep == ClientInv /\ [ClientNext]_clientVars => SkippedOnlyWhenRefused'
<1> SUFFICES ASSUME ClientInv, [ClientNext]_clientVars PROVE SkippedOnlyWhenRefused'
  OBVIOUS
<1> USE ClientsAreBounded DEF ClientInv, ClientTypeOK, SkippedOnlyWhenRefused
<1>1. ASSUME NEW c \in ModelCall, CallFails(c) PROVE SkippedOnlyWhenRefused'
  BY <1>1, SMTT(30) DEF CallFails, Trips
<1>2. ASSUME NEW c \in ModelCall, HearsAnswer(c) PROVE SkippedOnlyWhenRefused'
  BY <1>2, SMTT(30) DEF HearsAnswer
<1>3. ASSUME ClockTicks PROVE SkippedOnlyWhenRefused'
  BY <1>3, SMTT(30) DEF ClockTicks, WindowPasses
<1>4. ASSUME UNCHANGED <<open, refusedAgo>> PROVE SkippedOnlyWhenRefused'
  BY <1>4
<1>5. ASSUME NEW c \in ModelCall,
             \/ CallSkips(c) \/ CallBegins(c) \/ AttemptMeets(c) \/ BacksOff(c)
             \/ TriesAgain(c) \/ CallReads(c) \/ CallDropped(c)
      PROVE UNCHANGED <<open, refusedAgo>>
  BY <1>5, Zenon
     DEF CallSkips, CallBegins, AttemptMeets, BacksOff, TriesAgain, CallReads, CallDropped
<1> QED
  BY <1>1, <1>2, <1>3, <1>4, <1>5 DEF ClientNext, CallGoesOn, ServiceTurns, clientVars

LEMMA PolicyStep == ClientInv /\ [ClientNext]_clientVars => PolicyInv'
<1> SUFFICES ASSUME ClientInv, [ClientNext]_clientVars PROVE PolicyInv'
  OBVIOUS
<1> USE ClientsAreBounded, ClientsAreApart DEF ClientInv, ClientTypeOK, PolicyInv, ModelCall
<1>1. ASSUME NEW c \in ModelCall, CallBegins(c) PROVE PolicyInv'
  BY <1>1, SMTT(30) DEF CallBegins, PolicyOf
<1>2. ASSUME NEW c \in ModelCall, BacksOff(c) PROVE PolicyInv'
  BY <1>2, SMTT(30) DEF BacksOff, Retries
<1>3. ASSUME NEW c \in ModelCall, TriesAgain(c) PROVE PolicyInv'
  BY <1>3, SMTT(30) DEF TriesAgain
<1>4. ASSUME NEW c \in ModelCall, CallReads(c) PROVE PolicyInv'
  BY <1>4, SMTT(30) DEF CallReads
<1>5. ASSUME NEW c \in ModelCall,
             CallSkips(c) \/ AttemptMeets(c) \/ HearsAnswer(c) \/ CallFails(c) \/ CallDropped(c)
      PROVE PolicyInv'
  BY <1>5, SMTT(30) DEF CallSkips, AttemptMeets, HearsAnswer, CallFails, CallDropped
<1>6. ASSUME ClockTicks \/ ServiceTurns \/ UNCHANGED clientVars PROVE PolicyInv'
  BY <1>6, SMTT(30) DEF ClockTicks, ServiceTurns, clientVars
<1> QED
  BY <1>1, <1>2, <1>3, <1>4, <1>5, <1>6, Zenon DEF ClientNext, CallGoesOn

LEMMA BatchStep == ClientInv /\ [ClientNext]_clientVars => BatchInv'
<1> SUFFICES ASSUME ClientInv, [ClientNext]_clientVars PROVE BatchInv'
  OBVIOUS
<1> USE SendsBounded DEF ClientInv, ClientTypeOK, BatchInv, Trying
<1>1. ASSUME NEW c \in ModelCall, CallBegins(c) PROVE BatchInv'
  BY <1>1, SMTT(30) DEF CallBegins, Sends
<1>2. ASSUME NEW c \in ModelCall, CallReads(c) PROVE BatchInv'
  <2>1. batch[c] \in 1..Sends(c) /\ scored[c] = 1..(batch[c] - 1) /\ Sends(c) \in 1..Batches
    BY <1>2, SMTT(30) DEF CallReads
  <2>2. scored[c] \cup {batch[c]} = 1..batch[c]
    BY <2>1, SMTT(30)
  <2>3. \A d \in ModelCall \ {c} :
          stage'[d] = stage[d] /\ batch'[d] = batch[d] /\ scored'[d] = scored[d]
    BY <1>2, SMTT(30) DEF CallReads
  <2>4. \A d \in ModelCall \ {c} :
          /\ stage'[d] \in Trying => batch'[d] \in 1..Sends(d) /\ scored'[d] = 1..(batch'[d] - 1)
          /\ stage'[d] = "answered" => scored'[d] = 1..Sends(d)
    BY <2>3, Zenon
  <2>5. /\ stage'[c] \in Trying => batch'[c] \in 1..Sends(c) /\ scored'[c] = 1..(batch'[c] - 1)
        /\ stage'[c] = "answered" => scored'[c] = 1..Sends(c)
    <3>1. \/ stage'[c] = "failed"
          \/ /\ stage'[c] = "sending" /\ batch[c] < Sends(c)
             /\ batch'[c] = batch[c] + 1 /\ scored'[c] = scored[c] \cup {batch[c]}
          \/ /\ stage'[c] = "answered" /\ ~(batch[c] < Sends(c))
             /\ scored'[c] = scored[c] \cup {batch[c]}
      BY <1>2, Zenon DEF CallReads
    <3>2. CASE stage'[c] = "failed"
      BY <3>2
    <3>3. CASE /\ stage'[c] = "sending" /\ batch[c] < Sends(c)
               /\ batch'[c] = batch[c] + 1 /\ scored'[c] = scored[c] \cup {batch[c]}
      <4>1. batch'[c] \in 1..Sends(c) /\ batch'[c] - 1 = batch[c]
        BY <3>3, <2>1, SMTT(30)
      <4> QED
        BY <3>3, <4>1, <2>2
    <3>4. CASE /\ stage'[c] = "answered" /\ ~(batch[c] < Sends(c))
               /\ scored'[c] = scored[c] \cup {batch[c]}
      <4>1. batch[c] = Sends(c)
        BY <3>4, <2>1, SMTT(30)
      <4> QED
        BY <3>4, <4>1, <2>2
    <3> QED
      BY <3>1, <3>2, <3>3, <3>4
  <2> QED
    BY <2>4, <2>5, Zenon DEF Sends
<1>3. ASSUME NEW c \in ModelCall,
             \/ CallSkips(c) \/ AttemptMeets(c) \/ BacksOff(c) \/ TriesAgain(c)
             \/ HearsAnswer(c) \/ CallFails(c) \/ CallDropped(c)
      PROVE BatchInv'
  BY <1>3, SMTT(30)
     DEF CallSkips, AttemptMeets, BacksOff, TriesAgain, HearsAnswer, CallFails, CallDropped, Sends
<1>4. ASSUME ClockTicks \/ ServiceTurns \/ UNCHANGED clientVars PROVE BatchInv'
  BY <1>4, SMTT(30) DEF ClockTicks, ServiceTurns, clientVars, Sends
<1> QED
  BY <1>1, <1>2, <1>3, <1>4, Zenon DEF ClientNext, CallGoesOn

THEOREM ClientInvariant == ClientSpec => []ClientInv
<1>1. ClientInv /\ [ClientNext]_clientVars => ClientInv'
  BY ClientTypeStep, WindowStep, PolicyStep, BatchStep DEF ClientInv
<1> QED
  BY <1>1, ClientInitially, PTL DEF ClientSpec

\* A search does without a service only within a window of its refusal, waits
\* for one attempt of it, and never ranks by half of its answer.
THEOREM BreakersAreFair == ClientSpec => []BreakerIsFair
<1>1. ClientInv => BreakerIsFair
  BY DEF ClientInv, BreakerIsFair, OneAttemptWhenDown, PolicyInv, RankedByAllOrNone, BatchInv
<1> QED
  BY <1>1, ClientInvariant, PTL

\* Every variable keeps its type.
THEOREM ClientTypeCorrect == ClientSpec => []ClientTypeOK
<1>1. ClientInv => ClientTypeOK
  BY DEF ClientInv
<1> QED
  BY <1>1, ClientInvariant, PTL

-----------------------------------------------------------------------------
(* The two side by side.                                                   *)

\* A behaviour of the two parts is, for each of them, one of its own.
THEOREM PartsAreTheirOwn == PartsSpec => WatchSpec /\ ClientSpec
<1>1. PartsInit => WatchInit /\ ClientInit
  BY DEF PartsInit
<1>2. [PartsNext]_<<part, watchVars, clientVars>> => [WatchNext]_watchVars /\ [ClientNext]_clientVars
  BY DEF PartsNext
<1> QED
  BY <1>1, <1>2, PTL DEF PartsSpec, WatchSpec, ClientSpec

\* Every variable of the watchers and of the calls keeps its type.
THEOREM PartsTypeCorrect == PartsSpec => []PartsTypeOK
<1>1. WatchTypeOK /\ ClientTypeOK => PartsTypeOK
  BY DEF PartsTypeOK
<1> QED
  BY <1>1, PartsAreTheirOwn, RegistryTypeCorrect, ClientTypeCorrect, PTL
=============================================================================
