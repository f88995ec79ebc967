-------------------------- MODULE ServiceParts_proofs --------------------------
(***************************************************************************)
(* The data-directory lock and the transport keep their promises for any   *)
(* calls, processes, requests and pipes; and side by side with the warm    *)
(* starts, each part of the service behaves as it does alone.              *)
(***************************************************************************)
EXTENDS MCServiceParts, WarmStarts_proofs, SequenceTheorems, TLAPS

-----------------------------------------------------------------------------
(* The data-directory lock.                                                *)
USE LockAssumption

\* A file is in one place at a time: with the thread, in the oneshot of a
\* caller that waits, or with a caller that holds it.
PlaceInv ==
    /\ \A c \in sent : call[c] = "waiting" /\ thread[c] = "gone"
    /\ \A c \in Caller : call[c] = "holding" => thread[c] = "gone"
    /\ \A c \in Caller : call[c] = "idle" => thread[c] = "none"
    /\ \A c \in Caller : thread[c] = "none" => call[c] \in {"idle", "over"}

KeeperInv == LockTypeOK /\ PlaceInv /\ LockHasKeeper

-----------------------------------------------------------------------------
\* LockInit establishes the invariant.
LEMMA KeeperInit == LockInit => KeeperInv
  BY SMTT(30) DEF LockInit, KeeperInv, LockTypeOK, PlaceInv, LockHasKeeper

\* Every step keeps it: whoever lets go of a file either hands it on or drops it.
LEMMA KeeperNext == KeeperInv /\ [LockNext]_lockVars => KeeperInv'
<1> SUFFICES ASSUME KeeperInv, [LockNext]_lockVars PROVE KeeperInv'
  OBVIOUS
<1> USE DEF KeeperInv, LockTypeOK, PlaceInv, LockHasKeeper, Ends, Moves, DropFile
<1>1. ASSUME NEW c \in Caller, AskForLock(c) \/ AskFails(c) PROVE KeeperInv'
  BY <1>1, SMTT(30) DEF AskForLock, AskFails
<1>2. ASSUME NEW c \in Caller, Receive(c) PROVE KeeperInv'
  BY <1>2, SMTT(30) DEF Receive
<1>3. ASSUME NEW c \in Caller, StopWaiting(c) PROVE KeeperInv'
  BY <1>3, SMTT(30) DEF StopWaiting
<1>4. ASSUME NEW c \in Caller, Release(c) PROVE KeeperInv'
  BY <1>4, SMTT(30) DEF Release
<1>5. ASSUME NEW c \in Caller, TryLock(c) \/ Lock(c) PROVE KeeperInv'
  BY <1>5, SMTT(30) DEF TryLock, Lock
<1>6. ASSUME NEW c \in Caller, Send(c) \/ SendUnwanted(c) PROVE KeeperInv'
  BY <1>6, SMTT(30) DEF Send, SendUnwanted
<1>7. ASSUME NEW c \in Caller, LockFails(c) PROVE KeeperInv'
  BY <1>7, SMTT(30) DEF LockFails
<1>8. ASSUME NEW c \in Caller, ProcessExits(Home[c]) PROVE KeeperInv'
  BY <1>8, SMTT(30) DEF ProcessExits
<1>9. CASE UNCHANGED lockVars
  BY <1>9, SMTT(30) DEF lockVars
<1> QED
  BY <1>1, <1>2, <1>3, <1>4, <1>5, <1>6, <1>7, <1>8, <1>9 DEF LockNext, ThreadStep

THEOREM KeeperInvariant == LockSpec => []KeeperInv
  BY KeeperInit, KeeperNext, PTL DEF LockSpec

\* Every variable keeps its type.
THEOREM LockTypeCorrect == LockSpec => []LockTypeOK
<1>1. KeeperInv => LockTypeOK
  BY DEF KeeperInv
<1> QED
  BY <1>1, KeeperInvariant, PTL

\* The OS lock is never left with nobody to give it back.
THEOREM LockIsKept == LockSpec => []LockHasKeeper
<1>1. KeeperInv => LockHasKeeper
  BY DEF KeeperInv
<1> QED
  BY <1>1, KeeperInvariant, PTL

-----------------------------------------------------------------------------
\* A step of the mechanism is a step of the promise, or none: only taking the
\* file from the oneshot takes the promised lock, and then the OS lock is
\* one's own, so nobody else holds.
LEMMA LockStep == KeeperInv /\ [LockNext]_lockVars => [Promise!Next]_(Promise!lockVars)
<1> SUFFICES ASSUME KeeperInv, [LockNext]_lockVars
             PROVE  [Promise!Next]_(Promise!lockVars)
  OBVIOUS
<1> USE DEF Promise!Next, Ends, At, KeeperInv, LockTypeOK
<1>1. ASSUME NEW c \in Caller, AskForLock(c) PROVE Promise!Ask(c)
  BY <1>1, SMTT(30) DEF AskForLock, Promise!Ask
<1>2. ASSUME NEW c \in Caller, Receive(c) PROVE Promise!Take(c)
  <2>1. call[c] = "waiting" /\ c \in sent /\ call' = [call EXCEPT ![c] = "holding"]
    BY <1>2 DEF Receive
  <2>2. \A d \in Caller : call[d] # "holding"
    BY <2>1 DEF LockHasKeeper
  <2> QED
    BY <2>1, <2>2, SMTT(30) DEF Promise!Take
<1>3. ASSUME NEW c \in Caller, AskFails(c) \/ StopWaiting(c) \/ Release(c) PROVE Promise!End(c)
  BY <1>3, SMTT(30) DEF AskFails, StopWaiting, Release, Promise!End, Promise!Leave
<1>4. ASSUME NEW c \in Caller, ThreadStep(c) PROVE UNCHANGED call
  BY <1>4 DEF ThreadStep, TryLock, Lock, Send, SendUnwanted
<1>5. ASSUME NEW c \in Caller, LockFails(c) PROVE Promise!End(c) \/ UNCHANGED call
  BY <1>5, SMTT(30) DEF LockFails, Promise!End, Promise!Leave
<1>6. ASSUME NEW c \in Caller, ProcessExits(Home[c]) PROVE Promise!Exit(Home[c])
  BY <1>6, SMTT(30) DEF ProcessExits, Promise!Exit, Promise!Leave
<1>7. UNCHANGED lockVars => UNCHANGED call
  BY DEF lockVars
<1>8. UNCHANGED call => UNCHANGED Promise!lockVars
  BY DEF Promise!lockVars
<1> HIDE DEF Promise!Next
<1>9. LockNext => Promise!Next \/ UNCHANGED call
  BY <1>1, <1>2, <1>3, <1>4, <1>5, <1>6 DEF LockNext, Promise!Next
<1> QED
  BY <1>7, <1>8, <1>9

\* The thread, the oneshot and the OS lock together are the lock that the
\* function promises its callers.
THEOREM DataDirLockImplements == LockSpec => ImplementsIndexLock
<1>1. LockInit => Promise!Init
  BY DEF LockInit, At, Promise!Init
<1>2. ImplementsIndexLock <=> Promise!Init /\ [][Promise!Next]_(Promise!lockVars)
  BY DEF ImplementsIndexLock, Promise!Spec
<1> QED
  BY <1>1, <1>2, LockStep, KeeperInvariant, PTL DEF LockSpec
-----------------------------------------------------------------------------
(* The transport.                                                          *)

OutMessage == {"note", "ask", "bad", "answer"} \X (Rpc \cup {NoWrite})

\* The pipes hold frames of the client and messages of the server.
PipesInv == inbox \in Seq(WriteJob) /\ outbox \in Seq(OutMessage)

\* A request's outcome is in `pending` or in its oneshot, never in both, from
\* its registration until it ends.
OutcomeInv ==
    /\ got \cap pending = {}
    /\ \A r \in Rpc : rpc[r] = "idle" => r \notin got \cup pending
    /\ \A r \in Rpc : rpc[r] \in {"check", "writing", "waiting"} => r \in got \cup pending
    /\ \A r \in undoing : rpc[r] = "ended"

\* The reader waits for the one reply that it writes, and has said that it stops
\* before it fails the requests.
ReaderInv ==
    /\ Reply \in jobs \/ pen = Reply \/ Reply \in overdue => reader = "replies"
    /\ ~(Reply \in jobs /\ pen = Reply) /\ ~(Reply \in jobs /\ Reply \in overdue)
    /\ ~(pen = Reply /\ Reply \in overdue)
    /\ reader \in {"draining", "stopped"} => flagged
    /\ reader = "delivers" => answering \in Rpc

\* Who left half a frame has not stored `broken` yet, or it is stored.
TornInv == torn => broken \/ overdue # {}

TransportInv == RpcTypeOK /\ PipesInv /\ OutcomeInv /\ ReaderInv /\ TornInv /\ NoneIsForgotten

LEMMA Jobs ==
    /\ Reply \in WriteJob /\ ExitNote \in WriteJob /\ Reply # ExitNote /\ NoWrite \notin WriteJob
    /\ \A r \in Rpc : /\ AskOf(r) \in WriteJob /\ CancelOf(r) \in WriteJob
                      /\ AskOf(r) # Reply /\ CancelOf(r) # Reply
  BY TransportAssumption DEF WriteJob, Reply, ExitNote, AskOf, CancelOf

LEMMA TransportInit == RpcInit => TransportInv
<1> SUFFICES ASSUME RpcInit PROVE TransportInv
  OBVIOUS
<1> USE TransportAssumption, Jobs DEF RpcInit
<1>1. PipesInv
  BY EmptySeq DEF PipesInv
<1>2. RpcTypeOK
  <2>1. broken \in BOOLEAN /\ torn \in BOOLEAN /\ flagged \in BOOLEAN /\ alive \in BOOLEAN
    BY Zenon
  <2>2. Len(inbox) = 0 /\ Len(outbox) = 0
    BY EmptySeq
  <2> QED
    BY <2>1, <2>2, SMTT(30) DEF RpcTypeOK
<1>3. OutcomeInv /\ ReaderInv /\ TornInv
  BY SMTT(30) DEF OutcomeInv, ReaderInv, TornInv
<1>4. NoneIsForgotten
  BY SMTT(30) DEF NoneIsForgotten, NoEntryIsOrphaned, NoneWaitsOnADeadReader, ShutdownEndsTheServer
<1> QED
  BY <1>1, <1>2, <1>3, <1>4 DEF TransportInv

\* What a step does to one of the pipes.
LEMMA PipeStep ==
    RpcTypeOK /\ PipesInv /\ [RpcNext]_rpcVars =>
        /\ PipesInv'
        /\ Len(inbox') <= InCap /\ Len(outbox') <= OutCap
        /\ \A i \in 1..Len(inbox') : inbox'[i] \in WriteJob
<1> SUFFICES ASSUME RpcTypeOK, PipesInv, [RpcNext]_rpcVars
             PROVE  PipesInv' /\ Len(inbox') <= InCap /\ Len(outbox') <= OutCap
  <2>1. PipesInv' => \A i \in 1..Len(inbox') : inbox'[i] \in WriteJob
    BY ElementOfSeq DEF PipesInv
  <2> QED
    BY <2>1
<1> USE TransportAssumption DEF RpcTypeOK, PipesInv, callerVars, writerVars, readerVars, serverVars
<1>1. ASSUME NEW j \in WriteJob, WriteEnds(j) PROVE inbox' \in {inbox, Append(inbox, j)} /\ (inbox' # inbox => Len(inbox) < InCap) /\ outbox' = outbox
  BY <1>1 DEF WriteEnds
<1>2. ASSUME inbox # <<>>, inbox' = Tail(inbox) PROVE inbox' \in Seq(WriteJob) /\ Len(inbox') <= InCap
  BY <1>2, HeadTailProperties, LenProperties
<1>3. ASSUME outbox # <<>>, outbox' = Tail(outbox) PROVE outbox' \in Seq(OutMessage) /\ Len(outbox') <= OutCap
  BY <1>3, HeadTailProperties, LenProperties
<1>4. ASSUME NEW j \in WriteJob, Len(inbox) < InCap, inbox' = Append(inbox, j) PROVE inbox' \in Seq(WriteJob) /\ Len(inbox') <= InCap
  BY <1>4, AppendProperties, LenProperties
<1>5. ASSUME NEW m \in OutMessage, Len(outbox) < OutCap, outbox' = Append(outbox, m) PROVE outbox' \in Seq(OutMessage) /\ Len(outbox') <= OutCap
  BY <1>5, AppendProperties, LenProperties
<1>6. \A m \in {"note", "ask", "bad"} : <<m, NoWrite>> \in OutMessage
  BY DEF OutMessage
<1>7. \A r \in Rpc : <<"answer", r>> \in OutMessage
  BY DEF OutMessage
<1>8. CASE UNCHANGED <<inbox, outbox>>
  BY <1>8
<1>9. CASE \E j \in WriteJob : WriteEnds(j)
  BY <1>9, <1>1, <1>4
<1>10. CASE ServerTakes
  BY <1>10, <1>2 DEF ServerTakes
<1>11. CASE ServerSays
  <2>1. inbox' = inbox /\ Len(outbox) < OutCap
    BY <1>11 DEF ServerSays
  <2>2. \E m \in OutMessage : outbox' = Append(outbox, m)
    BY <1>6, <1>7, <1>11 DEF ServerSays
  <2> QED
    BY <2>1, <2>2, <1>5
<1>12. CASE inbox' = inbox /\ outbox # <<>> /\ outbox' = Tail(outbox)
  BY <1>12, <1>3
<1>13. ASSUME NEW r \in Rpc, CallerStep(r) PROVE UNCHANGED <<inbox, outbox>>
  BY <1>13 DEF CallerStep, RequestRegisters, ChecksReader, Receives, TimerEnds, GivesUp, Abandons, Undoes
<1>14. ASSUME NEW j \in WriteJob, WriterStep(j) PROVE WriteEnds(j) \/ UNCHANGED <<inbox, outbox>>
  BY <1>14 DEF WriterStep, TakesPen, WritesFrame, WriteTimesOut, Breaks
<1>15. CASE ReaderStep
  BY <1>15, <1>8, <1>12 DEF ReaderStep, ReadsNote, ReadsAsk, ReadsAnswer, Delivers, ReaderStops, ReaderFlags, ReaderDrains, Reads
<1>16. CASE ShutdownExits \/ CloserStep \/ ServerExits \/ UNCHANGED rpcVars
  BY <1>16, <1>8 DEF ShutdownExits, CloserStep, ExitWriteBoundPasses, ShutdownEnds, ServerExits, rpcVars
<1> QED
  BY <1>8, <1>9, <1>10, <1>11, <1>13, <1>14, <1>15, <1>16 DEF RpcNext, ServerStep

\* Every step keeps the types.
LEMMA RpcTypeStep == RpcTypeOK /\ PipesInv /\ [RpcNext]_rpcVars => RpcTypeOK'
<1> SUFFICES ASSUME RpcTypeOK, PipesInv, [RpcNext]_rpcVars PROVE RpcTypeOK'
  OBVIOUS
<1>p. Len(inbox') <= InCap /\ Len(outbox') <= OutCap /\ \A i \in 1..Len(inbox') : inbox'[i] \in WriteJob
  BY PipeStep
<1> USE TransportAssumption, Jobs, <1>p DEF RpcTypeOK, Stands, callerVars, writerVars, readerVars, serverVars
<1>0. inbox # <<>> /\ Head(inbox)[1] \in {"request", "cancel"} => Head(inbox)[2] \in Rpc
  <2>1. inbox # <<>> => Head(inbox) \in WriteJob
    BY HeadTailProperties DEF PipesInv
  <2> QED
    BY <2>1, SMTT(30) DEF WriteJob, Reply, ExitNote
<1>1. ASSUME NEW r \in Rpc, RequestRegisters(r) PROVE RpcTypeOK'
  BY <1>1, SMTT(30) DEF RequestRegisters
<1>2. ASSUME NEW r \in Rpc, ChecksReader(r) PROVE RpcTypeOK'
  BY <1>2, SMTT(30) DEF ChecksReader
<1>3. ASSUME NEW r \in Rpc, Receives(r) \/ TimerEnds(r) \/ GivesUp(r) PROVE RpcTypeOK'
  BY <1>3, SMTT(30) DEF Receives, TimerEnds, GivesUp
<1>4. ASSUME NEW r \in Rpc, Abandons(r) \/ Undoes(r) PROVE RpcTypeOK'
  BY <1>4, SMTT(30) DEF Abandons, Undoes
<1>5. ASSUME NEW j \in WriteJob, TakesPen(j) PROVE RpcTypeOK'
  BY <1>5, SMTT(30) DEF TakesPen, WritesFrame, Takes, Settles
<1>6. ASSUME NEW j \in WriteJob, WriteEnds(j) PROVE RpcTypeOK'
  BY <1>6, SMTT(30) DEF WriteEnds, Settles
<1>7. ASSUME NEW j \in WriteJob, WriteTimesOut(j) PROVE RpcTypeOK'
  BY <1>7, SMTT(30) DEF WriteTimesOut
<1>8. ASSUME NEW j \in WriteJob, Breaks(j) PROVE RpcTypeOK'
  BY <1>8, SMTT(30) DEF Breaks, Settles
<1>9. CASE ReadsNote \/ ReadsAsk
  BY <1>9, SMTT(30) DEF ReadsNote, ReadsAsk, Reads, Hears
<1>10. ASSUME NEW r \in Rpc, ReadsAnswer(r) PROVE RpcTypeOK'
  BY <1>10, SMTT(30) DEF ReadsAnswer, Reads, Hears
<1>11. CASE Delivers
  BY <1>11, SMTT(30) DEF Delivers
<1>12. CASE ReaderStops \/ ReaderFlags \/ ReaderDrains
  <2>1. CASE ReaderStops
    BY <2>1, SMTT(30) DEF ReaderStops, Reads
  <2>2. CASE ReaderFlags
    BY <2>2, SMTT(30) DEF ReaderFlags
  <2>3. CASE ReaderDrains
    BY <2>3, SMTT(30) DEF ReaderDrains
  <2> QED
    BY <1>12, <2>1, <2>2, <2>3
<1>13. CASE ShutdownExits \/ CloserStep
  <2>1. CASE ShutdownExits
    BY <2>1, SMTT(30) DEF ShutdownExits
  <2>2. CASE ExitWriteBoundPasses
    BY <2>2, SMTT(30) DEF ExitWriteBoundPasses
  <2>3. CASE ShutdownEnds
    <3>1. alive' \in BOOLEAN
      BY <2>3, Zenon DEF ShutdownEnds
    <3> QED
      BY <2>3, <3>1, SMTT(30) DEF ShutdownEnds
  <2> QED
    BY <1>13, <2>1, <2>2, <2>3 DEF CloserStep
<1>14. CASE ServerStep
  <2>1. CASE ServerTakes
    BY <2>1, <1>0, SMTT(30) DEF ServerTakes
  <2>2. CASE ServerSays
    BY <2>2, SMTT(30) DEF ServerSays
  <2>3. CASE ServerExits
    <3>1. alive' \in BOOLEAN
      BY <2>3, Zenon DEF ServerExits
    <3> QED
      BY <2>3, <3>1, SMTT(30) DEF ServerExits
  <2> QED
    BY <1>14, <2>1, <2>2, <2>3 DEF ServerStep
<1>15. CASE UNCHANGED rpcVars
  BY <1>15, SMTT(30) DEF rpcVars
<1> QED
  BY <1>1, <1>2, <1>3, <1>4, <1>5, <1>6, <1>7, <1>8, <1>9, <1>10, <1>11, <1>12, <1>13, <1>14, <1>15
     DEF RpcNext, CallerStep, WriterStep, ReaderStep

\* Every step keeps what the requests, the reader and the writes rely on.
LEMMA PartsStep ==
    RpcTypeOK /\ OutcomeInv /\ ReaderInv /\ TornInv /\ NoneIsForgotten /\ [RpcNext]_rpcVars =>
        (OutcomeInv /\ ReaderInv /\ TornInv /\ NoneIsForgotten)'
<1> SUFFICES ASSUME RpcTypeOK, OutcomeInv, ReaderInv, TornInv, NoneIsForgotten, [RpcNext]_rpcVars
             PROVE  (OutcomeInv /\ ReaderInv /\ TornInv /\ NoneIsForgotten)'
  OBVIOUS
<1> USE TransportAssumption, Jobs DEF RpcTypeOK, OutcomeInv, ReaderInv, TornInv, NoneIsForgotten,
        NoEntryIsOrphaned, NoneWaitsOnADeadReader, ShutdownEndsTheServer, Stands,
        callerVars, writerVars, readerVars, serverVars
<1>1. ASSUME NEW r \in Rpc, RequestRegisters(r) PROVE (OutcomeInv /\ ReaderInv /\ TornInv /\ NoneIsForgotten)'
  BY <1>1, SMTT(30) DEF RequestRegisters
<1>2. ASSUME NEW r \in Rpc, ChecksReader(r) PROVE (OutcomeInv /\ ReaderInv /\ TornInv /\ NoneIsForgotten)'
  BY <1>2, SMTT(30) DEF ChecksReader
<1>3. ASSUME NEW r \in Rpc, Receives(r) \/ TimerEnds(r) \/ GivesUp(r) PROVE (OutcomeInv /\ ReaderInv /\ TornInv /\ NoneIsForgotten)'
  BY <1>3, SMTT(30) DEF Receives, TimerEnds, GivesUp
<1>4. ASSUME NEW r \in Rpc, Abandons(r) \/ Undoes(r) PROVE (OutcomeInv /\ ReaderInv /\ TornInv /\ NoneIsForgotten)'
  BY <1>4, SMTT(30) DEF Abandons, Undoes
<1>5. ASSUME NEW j \in WriteJob, TakesPen(j) PROVE (OutcomeInv /\ ReaderInv /\ TornInv /\ NoneIsForgotten)'
  BY <1>5, SMTT(30) DEF TakesPen, WritesFrame, Takes, Settles
<1>6. ASSUME NEW j \in WriteJob, WriteEnds(j) PROVE (OutcomeInv /\ ReaderInv /\ TornInv /\ NoneIsForgotten)'
  BY <1>6, SMTT(30) DEF WriteEnds, Settles
<1>7. ASSUME NEW j \in WriteJob, WriteTimesOut(j) PROVE (OutcomeInv /\ ReaderInv /\ TornInv /\ NoneIsForgotten)'
  BY <1>7, SMTT(30) DEF WriteTimesOut
<1>8. ASSUME NEW j \in WriteJob, Breaks(j) PROVE (OutcomeInv /\ ReaderInv /\ TornInv /\ NoneIsForgotten)'
  BY <1>8, SMTT(30) DEF Breaks, Settles
<1>9. CASE ReadsNote \/ ReadsAsk
  BY <1>9, SMTT(30) DEF ReadsNote, ReadsAsk, Reads, Hears
<1>10. ASSUME NEW r \in Rpc, ReadsAnswer(r) PROVE (OutcomeInv /\ ReaderInv /\ TornInv /\ NoneIsForgotten)'
  BY <1>10, SMTT(30) DEF ReadsAnswer, Reads, Hears
<1>11. CASE Delivers
  BY <1>11, SMTT(30) DEF Delivers
<1>12. CASE ReaderStops \/ ReaderFlags \/ ReaderDrains
  BY <1>12, SMTT(30) DEF ReaderStops, ReaderFlags, ReaderDrains, Reads
<1>13. CASE ShutdownExits \/ CloserStep
  BY <1>13, SMTT(30) DEF ShutdownExits, CloserStep, ExitWriteBoundPasses, ShutdownEnds
<1>14. CASE ServerStep
  BY <1>14, SMTT(30) DEF ServerStep, ServerTakes, ServerSays, ServerExits
<1>15. CASE UNCHANGED rpcVars
  BY <1>15, SMTT(30) DEF rpcVars
<1> QED
  BY <1>1, <1>2, <1>3, <1>4, <1>5, <1>6, <1>7, <1>8, <1>9, <1>10, <1>11, <1>12, <1>13, <1>14, <1>15
     DEF RpcNext, CallerStep, WriterStep, ReaderStep

LEMMA TransportStep == TransportInv /\ [RpcNext]_rpcVars => TransportInv'
  BY PipeStep, RpcTypeStep, PartsStep DEF TransportInv

THEOREM TransportInvariant == RpcSpec => []TransportInv
  BY TransportInit, TransportStep, PTL DEF RpcSpec
\* Every variable keeps its type.
THEOREM RpcTypeCorrect == RpcSpec => []RpcTypeOK
<1>1. TransportInv => RpcTypeOK
  BY DEF TransportInv
<1> QED
  BY <1>1, TransportInvariant, PTL

\* Whoever goes away, no entry of `pending` is left without somebody who takes
\* it out, no request waits on a reader that has stopped, and no server
\* outlives its shutdown.
THEOREM TransportForgetsNone == RpcSpec => []NoneIsForgotten
<1>1. TransportInv => NoneIsForgotten
  BY DEF TransportInv
<1> QED
  BY <1>1, TransportInvariant, PTL

\* No write takes the pen after half a frame, but in the moment before the
\* failed write has stored its note.
THEOREM NothingFollowsAHalfFrame == RpcSpec => NothingAfterAHalfFrame
<1>1. TransportInv /\ [RpcNext]_rpcVars =>
        [pen' # pen /\ pen' # NoWrite => ~torn \/ overdue # {}]_rpcVars
  <2> SUFFICES ASSUME TransportInv, RpcNext, pen' # pen, pen' # NoWrite PROVE ~torn \/ overdue # {}
    OBVIOUS
  <2>1. ASSUME NEW j \in WriteJob, WriterStep(j) PROVE ~broken
    <3>1. WriteEnds(j) \/ WriteTimesOut(j) => pen' \in {pen, NoWrite}
      BY DEF WriteEnds, WriteTimesOut
    <3>2. Breaks(j) => pen' = pen
      BY Zenon DEF Breaks
    <3>3. TakesPen(j) => ~broken \/ pen' = pen
      BY Zenon DEF TakesPen, WritesFrame
    <3> QED
      BY <2>1, <3>1, <3>2, <3>3 DEF WriterStep
  <2>2. ASSUME NEW r \in Rpc, CallerStep(r) PROVE FALSE
    BY <2>2 DEF CallerStep, RequestRegisters, ChecksReader, Receives, TimerEnds, GivesUp, Abandons, Undoes, writerVars
  <2>3. CASE ReaderStep
    BY <2>3 DEF ReaderStep, ReadsNote, ReadsAsk, ReadsAnswer, Delivers, ReaderStops, ReaderFlags, ReaderDrains, writerVars
  <2>4. CASE ShutdownExits \/ CloserStep \/ ServerStep
    BY <2>4 DEF ShutdownExits, CloserStep, ExitWriteBoundPasses, ShutdownEnds, ServerStep, ServerTakes, ServerSays,
                ServerExits, writerVars
  <2> QED
    BY <2>1, <2>2, <2>3, <2>4 DEF RpcNext, TransportInv, TornInv
<1> QED
  BY <1>1, TransportInvariant, PTL DEF RpcSpec, NothingAfterAHalfFrame

-----------------------------------------------------------------------------
(* The parts side by side.                                                 *)

\* A behaviour of the three parts is, for each of them, one of its own: the
\* steps of the other parts leave its variables alone.
THEOREM PartsAreTheirOwn == PartsSpec => LockSpec /\ WarmSpec /\ RpcSpec
<1>1. PartsInit => LockInit /\ WarmInit /\ RpcInit
  BY DEF PartsInit
<1>2. [PartsNext]_<<part, lockVars, startVars, rpcVars>> =>
        [LockNext]_lockVars /\ [WarmNext]_startVars /\ [RpcNext]_rpcVars
  BY DEF PartsNext
<1> QED
  BY <1>1, <1>2, PTL DEF PartsSpec, LockSpec, WarmSpec, RpcSpec

\* Every variable of the three parts keeps its type, whichever of them runs.
THEOREM PartsTypeCorrect == PartsSpec => []PartsTypeOK
<1>1. LockTypeOK /\ WarmTypeOK /\ RpcTypeOK => PartsTypeOK
  BY DEF PartsTypeOK
<1> QED
  BY <1>1, PartsAreTheirOwn, LockTypeCorrect, WarmTypeCorrect, RpcTypeCorrect, PTL
=============================================================================
