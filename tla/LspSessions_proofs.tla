------------------------- MODULE LspSessions_proofs -------------------------
(***************************************************************************)
(* Safety of the session manager for any callers, workspaces, providers,   *)
(* sessions and edits.                                                     *)
(***************************************************************************)
EXTENDS LspSessions, TLAPS

USE SessionsAssumption DEF Key

CallerStep(c) ==
    Call(c) \/ Barrier(c) \/ Acquire(c) \/ Sends(c) \/ Cancel(c) \/ ReleaseForgets(c) \/ ReleaseRemoves(c)

Sending == {"starting", "sent", "unmark", "mark", "check", "discard"}
InBarrier == {"decide", "stop", "record"}

\* What the steps of a call rely on: its key, and the session it waits for or
\* asks.
CallInv == \A c \in Caller : /\ ~At(c, "idle") => key[c] \in Key
                             /\ pc[c] \in Sending <=> mine[c] # None

\* The barriers of a workspace take turns, and no two callers are ever between
\* the stamp and the record of one key.
LockInv == \A c \in Caller : pc[c] \in InBarrier => serial[key[c][1]] = c

\* What a barrier recorded or is about to record is never newer than the tree,
\* and what it is about to record is never older than the record.
StampInv ==
    /\ \A k \in Key : stamps[k] # None => stamps[k] <= tree
    /\ \A c \in Caller : passed[c] <= tree /\ (pc[c] \in {"idle", "lock", "remove"} => passed[c] = 0)
    /\ \A c \in Caller : pc[c] \in InBarrier /\ stamp[c] # None =>
         stamp[c] = passed[c]
    /\ \A c \in Caller : pc[c] \in InBarrier /\ stamps[key[c]] # None => stamps[key[c]] <= passed[c]

\* A session that anybody can reach has not been given back.
HeldInv == \A s \in Session : Held(s) => server[s] # "free"

\* The registered session is never older than the record of its key, nor than
\* what a caller that passed the barrier was promised.
FreshInv ==
    /\ \A k \in Key : registry[k] # None /\ stamps[k] # None => seen[registry[k]] >= stamps[k]
    /\ \A c \in Caller : pc[c] \notin {"idle", "decide", "stop"} /\ Current(c) # None =>
         seen[Current(c)] >= passed[c]

-----------------------------------------------------------------------------
\* What a removal does to the registry, and what it leaves alone.
LEMMA RemovesFacts ==
    ASSUME TypeOK, NEW keys \in SUBSET Key, Removes(keys)
    PROVE  /\ \A k \in Key : registry'[k] \in {registry[k], None}
           /\ \A k \in keys : registry'[k] = None
           /\ \A s \in Session : server'[s] = "free" <=> server[s] = "free"
           /\ seen' = seen /\ stuck' = stuck /\ streak' = streak
           /\ SyncedWhileInUse => SyncedWhileInUse'
<1>1. /\ \A k \in Key : registry'[k] \in {registry[k], None}
      /\ \A k \in keys : registry'[k] = None
      /\ seen' = seen /\ stuck' = stuck /\ streak' = streak
  BY SMTT(30) DEF TypeOK, Removes
<1>2. \A s \in Session : server'[s] = "free" <=> server[s] = "free"
  BY SMTT(30) DEF TypeOK, Removes, ShutDown, Running
<1>3. SyncedWhileInUse => SyncedWhileInUse'
  <2>1. \A k \in Key : registry'[k] # None <=> k \notin keys /\ registry[k] # None
    BY SMTT(30) DEF TypeOK, Removes
  <2>2. \A w \in Workspace, p \in Provider : <<w, p>> \in Key
    BY DEF Key
  <2> HIDE DEF Key
  <2>3. HAVE SyncedWhileInUse
  <2>4. \A w \in syncs' : w \in Workspace /\ \E p \in Provider : registry'[<<w, p>>] # None
    BY <2>1, <2>2, <2>3, Zenon DEF Removes, SyncedWhileInUse
  <2>5. \A w \in Workspace, p \in Provider : registry'[<<w, p>>] # None => w \in syncs'
    BY <2>1, <2>2, <2>3, Zenon DEF Removes, SyncedWhileInUse
  <2> QED
    BY <2>4, <2>5, Zenon DEF SyncedWhileInUse
<1> QED
  BY <1>1, <1>2, <1>3

LEMMA SessionsInit ==
    Init => /\ TypeOK /\ CallInv /\ LockInv /\ StampInv /\ HeldInv /\ FreshInv
            /\ AnswersAreNotOlderThanTheCheck /\ SyncedWhileInUse
<1> SUFFICES ASSUME Init
             PROVE /\ TypeOK /\ CallInv /\ LockInv /\ StampInv /\ HeldInv /\ FreshInv
                   /\ AnswersAreNotOlderThanTheCheck /\ SyncedWhileInUse
  OBVIOUS
<1> USE DEF Init, At, Current, Kind, PCs
<1>1. TypeOK /\ CallInv
  BY SMTT(30) DEF TypeOK, CallInv, Sending
<1>2. LockInv /\ StampInv /\ FreshInv
  BY SMTT(30) DEF LockInv, StampInv, FreshInv, InBarrier
<1>3. HeldInv /\ AnswersAreNotOlderThanTheCheck /\ SyncedWhileInUse
  <2>1. HeldInv
    BY SMTT(30) DEF HeldInv, Held
  <2>2. AnswersAreNotOlderThanTheCheck
    BY SMTT(30) DEF AnswersAreNotOlderThanTheCheck
  <2>3. \A w \in Workspace, p \in Provider : registry[<<w, p>>] = None
    BY SMTT(30)
  <2>4. SyncedWhileInUse
    BY <2>3, Zenon DEF SyncedWhileInUse
  <2> QED
    BY <2>1, <2>2, <2>4
<1> QED
  BY <1>1, <1>2, <1>3

\* Every step keeps the types.
LEMMA TypeStep == TypeOK /\ CallInv /\ [Next]_vars => (TypeOK /\ CallInv)'
<1> SUFFICES ASSUME TypeOK, CallInv, [Next]_vars PROVE (TypeOK /\ CallInv)'
  OBVIOUS
<1> USE DEF TypeOK, PCs, CallInv, Kind, At, Current, sessionVars, barrierVars, callVars,
           Goes, Takes, Begins, Returns, Unlocks, Sending
<1>1. ASSUME NEW c \in Caller, CallerStep(c) PROVE (TypeOK /\ CallInv)'
  <2>1. CASE Call(c) \/ Cancel(c) \/ ReleaseForgets(c)
    <3>1. CASE Call(c)
      BY <3>1, SMTT(60) DEF Call
    <3>2. CASE Cancel(c)
      BY <3>2, SMTT(60) DEF Cancel
    <3>3. CASE ReleaseForgets(c)
      BY <3>3, SMTT(60) DEF ReleaseForgets
    <3> QED
      BY <2>1, <3>1, <3>2, <3>3
  <2>2. CASE BarrierStamps(c)
    BY <2>2, SMTT(60) DEF BarrierStamps, Stamps
  <2>3. CASE BarrierKeeps(c) \/ BarrierKeepsWatcher(c) \/ BarrierDecides(c)
    BY <2>3, SMTT(60) DEF BarrierKeeps, BarrierKeepsWatcher, BarrierDecides, Passes, SameTree
  <2>4. CASE BarrierStops(c)
    BY <2>4, SMTT(60) DEF BarrierStops, Removes, ShutDown
  <2>5. CASE BarrierRecords(c)
    BY <2>5, SMTT(60) DEF BarrierRecords, Passes
  <2>6. CASE AcquireReuses(c)
    BY <2>6, SMTT(60) DEF AcquireReuses, Usable
  <2>7. CASE AcquireBegins(c)
    BY <2>7, SMTT(60) DEF AcquireBegins
  <2>8. CASE AcquireRefused(c) \/ ClientReady(c) \/ StartFailed(c)
    <3>1. CASE NoSession(c) /\ pc[c] \in {"acquire", "starting"} /\ UNCHANGED <<registry, sessionVars, syncs, barrierVars, tree>>
      <4>1. key[c] \in Key
        BY <3>1, SMTT(30)
      <4>2. CASE Returns(c)
        BY <3>1, <4>1, <4>2, SMTT(60)
      <4>3. CASE AsksAgain(c, TRUE)
        BY <3>1, <4>1, <4>3, SMTT(60) DEF AsksAgain
      <4> QED
        BY <3>1, <4>2, <4>3, Zenon DEF NoSession
    <3>2. CASE ClientReady(c)
      BY <3>2, SMTT(60) DEF ClientReady
    <3> QED
      BY <2>8, <3>1, <3>2 DEF AcquireRefused, StartFailed
  <2>9. CASE Answered(c) \/ Unmarks(c) \/ Transient(c) \/ Marks(c)
    BY <2>9, SMTT(60) DEF Answered, Unmarks, Transient, Marks, RepeatsOrEnds
  <2>10. CASE TransportFails(c) \/ Checks(c)
    BY <2>10, SMTT(60) DEF TransportFails, Checks, AsksAgain
  <2>11. CASE Discards(c)
    <3>1. /\ registry' \in [Key -> Session \cup {None}] /\ syncs' \subseteq Workspace
          /\ server' \in [Session -> {"free", "starting", "failed", "up", "primed", "closing"}]
          /\ UNCHANGED <<stuck, streak, seen, stamps, serial, tree>>
      BY <2>11, SMTT(60) DEF Discards, AfterDiscard, Removes, ShutDown
    <3>2. key[c] \in Key /\ pc[c] = "discard"
      BY <2>11, SMTT(30) DEF Discards
    <3>3. CASE c \in retried /\ Returns(c)
      BY <3>1, <3>2, <3>3, SMTT(60)
    <3>4. CASE c \notin retried /\ AsksAgain(c, TRUE)
      BY <3>1, <3>2, <3>4, SMTT(60) DEF AsksAgain
    <3> QED
      BY <2>11, <3>3, <3>4, Zenon DEF Discards, AfterDiscard
  <2>12. CASE ReleaseRemoves(c)
    BY <2>12, SMTT(60) DEF ReleaseRemoves, Removes, ShutDown
  <2> QED
    BY <1>1, <2>1, <2>2, <2>3, <2>4, <2>5, <2>6, <2>7, <2>8, <2>9, <2>10, <2>11, <2>12 DEF CallerStep, Barrier, Acquire, Sends
<1>2. ASSUME NEW s \in Session, World(s) PROVE (TypeOK /\ CallInv)'
  BY <1>2, SMTT(60) DEF World, StartEnds, Primes, Exits, Drops
<1>3. CASE Sweep
  BY <1>3, SMTT(60) DEF Sweep, Removes, ShutDown
<1>4. CASE Edit \/ UNCHANGED vars
  BY <1>4, SMTT(30) DEF Edit, vars
<1> QED
  BY <1>1, <1>2, <1>3, <1>4 DEF Next, CallerStep

\* The lock is taken when it is free and given back by the last step of a barrier.
LEMMA LockStep == TypeOK /\ CallInv /\ LockInv /\ [Next]_vars => LockInv'
<1> SUFFICES ASSUME TypeOK, CallInv, LockInv, [Next]_vars PROVE LockInv'
  OBVIOUS
<1> USE DEF TypeOK, PCs, CallInv, Kind, At, Current, sessionVars, barrierVars, callVars,
           Goes, Takes, Begins, Returns, Unlocks, Sending, LockInv, InBarrier
<1>1. ASSUME NEW c \in Caller, CallerStep(c) PROVE LockInv'
  <2>1. CASE Call(c) \/ Cancel(c) \/ ReleaseForgets(c)
    BY <2>1, SMTT(60) DEF Call, Cancel, ReleaseForgets
  <2>2. CASE BarrierStamps(c)
    BY <2>2, SMTT(60) DEF BarrierStamps, Stamps
  <2>3. CASE BarrierKeeps(c) \/ BarrierKeepsWatcher(c) \/ BarrierDecides(c)
    BY <2>3, SMTT(60) DEF BarrierKeeps, BarrierKeepsWatcher, BarrierDecides, Passes, SameTree
  <2>4. CASE BarrierStops(c)
    BY <2>4, SMTT(60) DEF BarrierStops, Removes, ShutDown
  <2>5. CASE BarrierRecords(c)
    BY <2>5, SMTT(60) DEF BarrierRecords, Passes
  <2>6. CASE AcquireReuses(c)
    BY <2>6, SMTT(60) DEF AcquireReuses, Usable
  <2>7. CASE AcquireBegins(c)
    BY <2>7, SMTT(60) DEF AcquireBegins
  <2>8. CASE AcquireRefused(c) \/ ClientReady(c) \/ StartFailed(c)
    BY <2>8, SMTT(60) DEF AcquireRefused, ClientReady, StartFailed, NoSession, AsksAgain
  <2>9. CASE Answered(c) \/ Unmarks(c) \/ Transient(c) \/ Marks(c)
    BY <2>9, SMTT(60) DEF Answered, Unmarks, Transient, Marks, RepeatsOrEnds
  <2>10. CASE TransportFails(c) \/ Checks(c)
    BY <2>10, SMTT(60) DEF TransportFails, Checks, AsksAgain
  <2>11. CASE Discards(c)
    BY <2>11, SMTT(60) DEF Discards, AfterDiscard, AsksAgain, Removes, ShutDown
  <2>12. CASE ReleaseRemoves(c)
    BY <2>12, SMTT(60) DEF ReleaseRemoves, Removes, ShutDown
  <2> QED
    BY <1>1, <2>1, <2>2, <2>3, <2>4, <2>5, <2>6, <2>7, <2>8, <2>9, <2>10, <2>11, <2>12 DEF CallerStep, Barrier, Acquire, Sends
<1>2. ASSUME NEW s \in Session, World(s) PROVE LockInv'
  BY <1>2, SMTT(60) DEF World, StartEnds, Primes, Exits, Drops
<1>3. CASE Sweep
  BY <1>3, SMTT(60) DEF Sweep, Removes, ShutDown
<1>4. CASE Edit \/ UNCHANGED vars
  BY <1>4, SMTT(30) DEF Edit, vars
<1> QED
  BY <1>1, <1>2, <1>3, <1>4 DEF Next, CallerStep

\* A barrier stamps the tree as it is; the record can only be dropped meanwhile.
LEMMA StampStep == TypeOK /\ CallInv /\ LockInv /\ StampInv /\ [Next]_vars => StampInv'
<1> SUFFICES ASSUME TypeOK, CallInv, LockInv, StampInv, [Next]_vars PROVE StampInv'
  OBVIOUS
<1> USE DEF TypeOK, PCs, CallInv, Kind, At, Current, sessionVars, barrierVars, callVars,
           Goes, Takes, Begins, Returns, Unlocks, Sending, LockInv, StampInv, InBarrier
<1>1. ASSUME NEW c \in Caller, CallerStep(c) PROVE StampInv'
  <2>1. CASE Call(c) \/ Cancel(c) \/ ReleaseForgets(c)
    BY <2>1, SMTT(60) DEF Call, Cancel, ReleaseForgets
  <2>2. CASE BarrierStamps(c)
    BY <2>2, SMTT(60) DEF BarrierStamps, Stamps
  <2>3. CASE BarrierKeeps(c) \/ BarrierKeepsWatcher(c) \/ BarrierDecides(c)
    BY <2>3, SMTT(60) DEF BarrierKeeps, BarrierKeepsWatcher, BarrierDecides, Passes, SameTree
  <2>4. CASE BarrierStops(c)
    BY <2>4, SMTT(60) DEF BarrierStops, Removes, ShutDown
  <2>5. CASE BarrierRecords(c)
    BY <2>5, SMTT(60) DEF BarrierRecords, Passes
  <2>6. CASE AcquireReuses(c)
    BY <2>6, SMTT(60) DEF AcquireReuses, Usable
  <2>7. CASE AcquireBegins(c)
    BY <2>7, SMTT(60) DEF AcquireBegins
  <2>8. CASE AcquireRefused(c) \/ ClientReady(c) \/ StartFailed(c)
    BY <2>8, SMTT(60) DEF AcquireRefused, ClientReady, StartFailed, NoSession, AsksAgain
  <2>9. CASE Answered(c) \/ Unmarks(c) \/ Transient(c) \/ Marks(c)
    BY <2>9, SMTT(60) DEF Answered, Unmarks, Transient, Marks, RepeatsOrEnds
  <2>10. CASE TransportFails(c) \/ Checks(c)
    BY <2>10, SMTT(60) DEF TransportFails, Checks, AsksAgain
  <2>11. CASE Discards(c)
    BY <2>11, SMTT(60) DEF Discards, AfterDiscard, AsksAgain, Removes, ShutDown
  <2>12. CASE ReleaseRemoves(c)
    BY <2>12, SMTT(60) DEF ReleaseRemoves, Removes, ShutDown
  <2> QED
    BY <1>1, <2>1, <2>2, <2>3, <2>4, <2>5, <2>6, <2>7, <2>8, <2>9, <2>10, <2>11, <2>12 DEF CallerStep, Barrier, Acquire, Sends
<1>2. ASSUME NEW s \in Session, World(s) PROVE StampInv'
  BY <1>2, SMTT(60) DEF World, StartEnds, Primes, Exits, Drops
<1>3. CASE Sweep
  BY <1>3, SMTT(60) DEF Sweep, Removes, ShutDown
<1>4. CASE Edit \/ UNCHANGED vars
  BY <1>4, SMTT(30) DEF Edit, vars
<1> QED
  BY <1>1, <1>2, <1>3, <1>4 DEF Next, CallerStep

\* A session is given back only when nobody holds it.
LEMMA HeldStep == TypeOK /\ CallInv /\ HeldInv /\ [Next]_vars => HeldInv'
<1> SUFFICES ASSUME TypeOK, CallInv, HeldInv, [Next]_vars PROVE HeldInv'
  OBVIOUS
<1> USE DEF TypeOK, PCs, CallInv, Kind, At, Current, sessionVars, barrierVars, callVars,
           Goes, Takes, Begins, Returns, Unlocks, Sending, HeldInv, Held, Started, Running
<1>1. ASSUME NEW c \in Caller, CallerStep(c) PROVE HeldInv'
  <2>1. CASE Call(c) \/ Cancel(c) \/ ReleaseForgets(c)
    BY <2>1, SMTT(60) DEF Call, Cancel, ReleaseForgets
  <2>2. CASE BarrierStamps(c)
    BY <2>2, SMTT(60) DEF BarrierStamps, Stamps
  <2>3. CASE BarrierKeeps(c) \/ BarrierKeepsWatcher(c) \/ BarrierDecides(c)
    BY <2>3, SMTT(60) DEF BarrierKeeps, BarrierKeepsWatcher, BarrierDecides, Passes, SameTree
  <2>4. CASE BarrierStops(c)
    BY <2>4, SMTT(60) DEF BarrierStops, Removes, ShutDown
  <2>5. CASE BarrierRecords(c)
    BY <2>5, SMTT(60) DEF BarrierRecords, Passes
  <2>6. CASE AcquireReuses(c)
    BY <2>6, SMTT(60) DEF AcquireReuses, Usable
  <2>7. CASE AcquireBegins(c)
    BY <2>7, SMTT(60) DEF AcquireBegins
  <2>8. CASE AcquireRefused(c) \/ ClientReady(c) \/ StartFailed(c)
    BY <2>8, SMTT(60) DEF AcquireRefused, ClientReady, StartFailed, NoSession, AsksAgain
  <2>9. CASE Answered(c) \/ Unmarks(c) \/ Transient(c) \/ Marks(c)
    BY <2>9, SMTT(60) DEF Answered, Unmarks, Transient, Marks, RepeatsOrEnds
  <2>10. CASE TransportFails(c) \/ Checks(c)
    BY <2>10, SMTT(60) DEF TransportFails, Checks, AsksAgain
  <2>11. CASE Discards(c)
    BY <2>11, SMTT(60) DEF Discards, AfterDiscard, AsksAgain, Removes, ShutDown
  <2>12. CASE ReleaseRemoves(c)
    BY <2>12, SMTT(60) DEF ReleaseRemoves, Removes, ShutDown
  <2> QED
    BY <1>1, <2>1, <2>2, <2>3, <2>4, <2>5, <2>6, <2>7, <2>8, <2>9, <2>10, <2>11, <2>12 DEF CallerStep, Barrier, Acquire, Sends
<1>2. ASSUME NEW s \in Session, World(s) PROVE HeldInv'
  BY <1>2, SMTT(60) DEF World, StartEnds, Primes, Exits, Drops
<1>3. CASE Sweep
  BY <1>3, SMTT(60) DEF Sweep, Removes, ShutDown
<1>4. CASE Edit \/ UNCHANGED vars
  BY <1>4, SMTT(30) DEF Edit, vars
<1> QED
  BY <1>1, <1>2, <1>3, <1>4 DEF Next, CallerStep

\* A barrier removes what its stamp does not vouch for before it records; whatever is
\* registered later began later.
LEMMA FreshStep == TypeOK /\ CallInv /\ LockInv /\ StampInv /\ HeldInv /\ FreshInv /\ [Next]_vars => FreshInv'
<1> SUFFICES ASSUME TypeOK, CallInv, LockInv, StampInv, HeldInv, FreshInv, [Next]_vars PROVE FreshInv'
  OBVIOUS
<1> USE DEF TypeOK, PCs, CallInv, Kind, At, Current, sessionVars, barrierVars, callVars,
           Goes, Takes, Begins, Returns, Unlocks, Sending, LockInv, StampInv, HeldInv, Held, FreshInv, InBarrier
<1> HIDE DEF Key
<1>1. ASSUME NEW c \in Caller, CallerStep(c) PROVE FreshInv'
  <2>1. CASE Call(c) \/ Cancel(c) \/ ReleaseForgets(c)
    BY <2>1, SMTT(60) DEF Call, Cancel, ReleaseForgets
  <2>2. CASE BarrierStamps(c)
    BY <2>2, SMTT(60) DEF BarrierStamps, Stamps
  <2>3. CASE BarrierKeeps(c) \/ BarrierKeepsWatcher(c) \/ BarrierDecides(c)
    BY <2>3, SMTT(60) DEF BarrierKeeps, BarrierKeepsWatcher, BarrierDecides, Passes, SameTree
  <2>4. CASE BarrierStops(c)
    <3> DEFINE keys == {key[c]}
    <3>1. keys \in SUBSET Key /\ Removes(keys)
      BY <2>4, SMTT(30) DEF BarrierStops
    <3> HIDE DEF keys
    <3>2. /\ \A k \in Key : registry'[k] \in {registry[k], None}
          /\ \A k \in keys : registry'[k] = None
          /\ seen' = seen
      BY <3>1, RemovesFacts, Zenon
    <3> USE DEF keys
    <3> QED
      BY <2>4, <3>2, SMTT(60) DEF BarrierStops
  <2>5. CASE BarrierRecords(c)
    BY <2>5, SMTT(60) DEF BarrierRecords, Passes
  <2>6. CASE AcquireReuses(c)
    BY <2>6, SMTT(60) DEF AcquireReuses, Usable
  <2>7. CASE AcquireBegins(c)
    BY <2>7, SMTT(60) DEF AcquireBegins
  <2>8. CASE AcquireRefused(c) \/ ClientReady(c) \/ StartFailed(c)
    BY <2>8, SMTT(60) DEF AcquireRefused, ClientReady, StartFailed, NoSession, AsksAgain
  <2>9. CASE Answered(c) \/ Unmarks(c) \/ Transient(c) \/ Marks(c)
    BY <2>9, SMTT(60) DEF Answered, Unmarks, Transient, Marks, RepeatsOrEnds
  <2>10. CASE TransportFails(c) \/ Checks(c)
    BY <2>10, SMTT(60) DEF TransportFails, Checks, AsksAgain
  <2>11. CASE Discards(c)
    <3> DEFINE keys == IF Current(c) = mine[c] THEN {key[c]} ELSE {}
    <3>1. keys \in SUBSET Key /\ Removes(keys)
      BY <2>11, SMTT(30) DEF Discards
    <3> HIDE DEF keys
    <3>2. /\ \A k \in Key : registry'[k] \in {registry[k], None}
          /\ \A k \in keys : registry'[k] = None
          /\ seen' = seen
      BY <3>1, RemovesFacts, Zenon
    <3> USE DEF keys
    <3> QED
      BY <2>11, <3>2, SMTT(60) DEF Discards, AfterDiscard, AsksAgain
  <2>12. CASE ReleaseRemoves(c)
    <3> DEFINE keys == {k \in Key : k[1] = key[c][1]}
    <3>1. keys \in SUBSET Key /\ Removes(keys)
      BY <2>12, SMTT(30) DEF ReleaseRemoves
    <3> HIDE DEF keys
    <3>2. /\ \A k \in Key : registry'[k] \in {registry[k], None}
          /\ \A k \in keys : registry'[k] = None
          /\ seen' = seen
      BY <3>1, RemovesFacts, Zenon
    <3> USE DEF keys
    <3> QED
      BY <2>12, <3>2, SMTT(60) DEF ReleaseRemoves
  <2> QED
    BY <1>1, <2>1, <2>2, <2>3, <2>4, <2>5, <2>6, <2>7, <2>8, <2>9, <2>10, <2>11, <2>12 DEF CallerStep, Barrier, Acquire, Sends
<1>2. ASSUME NEW s \in Session, World(s) PROVE FreshInv'
  <2>1. /\ UNCHANGED <<registry, stamps, tree, callVars>>
        /\ \A t \in Session : seen'[t] = seen[t] \/ ~Held(t)
    BY <1>2, SMTT(60) DEF World, StartEnds, Primes, Exits, Drops
  <2> QED
    BY <2>1, SMTT(60)
<1>3. CASE Sweep
  <2>1. PICK keys \in SUBSET Key : Removes(keys)
    BY <1>3, SMTT(30) DEF Sweep
  <2>2. (\A k \in Key : registry'[k] \in {registry[k], None}) /\ seen' = seen
    BY <2>1, RemovesFacts, Zenon
  <2> QED
    BY <1>3, <2>2, SMTT(60) DEF Sweep
<1>4. CASE Edit \/ UNCHANGED vars
  BY <1>4, SMTT(30) DEF Edit, vars
<1> QED
  BY <1>1, <1>2, <1>3, <1>4 DEF Next, CallerStep

\* A caller takes the registered session, or begins one after its check.
LEMMA AnswerStep == TypeOK /\ CallInv /\ StampInv /\ HeldInv /\ FreshInv /\ AnswersAreNotOlderThanTheCheck /\ [Next]_vars => AnswersAreNotOlderThanTheCheck'
<1> SUFFICES ASSUME TypeOK, CallInv, StampInv, HeldInv, FreshInv, AnswersAreNotOlderThanTheCheck, [Next]_vars PROVE AnswersAreNotOlderThanTheCheck'
  OBVIOUS
<1> USE DEF TypeOK, PCs, CallInv, Kind, At, Current, sessionVars, barrierVars, callVars,
           Goes, Takes, Begins, Returns, Unlocks, Sending, StampInv, HeldInv, Held, FreshInv, InBarrier,
           AnswersAreNotOlderThanTheCheck
<1>1. ASSUME NEW c \in Caller, CallerStep(c) PROVE AnswersAreNotOlderThanTheCheck'
  <2>1. CASE Call(c) \/ Cancel(c) \/ ReleaseForgets(c)
    BY <2>1, SMTT(60) DEF Call, Cancel, ReleaseForgets
  <2>2. CASE BarrierStamps(c)
    BY <2>2, SMTT(60) DEF BarrierStamps, Stamps
  <2>3. CASE BarrierKeeps(c) \/ BarrierKeepsWatcher(c) \/ BarrierDecides(c)
    BY <2>3, SMTT(60) DEF BarrierKeeps, BarrierKeepsWatcher, BarrierDecides, Passes, SameTree
  <2>4. CASE BarrierStops(c)
    BY <2>4, SMTT(60) DEF BarrierStops, Removes, ShutDown
  <2>5. CASE BarrierRecords(c)
    BY <2>5, SMTT(60) DEF BarrierRecords, Passes
  <2>6. CASE AcquireReuses(c)
    BY <2>6, SMTT(60) DEF AcquireReuses, Usable
  <2>7. CASE AcquireBegins(c)
    BY <2>7, SMTT(60) DEF AcquireBegins
  <2>8. CASE AcquireRefused(c) \/ ClientReady(c) \/ StartFailed(c)
    BY <2>8, SMTT(60) DEF AcquireRefused, ClientReady, StartFailed, NoSession, AsksAgain
  <2>9. CASE Answered(c) \/ Unmarks(c) \/ Transient(c) \/ Marks(c)
    BY <2>9, SMTT(60) DEF Answered, Unmarks, Transient, Marks, RepeatsOrEnds
  <2>10. CASE TransportFails(c) \/ Checks(c)
    BY <2>10, SMTT(60) DEF TransportFails, Checks, AsksAgain
  <2>11. CASE Discards(c)
    BY <2>11, SMTT(60) DEF Discards, AfterDiscard, AsksAgain, Removes, ShutDown
  <2>12. CASE ReleaseRemoves(c)
    BY <2>12, SMTT(60) DEF ReleaseRemoves, Removes, ShutDown
  <2> QED
    BY <1>1, <2>1, <2>2, <2>3, <2>4, <2>5, <2>6, <2>7, <2>8, <2>9, <2>10, <2>11, <2>12 DEF CallerStep, Barrier, Acquire, Sends
<1>2. ASSUME NEW s \in Session, World(s) PROVE AnswersAreNotOlderThanTheCheck'
  <2>1. /\ UNCHANGED <<registry, stamps, tree, callVars>>
        /\ \A t \in Session : seen'[t] = seen[t] \/ ~Held(t)
    BY <1>2, SMTT(60) DEF World, StartEnds, Primes, Exits, Drops
  <2> QED
    BY <2>1, SMTT(60)
<1>3. CASE Sweep
  BY <1>3, SMTT(60) DEF Sweep, Removes, ShutDown
<1>4. CASE Edit \/ UNCHANGED vars
  BY <1>4, SMTT(30) DEF Edit, vars
<1> QED
  BY <1>1, <1>2, <1>3, <1>4 DEF Next, CallerStep

\* Every removal prunes, every begin ensures.
LEMMA SyncStep == TypeOK /\ CallInv /\ SyncedWhileInUse /\ [Next]_vars => SyncedWhileInUse'
<1> SUFFICES ASSUME TypeOK, CallInv, SyncedWhileInUse, [Next]_vars PROVE SyncedWhileInUse'
  OBVIOUS
<1> USE DEF TypeOK, PCs, CallInv, Kind, At, Current, sessionVars, barrierVars, callVars,
           Goes, Takes, Begins, Returns, Unlocks, Sending
<1>1. ASSUME NEW c \in Caller, CallerStep(c) PROVE SyncedWhileInUse'
  <2>1. CASE Call(c) \/ Cancel(c) \/ ReleaseForgets(c)
    <3> UNCHANGED <<registry, syncs>>
      BY <2>1, SMTT(30) DEF Call, Cancel, ReleaseForgets
    <3> QED
      BY DEF SyncedWhileInUse
  <2>2. CASE BarrierStamps(c)
    <3> UNCHANGED <<registry, syncs>>
      BY <2>2, SMTT(30) DEF BarrierStamps, Stamps
    <3> QED
      BY DEF SyncedWhileInUse
  <2>3. CASE BarrierKeeps(c) \/ BarrierKeepsWatcher(c) \/ BarrierDecides(c)
    <3> UNCHANGED <<registry, syncs>>
      BY <2>3, SMTT(30) DEF BarrierKeeps, BarrierKeepsWatcher, BarrierDecides, Passes, SameTree
    <3> QED
      BY DEF SyncedWhileInUse
  <2>4. CASE BarrierStops(c)
    <3>1. PICK keys \in SUBSET Key : Removes(keys)
      BY <2>4, SMTT(30) DEF BarrierStops
    <3> QED
      BY <3>1, RemovesFacts
  <2>5. CASE BarrierRecords(c)
    <3> UNCHANGED <<registry, syncs>>
      BY <2>5, SMTT(30) DEF BarrierRecords, Passes
    <3> QED
      BY DEF SyncedWhileInUse
  <2>6. CASE AcquireReuses(c)
    <3> UNCHANGED <<registry, syncs>>
      BY <2>6, SMTT(30) DEF AcquireReuses, Usable
    <3> QED
      BY DEF SyncedWhileInUse
  <2>7. CASE AcquireBegins(c)
    <3>1. \E s \in Session : registry' = [registry EXCEPT ![key[c]] = s]
      BY <2>7, Zenon DEF AcquireBegins
    <3>3. PICK s \in Session : registry' = [registry EXCEPT ![key[c]] = s]
      BY <3>1
    <3>2. key[c] \in Workspace \X Provider /\ syncs' = syncs \cup {key[c][1]}
      BY <2>7, SMTT(30) DEF AcquireBegins
    <3> QED
      <4>1. \A k \in Key : registry'[k] = IF k = key[c] THEN s ELSE registry[k]
        BY <3>3, SMTT(30)
      <4>2. \A w \in Workspace, p \in Provider : <<w, p>> \in Key /\ <<w, p>>[1] = w
        OBVIOUS
      <4>3. key[c] = <<key[c][1], key[c][2]>> /\ key[c][1] \in Workspace /\ key[c][2] \in Provider /\ s # None
        BY <3>2, SMTT(30)
      <4> HIDE DEF Key, TypeOK
      <4> QED
        BY <3>2, <4>1, <4>2, <4>3, SMTT(60) DEF SyncedWhileInUse
  <2>8. CASE AcquireRefused(c) \/ ClientReady(c) \/ StartFailed(c)
    <3> UNCHANGED <<registry, syncs>>
      BY <2>8, SMTT(30) DEF AcquireRefused, ClientReady, StartFailed, NoSession, AsksAgain
    <3> QED
      BY DEF SyncedWhileInUse
  <2>9. CASE Answered(c) \/ Unmarks(c) \/ Transient(c) \/ Marks(c)
    <3> UNCHANGED <<registry, syncs>>
      BY <2>9, SMTT(30) DEF Answered, Unmarks, Transient, Marks, RepeatsOrEnds
    <3> QED
      BY DEF SyncedWhileInUse
  <2>10. CASE TransportFails(c) \/ Checks(c)
    <3> UNCHANGED <<registry, syncs>>
      BY <2>10, SMTT(30) DEF TransportFails, Checks, AsksAgain
    <3> QED
      BY DEF SyncedWhileInUse
  <2>11. CASE Discards(c)
    <3>1. PICK keys \in SUBSET Key : Removes(keys)
      BY <2>11, SMTT(30) DEF Discards
    <3> QED
      BY <3>1, RemovesFacts
  <2>12. CASE ReleaseRemoves(c)
    <3>1. PICK keys \in SUBSET Key : Removes(keys)
      BY <2>12, SMTT(30) DEF ReleaseRemoves
    <3> QED
      BY <3>1, RemovesFacts
  <2> QED
    BY <1>1, <2>1, <2>2, <2>3, <2>4, <2>5, <2>6, <2>7, <2>8, <2>9, <2>10, <2>11, <2>12 DEF CallerStep, Barrier, Acquire, Sends
<1>2. ASSUME NEW s \in Session, World(s) PROVE SyncedWhileInUse'
  <2> UNCHANGED <<registry, syncs>>
    BY <1>2, SMTT(30) DEF World, StartEnds, Primes, Exits, Drops
  <2> QED
    BY DEF SyncedWhileInUse
<1>3. CASE Sweep
  <2>1. PICK keys \in SUBSET Key : Removes(keys)
    BY <1>3, SMTT(30) DEF Sweep
  <2> QED
    BY <2>1, RemovesFacts
<1>4. CASE Edit \/ UNCHANGED vars
  <2> UNCHANGED <<registry, syncs>>
    BY <1>4, SMTT(30) DEF Edit, vars
  <2> QED
    BY DEF SyncedWhileInUse
<1> QED
  BY <1>1, <1>2, <1>3, <1>4 DEF Next, CallerStep

-----------------------------------------------------------------------------
SessionsInv ==
    /\ TypeOK /\ CallInv /\ LockInv /\ StampInv /\ HeldInv /\ FreshInv
    /\ AnswersAreNotOlderThanTheCheck /\ SyncedWhileInUse

THEOREM SessionsInvariant == Spec => []SessionsInv
<1>1. Init => SessionsInv
  BY SessionsInit DEF SessionsInv
<1>2. SessionsInv /\ [Next]_vars => SessionsInv'
  BY TypeStep, LockStep, StampStep, HeldStep, FreshStep, AnswerStep, SyncStep DEF SessionsInv
<1> QED
  BY <1>1, <1>2, PTL DEF Spec

\* Every variable of the session manager keeps its type.
THEOREM SessionsTypeCorrect == Spec => []TypeOK
<1>1. SessionsInv => TypeOK
  BY DEF SessionsInv
<1> QED
  BY <1>1, SessionsInvariant, PTL

\* A server that answers behind the barrier read the tree no earlier than the
\* check, for any number of callers, releases, sweeps and edits.
THEOREM AnswersAreFresh == Spec => []AnswersAreNotOlderThanTheCheck
<1>1. SessionsInv => AnswersAreNotOlderThanTheCheck
  BY DEF SessionsInv
<1> QED
  BY <1>1, SessionsInvariant, PTL

\* A workspace has its sync exactly while it has a session.
THEOREM SyncFollowsSessions == Spec => []SyncedWhileInUse
<1>1. SessionsInv => SyncedWhileInUse
  BY DEF SessionsInv
<1> QED
  BY <1>1, SessionsInvariant, PTL

\* The recorded stamps of a key only grow, until a release forgets them.
THEOREM StampsMoveForward == Spec => RecordsMoveForward
<1> DEFINE Grows == \A k \in Key : stamps[k] # None /\ stamps'[k] # None => stamps'[k] >= stamps[k]
<1>1. SessionsInv /\ [Next]_vars => [Grows]_vars
  <2> SUFFICES ASSUME SessionsInv, Next PROVE Grows
    OBVIOUS
  <2> USE DEF SessionsInv, TypeOK
  <2>1. ASSUME NEW c \in Caller, BarrierRecords(c) PROVE Grows
    BY <2>1, SMTT(30) DEF BarrierRecords, At, CallInv, StampInv, InBarrier
  <2>2. ASSUME NEW c \in Caller, ReleaseForgets(c) PROVE Grows
    BY <2>2, SMTT(30) DEF ReleaseForgets
  <2>3. ASSUME stamps' = stamps PROVE Grows
    BY <2>3, SMTT(30)
  <2>4. ASSUME NEW c \in Caller, CallerStep(c), ~BarrierRecords(c), ~ReleaseForgets(c)
        PROVE stamps' = stamps
    BY <2>4, Zenon DEF CallerStep, Barrier, Acquire, Sends, Call, Cancel, ReleaseRemoves, BarrierStamps,
         BarrierKeeps, BarrierKeepsWatcher, BarrierDecides, BarrierStops, AcquireReuses, AcquireRefused,
         AcquireBegins, ClientReady, StartFailed, Answered, Unmarks, Transient, Marks, TransportFails,
         Checks, Discards, AfterDiscard, barrierVars
  <2>5. ASSUME NEW s \in Session, World(s) PROVE stamps' = stamps
    BY <2>5, Zenon DEF World, StartEnds, Primes, Exits, Drops, barrierVars
  <2>6. CASE Sweep \/ Edit
    BY <2>6, <2>3, Zenon DEF Sweep, Edit, barrierVars
  <2> QED
    BY <2>1, <2>2, <2>3, <2>4, <2>5, <2>6 DEF Next, CallerStep
<1>2. RecordsMoveForward <=> [][Grows]_vars
  BY DEF RecordsMoveForward
<1> HIDE DEF Grows
<1> QED
  BY <1>1, <1>2, SessionsInvariant, PTL DEF Spec
\* A session leaves the registry only for one of the reasons it may: only the
\* operations that remove or replace a session touch it at all.
THEOREM SessionsStay == Spec => OnlyFailedOrUnusedSessionsLeave
<1> DEFINE MayLeave(k) ==
             \/ server[registry[k]] = "failed" \/ registry[k] \in stuck
             \/ \A c \in Caller : mine[c] # registry[k]
             \/ \E c \in Caller : At(c, "discard") /\ mine[c] = registry[k]
             \/ \E c \in Caller : At(c, "stop") /\ pc'[c] = "record" /\ key[c] = k
             \/ \E c \in Caller : At(c, "remove") /\ key[c][1] = k[1]
           Stay == \A k \in Key : registry[k] # None /\ registry'[k] # registry[k] => MayLeave(k)
<1>1. SessionsInv /\ [Next]_vars => [Stay]_vars
  <2> SUFFICES ASSUME SessionsInv, Next PROVE Stay
    OBVIOUS
  <2> SUFFICES ASSUME NEW k \in Key, registry[k] # None, registry'[k] # registry[k]
               PROVE  MayLeave(k)
    OBVIOUS
  <2> HIDE DEF MayLeave
  <2>1. ASSUME NEW c \in Caller, BarrierStops(c) PROVE MayLeave(k)
    <3>1. k = key[c] /\ At(c, "stop")
      BY <2>1, SMTT(30) DEF BarrierStops, Removes
    <3>2. pc'[c] = "record"
      BY <2>1, SMTT(30) DEF BarrierStops, Goes, SessionsInv, TypeOK
    <3> QED
      BY <3>1, <3>2, Zenon DEF MayLeave
  <2>2. ASSUME NEW c \in Caller, AcquireBegins(c) PROVE MayLeave(k)
    <3>1. k = key[c]
      BY <2>2, SMTT(30) DEF AcquireBegins, SessionsInv, TypeOK
    <3> QED
      BY <2>2, <3>1, Zenon DEF AcquireBegins, Usable, Current, MayLeave
  <2>3. ASSUME NEW c \in Caller, Discards(c) PROVE MayLeave(k)
    <3>1. k = key[c] /\ At(c, "discard") /\ Current(c) = mine[c]
      BY <2>3, SMTT(30) DEF Discards, Removes
    <3> QED
      BY <3>1, Zenon DEF Current, MayLeave
  <2>4. ASSUME NEW c \in Caller, ReleaseRemoves(c) PROVE MayLeave(k)
    <3>1. k[1] = key[c][1] /\ At(c, "remove")
      BY <2>4, SMTT(30) DEF ReleaseRemoves, Removes
    <3> QED
      BY <3>1, Zenon DEF MayLeave
  <2>5. ASSUME Sweep PROVE MayLeave(k)
    <3>1. Unused(registry[k])
      BY <2>5, SMTT(30) DEF Sweep, Removes
    <3> QED
      BY <3>1, Zenon DEF Unused, MayLeave
  <2>6. ASSUME NEW c \in Caller, CallerStep(c), ~BarrierStops(c), ~AcquireBegins(c), ~Discards(c),
               ~ReleaseRemoves(c)
        PROVE registry' = registry
    BY <2>6, Zenon DEF CallerStep, Barrier, Acquire, Sends, Call, Cancel, ReleaseForgets, BarrierStamps,
         BarrierKeeps, BarrierKeepsWatcher, BarrierDecides, BarrierRecords, AcquireReuses, AcquireRefused,
         ClientReady, StartFailed, Answered, Unmarks, Transient, Marks, TransportFails, Checks
  <2>7. ASSUME NEW s \in Session, World(s) PROVE registry' = registry
    BY <2>7, Zenon DEF World, StartEnds, Primes, Exits, Drops
  <2>8. Edit => registry' = registry
    BY Zenon DEF Edit
  <2> QED
    BY <2>1, <2>2, <2>3, <2>4, <2>5, <2>6, <2>7, <2>8 DEF Next, CallerStep
<1>2. OnlyFailedOrUnusedSessionsLeave <=> [][Stay]_vars
  BY DEF OnlyFailedOrUnusedSessionsLeave
<1> HIDE DEF Stay
<1> QED
  BY <1>1, <1>2, SessionsInvariant, PTL DEF Spec

\* Records and sessions together: neither is lost to a slower call.
THEOREM SessionsOnlyMoveForward == Spec => SessionsMoveForward
  BY StampsMoveForward, SessionsStay DEF SessionsMoveForward
=============================================================================
