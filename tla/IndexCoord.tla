----------------------------- MODULE IndexCoord -----------------------------
(***************************************************************************)
(* Index coordination and freshness of one workspace                       *)
(* (src/app/indexing.rs, src/app/search.rs resolve_index_for_search).      *)
(*                                                                         *)
(* Searches, explicit index requests and watcher passes of one or more     *)
(* service processes share one data directory.  On disk are the table (the *)
(* searchable snapshot) and the manifest (the fingerprint that a staleness *)
(* check compares with the tree); a run commits the first and then saves   *)
(* the second.  Per process there are the workspace write lock, the error  *)
(* of the last failed flight, the throttle of the staleness check and the  *)
(* two windows that hold a vector repair back.                             *)
(*                                                                         *)
(* The tree is one value: a walk or scan reads it at one moment.  Per file *)
(* that is what the code does, and freshness is a per-file property.       *)
(***************************************************************************)
EXTENDS Naturals, FiniteSets

CONSTANTS
    Searcher,      \* tasks that run search_code
    Indexer,       \* tasks that run index_workspace (App::index)
    Watcher,       \* polling tasks of watch_workspace
    Process,       \* service processes that share the data directory
    Home,          \* Home[t]: the process that runs task t
    Identity,      \* embedding identities a configuration may name
    StartIdentity, \* the identity every process is first configured with
    MaxContent,    \* bound: the tree's contents are 1..MaxContent
    ChunkFree,     \* the contents that hold no chunk at all
    Reverts,       \* may an edit bring an earlier content back?
    OnSearch,      \* [index].freshness is on-search (else manual or watch)
    StatusCalls,   \* do index_status calls arrive, which probe the write lock?
    Faults,        \* the kinds of failure that may happen (FaultKinds)
    MaxFaults,     \* bound: how many of them happen in one behaviour
    NoTable, NoTask

Content   == 1..MaxContent
NoContent == 0                 \* the empty fingerprint
Task      == Searcher \cup Indexer \cup Watcher

\* A pinned revision of the workspace's table.
Snapshot == [content : Content, identity : Identity, vectors : {"real", "missing"}]
AnySnapshot == Snapshot \cup {NoTable}

FaultKinds == {"walk", "lock", "scan", "reject", "commit", "gap",
               "cancel", "crash", "reconfigure", "outage"}

ASSUME CoordAssumption ==
    /\ Searcher \cap Indexer = {} /\ Searcher \cap Watcher = {} /\ Indexer \cap Watcher = {}
    /\ Home \in [Task -> Process]
    /\ StartIdentity \in Identity
    /\ MaxContent \in Nat \ {0} /\ MaxFaults \in Nat
    /\ ChunkFree \subseteq Content
    /\ {Reverts, OnSearch, StatusCalls} \subseteq BOOLEAN
    /\ Faults \subseteq FaultKinds
    /\ NoTable \notin Snapshot
    /\ NoTask \notin Task
    /\ Task \cap {"due", "kept"} = {}

VARIABLES
    tree,         \* what the workspace holds now
    table,        \* the committed table, NoTable before the first commit
    manifest,     \* the fingerprint of the saved manifest
    dirLock,      \* holder of index_lock and of the OS lock on index.lock
    embedder,     \* whether the embedding service answers
    faultsLeft

VARIABLES        \* per process
    identity,     \* config.embedding_identity()
    writer,       \* holder of the workspace write lock
    waiters,      \* tasks queued for the write lock
    probing,      \* a status call holds the read guard of its try_read
    flightError,  \* WorkspaceCoordination.flight_error is set
    lastCheck,    \* last_stale_check: "due", "kept", or the task whose stamp it is
    failedRepair, \* last_failed_repair lies within EMBEDDER_DOWN_WINDOW
    breaker       \* the embedder connect breaker is open

VARIABLES        \* per task
    pc,
    req,          \* what the task knows of its current request (Request)
    answer        \* how its last request ended

VARIABLES        \* history, read by properties only
    seen,         \* contents the tree had since the search's walk
    sinceCheck,   \* per process: contents since the walk of its last good check
    flights       \* how runs of its process ended since the search began

diskVars == <<tree, table, manifest, dirLock, embedder, faultsLeft>>
procVars == <<identity, writer, waiters, probing, flightError, lastCheck, failedRepair,
              breaker>>
taskVars == <<pc, req, answer>>
histVars == <<seen, sinceCheck, flights>>
vars     == <<diskVars, procVars, taskVars, histVars>>

-----------------------------------------------------------------------------
\* Phases of a task.

\* holding the data-directory locks
Running == {"scan", "embed", "commit", "save"}
\* holding the workspace write lock
Writing == Running \cup {"createlocked", "createwaited", "waitlocked",
                         "indexlocked", "watchlocked", "watchcompare", "idx"}
Waiting == {"createwait", "wait", "indexwait", "watchwait"}
\* between StaleCheckStamp::take and keep
Checking == {"walk", "decide", "trywrite", "wait", "waitlocked", "idx"} \cup Running

PCs == {"idle", "done", "resolve", "reread", "walk", "decide", "trywrite", "watchseen"}
         \cup Waiting \cup Writing

InFlight(t) == pc[t] \notin {"idle", "done"}

\* initial:    the snapshot a search found when it began
\* fp:         fingerprint of its walk, NoContent when the check is throttled
\* repairOnly: the refresh has no other reason than missing vectors
\* scanned, previous: the content and the snapshot its index run read
\* planned:    whether its run commits real vectors
Request == [initial : AnySnapshot, fp : Content \cup {NoContent}, repairOnly : BOOLEAN,
            scanned : Content \cup {NoContent}, previous : AnySnapshot,
            planned : {"real", "missing"}]
NoRequest == [initial |-> NoTable, fp |-> NoContent, repairOnly |-> FALSE,
              scanned |-> NoContent, previous |-> NoTable, planned |-> "real"]

NoAnswer == [status |-> "none", snapshot |-> NoTable, checked |-> FALSE]
Answer == [status : {"none", "ok", "warned", "error", "shared"},
           snapshot : AnySnapshot, checked : BOOLEAN]

\* The search found no snapshot, so its run is a first index, not a refresh.
Creating(t)        == req[t].initial = NoTable
\* Fault variant of IdentityChanged: the stored identity is not compared.
BlindIdentity(t)   == FALSE
IdentityChanged(t) == /\ req[t].initial # NoTable
                      /\ req[t].initial.identity # identity[Home[t]]
VectorsMissing(t)  == req[t].initial # NoTable /\ req[t].initial.vectors = "missing"

Fault(kind) == /\ kind \in Faults
               /\ faultsLeft > 0
               /\ faultsLeft' = faultsLeft - 1

-----------------------------------------------------------------------------
Init ==
    /\ tree \in Content
    /\ table = NoTable
    /\ manifest = NoContent
    /\ dirLock = NoTask
    /\ embedder = "up"
    /\ faultsLeft = MaxFaults
    /\ identity     = [p \in Process |-> StartIdentity]
    /\ writer       = [p \in Process |-> NoTask]
    /\ waiters      = [p \in Process |-> {}]
    /\ probing      = [p \in Process |-> FALSE]
    /\ flightError  = [p \in Process |-> FALSE]
    /\ lastCheck    = [p \in Process |-> "due"]
    /\ failedRepair = [p \in Process |-> FALSE]
    /\ breaker      = [p \in Process |-> FALSE]
    /\ pc         = [t \in Task |-> "idle"]
    /\ req        = [t \in Task |-> NoRequest]
    /\ answer     = [t \in Task |-> NoAnswer]
    /\ seen       = [t \in Task |-> {}]
    /\ sinceCheck = [p \in Process |-> Content]
    /\ flights    = [t \in Task |-> {}]
-----------------------------------------------------------------------------
\* The workspace write lock: a tokio RwLock, whose writers queue.

\* try_write succeeds only when nobody holds the lock and nobody queues for it.
WriteFree(p) == writer[p] = NoTask /\ waiters[p] = {} /\ ~probing[p]

TakeWrite(t)  == writer'  = [writer  EXCEPT ![Home[t]] = t]
QueueWrite(t) == waiters' = [waiters EXCEPT ![Home[t]] = @ \cup {t}]
LeaveQueue(t) == waiters' = [waiters EXCEPT ![Home[t]] = @ \ {t}]

DropWrite(t)  == writer'  = [writer  EXCEPT ![Home[t]] = IF @ = t THEN NoTask ELSE @]

\* The data-directory locks (index_lock and the OS lock on index.lock).
\* Fault variant of DropDir: a release by someone else.
DirLockFree   == dirLock = NoTask
DropAnyDir(t) == dirLock' = NoTask
DropDir(t)    == dirLock' = IF dirLock = t THEN NoTask ELSE dirLock

Goto(t, l) == pc' = [pc EXCEPT ![t] = l]

\* StaleCheckStamp::keep: the stamp stays, unless the interval has passed or a
\* later search has replaced it meanwhile.
KeepStamp(t) ==
    lastCheck' = [lastCheck EXCEPT ![Home[t]] = IF @ = t THEN "kept" ELSE @]
\* Fault variant of RestoreStamp: the guard's drop gives nothing back.
BadRestoreStamp(t) ==
    lastCheck' = [lastCheck EXCEPT ![Home[t]] = @]

\* StaleCheckStamp::drop without keep.  The value it restores was due when the
\* stamp was taken, so it is due now.
RestoreStamp(t) ==
    lastCheck' = [lastCheck EXCEPT ![Home[t]] = IF @ = t THEN "due" ELSE @]

\* A request ends; everything a task keeps for one request is forgotten.
Forget(t) ==
    /\ req'  = [req  EXCEPT ![t] = NoRequest]
    /\ seen' = [seen EXCEPT ![t] = {}]

Respond(t, status, snapshot) ==
    /\ Goto(t, "done")
    /\ answer' = [answer EXCEPT ![t] = [status |-> status, snapshot |-> snapshot,
                                        checked |-> req[t].fp # NoContent]]

\* stale_refresh_fallback and its like: a compatible snapshot is kept, with a
\* warning; after an identity change there is none.
Fallback(t) == IF IdentityChanged(t) THEN Respond(t, "error", NoTable)
                                     ELSE Respond(t, "warned", req[t].initial)

-----------------------------------------------------------------------------
\* One search: search_once up to the pinned snapshot.

\* search_once reads the snapshot before it decides anything.
StartSearch(t) ==
    /\ pc[t] = "idle"
    /\ req' = [req EXCEPT ![t].initial = table]
    /\ Goto(t, "resolve")
    /\ UNCHANGED <<diskVars, procVars, answer, histVars>>

\* No snapshot: try_write, else queue behind the job that holds the lock.
ResolveMissing(t) ==
    /\ pc[t] = "resolve" /\ Creating(t)
    /\ \/ /\ WriteFree(Home[t])
          /\ TakeWrite(t) /\ Goto(t, "createlocked")
          /\ UNCHANGED waiters
       \/ /\ ~WriteFree(Home[t])
          /\ QueueWrite(t) /\ Goto(t, "createwait")
          /\ UNCHANGED writer
    /\ UNCHANGED <<diskVars, identity, probing, flightError, lastCheck, failedRepair,
                   breaker, req, answer, histVars>>

\* The lock came at once.  Another creator may have committed before it did.
CreateLocked(t) ==
    /\ pc[t] = "createlocked"
    /\ \/ /\ table = NoTable
          /\ flightError' = [flightError EXCEPT ![Home[t]] = FALSE]
          /\ Goto(t, "idx")
          /\ UNCHANGED writer
       \/ /\ table # NoTable
          /\ DropWrite(t) /\ Goto(t, "reread")
          /\ UNCHANGED flightError
    /\ UNCHANGED <<diskVars, identity, waiters, probing, lastCheck, failedRepair, breaker,
                   req, answer, histVars>>

\* The lock came after a wait: a committed snapshot is used, a recorded
\* failure is shared, and otherwise the search indexes by itself.
CreateWaitedUses(t) ==
    /\ pc[t] = "createwaited" /\ table # NoTable
    /\ DropWrite(t) /\ Goto(t, "reread")
    /\ UNCHANGED <<diskVars, identity, waiters, probing, flightError, lastCheck,
                   failedRepair, breaker, req, answer, histVars>>

CreateWaitedShares(t) ==
    /\ pc[t] = "createwaited" /\ table = NoTable /\ flightError[Home[t]]
    /\ DropWrite(t) /\ Respond(t, "shared", NoTable)
    /\ UNCHANGED <<diskVars, identity, waiters, probing, flightError, lastCheck,
                   failedRepair, breaker, req, histVars>>

CreateWaitedIndexes(t) ==
    /\ pc[t] = "createwaited" /\ table = NoTable /\ ~flightError[Home[t]]
    /\ Goto(t, "idx")
    /\ UNCHANGED <<diskVars, procVars, req, answer, histVars>>

\* manual and watch: never refreshed from a search.
ResolveReused(t) ==
    /\ pc[t] = "resolve" /\ ~Creating(t) /\ ~OnSearch
    /\ \/ IdentityChanged(t) /\ Respond(t, "error", NoTable)
       \/ ~IdentityChanged(t) /\ Goto(t, "reread") /\ UNCHANGED answer
    /\ UNCHANGED <<diskVars, procVars, req, histVars>>

\* on-search, StaleCheckStamp::take: stamp when the check is due.
TakeStamp(t) ==
    /\ pc[t] = "resolve" /\ ~Creating(t) /\ OnSearch
    /\ \/ /\ lastCheck[Home[t]] = "due"
          /\ lastCheck' = [lastCheck EXCEPT ![Home[t]] = t]
          /\ Goto(t, "walk")
       \/ /\ lastCheck[Home[t]] # "due"
          /\ Goto(t, "decide")
          /\ UNCHANGED lastCheck
    /\ UNCHANGED <<diskVars, identity, writer, waiters, probing, flightError,
                   failedRepair, breaker, req, answer, histVars>>

\* The fingerprint walk.
Walk(t) ==
    /\ pc[t] = "walk"
    /\ req' = [req EXCEPT ![t].fp = tree]
    /\ seen' = [seen EXCEPT ![t] = {tree}]
    /\ Goto(t, "decide")
    /\ UNCHANGED <<diskVars, procVars, answer, sinceCheck, flights>>

\* A failed walk keeps a compatible snapshot, with a warning.
WalkFails(t) ==
    /\ pc[t] = "walk" /\ Fault("walk")
    /\ KeepStamp(t)
    /\ Fallback(t)
    /\ UNCHANGED <<tree, table, manifest, dirLock, embedder, identity, writer, waiters,
                   probing, flightError, failedRepair, breaker, req, histVars>>

\* Fault variant of FileStale: only a missing manifest counts as stale.
BadFileStale(t) == req[t].fp # NoContent /\ manifest = NoContent

FileStale(t) == req[t].fp # NoContent /\ (manifest = NoContent \/ manifest # req[t].fp)

RepairDue(t) == /\ VectorsMissing(t) /\ req[t].fp # NoContent
                /\ ~breaker[Home[t]] /\ ~failedRepair[Home[t]]

\* Why the index would run: changed files, another identity, missing vectors.
Decide(t) ==
    /\ pc[t] = "decide"
    /\ req' = [req EXCEPT ![t].repairOnly =
                        RepairDue(t) /\ ~FileStale(t) /\ ~IdentityChanged(t)]
    /\ IF FileStale(t) \/ IdentityChanged(t) \/ RepairDue(t)
         THEN Goto(t, "trywrite") /\ UNCHANGED lastCheck
         ELSE Goto(t, "reread") /\ KeepStamp(t)
    /\ UNCHANGED <<diskVars, identity, writer, waiters, probing, flightError,
                   failedRepair, breaker, answer, histVars>>

RefreshTryWrite(t) ==
    /\ pc[t] = "trywrite"
    /\ \/ /\ WriteFree(Home[t])
          /\ TakeWrite(t) /\ Goto(t, "idx")
          /\ UNCHANGED waiters
       \/ /\ ~WriteFree(Home[t])
          /\ QueueWrite(t) /\ Goto(t, "wait")
          /\ UNCHANGED writer
    /\ UNCHANGED <<diskVars, identity, probing, flightError, lastCheck, failedRepair,
                   breaker, req, answer, histVars>>

\* Fault variant of StillStale: the recheck forgets the fingerprint.
BadStillStale(t) == table # NoTable /\ table.identity # identity[Home[t]]

\* The previous holder may have refreshed already: compare again before a run.
StillStale(t) == \/ table # NoTable /\ table.identity # identity[Home[t]]
                 \/ req[t].fp # NoContent /\ manifest # req[t].fp

RefreshRecheck(t) ==
    /\ pc[t] = "waitlocked"
    /\ IF StillStale(t)
         THEN Goto(t, "idx") /\ UNCHANGED <<writer, lastCheck>>
         ELSE Goto(t, "reread") /\ DropWrite(t) /\ KeepStamp(t)
    /\ UNCHANGED <<diskVars, identity, waiters, probing, flightError, failedRepair,
                   breaker, req, answer, histVars>>

\* wait_for_existing_job_seconds elapsed behind another job.  (A probe's read
\* guard lives for one statement, and timeout() polls a free lock first.)
RefreshWaitTimesOut(t) ==
    /\ pc[t] = "wait" /\ writer[Home[t]] # NoTask
    /\ LeaveQueue(t) /\ KeepStamp(t)
    /\ Fallback(t)
    /\ UNCHANGED <<diskVars, identity, writer, probing, flightError, failedRepair,
                   breaker, req, histVars>>

\* Every outcome without a warning pins the table as it is now.
\* Fault variant: a search that found a snapshot keeps it.
PinnedAtStart(t) == IF Creating(t) THEN table ELSE req[t].initial
Pinned(t) == table
Reread(t) ==
    /\ pc[t] = "reread"
    /\ Respond(t, "ok", Pinned(t))
    /\ sinceCheck' = IF req[t].fp = NoContent THEN sinceCheck
                     ELSE [sinceCheck EXCEPT ![Home[t]] = seen[t]]
    /\ UNCHANGED <<diskVars, procVars, req, seen, flights>>

\* The caller has its answer.
Return(t) ==
    /\ pc[t] = "done"
    /\ Goto(t, "idle") /\ Forget(t)
    /\ answer'  = [answer  EXCEPT ![t] = NoAnswer]
    /\ flights' = [flights EXCEPT ![t] = {}]
    /\ UNCHANGED <<diskVars, procVars, sinceCheck>>
-----------------------------------------------------------------------------
\* A writer at the head of the queue gets the lock.

AcquireWrite(t) ==
    /\ pc[t] \in Waiting
    /\ writer[Home[t]] = NoTask /\ ~probing[Home[t]]
    /\ TakeWrite(t) /\ LeaveQueue(t)
    /\ Goto(t, CASE pc[t] = "createwait" -> "createwaited"
                 [] pc[t] = "wait"       -> "waitlocked"
                 [] pc[t] = "indexwait"  -> "indexlocked"
                 [] pc[t] = "watchwait"  -> "watchlocked")
    /\ UNCHANGED <<diskVars, identity, probing, flightError, lastCheck, failedRepair,
                   breaker, req, answer, histVars>>

\* App::index: wait for the lock, start a new flight, run.
StartIndex(t) ==
    /\ pc[t] = "idle"
    /\ QueueWrite(t) /\ Goto(t, "indexwait")
    /\ UNCHANGED <<diskVars, identity, writer, probing, flightError, lastCheck,
                   failedRepair, breaker, req, answer, histVars>>

IndexLocked(t) ==
    /\ pc[t] = "indexlocked"
    /\ flightError' = [flightError EXCEPT ![Home[t]] = FALSE]
    /\ Goto(t, "idx")
    /\ UNCHANGED <<diskVars, identity, writer, waiters, probing, lastCheck, failedRepair,
                   breaker, req, answer, histVars>>

-----------------------------------------------------------------------------
\* The watcher's poll, and index_if_stale once it has seen a change.

WatchWalk(t) ==
    /\ pc[t] = "idle" /\ table # NoTable
    /\ req' = [req EXCEPT ![t].fp = tree]
    /\ Goto(t, "watchseen")
    /\ UNCHANGED <<diskVars, procVars, answer, histVars>>

WatchDone(t) == Goto(t, "idle") /\ Forget(t)

WatchCompare(t) ==
    /\ pc[t] = "watchseen"
    /\ \/ /\ manifest = req[t].fp
          /\ WatchDone(t)
          /\ UNCHANGED waiters
       \/ /\ manifest # req[t].fp
          /\ QueueWrite(t) /\ Goto(t, "watchwait")
          /\ UNCHANGED <<req, seen>>
    /\ UNCHANGED <<diskVars, identity, writer, probing, flightError, lastCheck,
                   failedRepair, breaker, answer, sinceCheck, flights>>

\* Walk again under the lock: the fingerprint from before the debounce is old.
WatchRewalk(t) ==
    /\ pc[t] = "watchlocked"
    /\ req' = [req EXCEPT ![t].fp = tree]
    /\ Goto(t, "watchcompare")
    /\ UNCHANGED <<diskVars, procVars, answer, histVars>>

\* That walk may fail: the pass gives up without a run.
WatchRewalkFails(t) ==
    /\ pc[t] = "watchlocked" /\ Fault("walk")
    /\ DropWrite(t) /\ WatchDone(t)
    /\ UNCHANGED <<tree, table, manifest, dirLock, embedder, identity, waiters, probing,
                   flightError, lastCheck, failedRepair, breaker, answer, sinceCheck,
                   flights>>

WatchRecheck(t) ==
    /\ pc[t] = "watchcompare"
    /\ \/ /\ manifest = req[t].fp
          /\ DropWrite(t) /\ WatchDone(t)
          /\ UNCHANGED flightError
       \/ /\ manifest # req[t].fp
          /\ flightError' = [flightError EXCEPT ![Home[t]] = FALSE]
          /\ Goto(t, "idx")
          /\ UNCHANGED <<writer, req, seen>>
    /\ UNCHANGED <<diskVars, identity, waiters, probing, lastCheck, failedRepair, breaker,
                   answer, sinceCheck, flights>>

-----------------------------------------------------------------------------
\* index_locked.

\* index_lock and the OS lock on index.lock.
RunLock(t) ==
    /\ pc[t] = "idx" /\ DirLockFree
    /\ dirLock' = t
    /\ Goto(t, "scan")
    /\ UNCHANGED <<tree, table, manifest, embedder, faultsLeft, procVars, req, answer,
                   histVars>>

\* try_load, scan_incremental_with and Store::snapshot.  Only a holder of
\* dirLock writes the manifest and the table, so one step reads all three.
RunScan(t) ==
    /\ pc[t] = "scan"
    /\ req' = [req EXCEPT ![t].scanned = tree, ![t].previous = table]
    /\ Goto(t, "embed")
    /\ UNCHANGED <<diskVars, procVars, answer, histVars>>

\* The vectors of the previous snapshot are usable: same identity and real.
Cached(t) == /\ req[t].previous # NoTable
             /\ req[t].previous.identity = identity[Home[t]]
             /\ req[t].previous.vectors = "real"
\* Every chunk of the scan has its vector already.
NothingToEmbed(t) == \/ req[t].scanned \in ChunkFree
                     \/ Cached(t) /\ req[t].previous.content = req[t].scanned
\* Fault variant of MayIndexVectorless: the vector cache is not looked at.
BadMayIndexVectorless(t) ==
    req[t].previous # NoTable => req[t].previous.identity = identity[Home[t]]

\* may_index_vectorless: no real vector to lose, and no identity change.
MayIndexVectorless(t) ==
    req[t].previous # NoTable =>
        /\ req[t].previous.identity = identity[Home[t]]
        /\ req[t].previous.vectors = "missing" \/ req[t].previous.content \in ChunkFree

RunEmbed(t) ==
    /\ pc[t] = "embed"
    /\ \/ /\ NothingToEmbed(t)
          /\ req' = [req EXCEPT ![t].planned = "real"]
          /\ UNCHANGED breaker
       \/ /\ ~NothingToEmbed(t) /\ embedder = "up"
          /\ req' = [req EXCEPT ![t].planned = "real"]
          /\ breaker' = [breaker EXCEPT ![Home[t]] = FALSE]
       \/ /\ ~NothingToEmbed(t) /\ embedder = "down" /\ MayIndexVectorless(t)
          /\ req' = [req EXCEPT ![t].planned = "missing"]
          /\ \E refused \in BOOLEAN :
                breaker' = [breaker EXCEPT ![Home[t]] = @ \/ refused]
    /\ Goto(t, "commit")
    /\ UNCHANGED <<diskVars, identity, writer, waiters, probing, flightError, lastCheck,
                   failedRepair, answer, histVars>>

\* Store::replace or Store::replace_vectorless.
NewTable(t)  == [content |-> req[t].scanned, identity |-> identity[Home[t]],
                 vectors |-> req[t].planned]
RunCommit(t) ==
    /\ pc[t] = "commit"
    /\ table' = NewTable(t)
    /\ Goto(t, "save")
    /\ UNCHANGED <<tree, manifest, dirLock, embedder, faultsLeft, procVars, req, answer,
                   histVars>>

RunEnds(t, how) ==
    flights' = [u \in Task |-> IF u \in Searcher /\ Home[u] = Home[t] /\ InFlight(u)
                               THEN flights[u] \cup {how} ELSE flights[u]]

\* The manifest holds the fingerprint of what was scanned.
\* Fault variant: a fingerprint taken after the commit.
LateFingerprint(t)  == tree
SavedFingerprint(t) == req[t].scanned

\* manifest::save, then the run's locks are released.  The caller of
\* index_locked goes on under the write lock and releases it as well.
RunSave(t) ==
    /\ pc[t] = "save"
    /\ manifest' = SavedFingerprint(t)
    /\ DropDir(t) /\ DropWrite(t)
    /\ failedRepair' = [failedRepair EXCEPT ![Home[t]] =
                          @ \/ (req[t].repairOnly /\ req[t].planned = "missing")]
    /\ IF t \in Searcher /\ ~Creating(t) THEN KeepStamp(t) ELSE UNCHANGED lastCheck
    /\ \/ t \in Searcher /\ Goto(t, "reread")
          /\ UNCHANGED <<req, answer, seen>>
       \/ t \in Indexer /\ Respond(t, "ok", table)
          /\ UNCHANGED <<req, seen>>
       \/ t \in Watcher /\ WatchDone(t)
          /\ UNCHANGED answer
    /\ RunEnds(t, "saved")
    /\ UNCHANGED <<tree, table, embedder, faultsLeft, identity, waiters, probing,
                   flightError, breaker, sinceCheck>>

\* index_locked returns an error; what its caller does with it.
EndFailedRun(t) ==
    /\ DropDir(t) /\ DropWrite(t)
    /\ IF t \in Searcher /\ ~Creating(t)
         THEN \* stale_refresh_fallback
              /\ failedRepair' = [failedRepair EXCEPT ![Home[t]] = @ \/ req[t].repairOnly]
              /\ KeepStamp(t)
              /\ UNCHANGED flightError
         ELSE /\ flightError' = [flightError EXCEPT ![Home[t]] = TRUE]
              /\ UNCHANGED <<failedRepair, lastCheck>>
    /\ RunEnds(t, "failed")
    /\ \/ /\ t \in Watcher /\ WatchDone(t)
          /\ UNCHANGED answer
       \/ /\ t \notin Watcher
          /\ IF t \in Indexer \/ Creating(t) THEN Respond(t, "error", NoTable)
                                             ELSE Fallback(t)
          /\ UNCHANGED <<req, seen>>
    /\ UNCHANGED <<tree, table, manifest, embedder, identity, waiters, probing, sinceCheck>>

RunLockFails(t) ==
    pc[t] = "idx" /\ Fault("lock") /\ EndFailedRun(t) /\ UNCHANGED breaker

RunScanFails(t) ==
    pc[t] = "scan" /\ Fault("scan") /\ EndFailedRun(t) /\ UNCHANGED breaker

\* The service is unreachable, and the snapshot holds vectors that a
\* vectorless commit would lose.
RunEmbedUnavailable(t) ==
    /\ pc[t] = "embed" /\ ~NothingToEmbed(t)
    /\ embedder = "down" /\ ~MayIndexVectorless(t)
    /\ EndFailedRun(t)
    /\ \E refused \in BOOLEAN : breaker' = [breaker EXCEPT ![Home[t]] = @ \/ refused]
    /\ UNCHANGED faultsLeft

\* A configuration or protocol error (HTTP 4xx): never an availability error.
RunEmbedRejected(t) ==
    /\ pc[t] = "embed" /\ ~NothingToEmbed(t) /\ embedder = "up"
    /\ Fault("reject") /\ EndFailedRun(t)
    /\ breaker' = [breaker EXCEPT ![Home[t]] = FALSE]

RunCommitFails(t) ==
    pc[t] = "commit" /\ Fault("commit") /\ EndFailedRun(t) /\ UNCHANGED breaker

RunSaveFails(t) ==
    pc[t] = "save" /\ Fault("gap") /\ EndFailedRun(t) /\ UNCHANGED breaker

RunFails(t) == \/ RunLockFails(t) \/ RunScanFails(t) \/ RunEmbedUnavailable(t)
               \/ RunEmbedRejected(t) \/ RunCommitFails(t) \/ RunSaveFails(t)

-----------------------------------------------------------------------------
\* A dropped request and a dying process.

\* Between the table commit and the manifest save only the "gap" fault strikes.
StruckBy(t, kind) == Fault(IF pc[t] = "save" THEN "gap" ELSE kind)

\* The future of a request is dropped at one of its awaits: its guards go.  A
\* watcher's pass gives up only in its debounce and in the queue (unwatch).
Cancel(t) ==
    /\ InFlight(t) /\ StruckBy(t, "cancel")
    /\ t \in Watcher => pc[t] \in {"watchseen", "watchwait"}
    /\ DropDir(t) /\ DropWrite(t) /\ LeaveQueue(t) /\ RestoreStamp(t)
    /\ Goto(t, "idle") /\ Forget(t)
    /\ flights' = [flights EXCEPT ![t] = {}]
    /\ UNCHANGED <<tree, table, manifest, embedder, identity, probing, flightError,
                   failedRepair, breaker, answer, sinceCheck>>

Local(p) == {t \in Task : Home[t] = p}

\* The process ends and is started again, perhaps configured differently.
Crash(p) ==
    /\ IF \E t \in Local(p) : pc[t] = "save" THEN Fault("gap") ELSE Fault("crash")
    /\ \E i \in Identity :
          /\ i = identity[p] \/ "reconfigure" \in Faults
          /\ identity' = [identity EXCEPT ![p] = i]
    /\ dirLock'      = IF dirLock \in Local(p) THEN NoTask ELSE dirLock
    /\ writer'       = [writer       EXCEPT ![p] = NoTask]
    /\ waiters'      = [waiters      EXCEPT ![p] = {}]
    /\ probing'      = [probing      EXCEPT ![p] = FALSE]
    /\ flightError'  = [flightError  EXCEPT ![p] = FALSE]
    /\ lastCheck'    = [lastCheck    EXCEPT ![p] = "due"]
    /\ failedRepair' = [failedRepair EXCEPT ![p] = FALSE]
    /\ breaker'      = [breaker      EXCEPT ![p] = FALSE]
    /\ sinceCheck'   = [sinceCheck   EXCEPT ![p] = Content]
    /\ pc'         = [t \in Task |-> IF t \in Local(p) THEN "idle" ELSE pc[t]]
    /\ req'    = [t \in Task |-> IF t \in Local(p) THEN NoRequest ELSE req[t]]
    /\ answer'     = [t \in Task |-> IF t \in Local(p) THEN NoAnswer ELSE answer[t]]
    /\ flights'    = [t \in Task |-> IF t \in Local(p) THEN {} ELSE flights[t]]
    /\ seen'       = [t \in Task |-> IF t \in Local(p) THEN {} ELSE seen[t]]
    /\ UNCHANGED <<tree, table, manifest, embedder>>
-----------------------------------------------------------------------------
\* The environment.

\* The user edits the workspace.
Edit ==
    /\ \E c \in Content \ {tree} :
          /\ Reverts \/ c > tree
          /\ tree' = c
    /\ seen' = [t \in Task |-> IF seen[t] = {} THEN {} ELSE seen[t] \cup {tree'}]
    /\ sinceCheck' = [p \in Process |-> sinceCheck[p] \cup {tree'}]
    /\ UNCHANGED <<table, manifest, dirLock, embedder, faultsLeft, procVars, taskVars,
                   flights>>

Outage ==
    /\ embedder = "up" /\ Fault("outage")
    /\ embedder' = "down"
    /\ UNCHANGED <<tree, table, manifest, dirLock, procVars, taskVars, histVars>>
Recover ==
    /\ embedder = "down" /\ embedder' = "up"
    /\ UNCHANGED <<tree, table, manifest, dirLock, faultsLeft, procVars, taskVars,
                   histVars>>

\* A search embeds its query; a refused connection opens the breaker.
QueryRefused(p) ==
    /\ embedder = "down" /\ ~breaker[p]
    /\ breaker' = [breaker EXCEPT ![p] = TRUE]
    /\ UNCHANGED <<diskVars, identity, writer, waiters, probing, flightError, lastCheck,
                   failedRepair, taskVars, histVars>>

\* Time passes: stale_check_interval_seconds, EMBEDDER_DOWN_WINDOW (twice).
CheckFallsDue(p) ==
    /\ lastCheck[p] # "due"
    /\ lastCheck' = [lastCheck EXCEPT ![p] = "due"]
    /\ UNCHANGED <<diskVars, identity, writer, waiters, probing, flightError, failedRepair,
                   breaker, taskVars, histVars>>
RepairWindowEnds(p) ==
    /\ failedRepair[p]
    /\ failedRepair' = [failedRepair EXCEPT ![p] = FALSE]
    /\ UNCHANGED <<diskVars, identity, writer, waiters, probing, flightError, lastCheck,
                   breaker, taskVars, histVars>>
BreakerWindowEnds(p) ==
    /\ breaker[p]
    /\ breaker' = [breaker EXCEPT ![p] = FALSE]
    /\ UNCHANGED <<diskVars, identity, writer, waiters, probing, flightError, lastCheck,
                   failedRepair, taskVars, histVars>>

\* App::status (and the warm start of a search) probe the lock with try_read.
ProbeBegins(p) ==
    /\ StatusCalls /\ WriteFree(p)
    /\ probing' = [probing EXCEPT ![p] = TRUE]
    /\ UNCHANGED <<diskVars, identity, writer, waiters, flightError, lastCheck,
                   failedRepair,
                   breaker, taskVars, histVars>>
ProbeEnds(p) ==
    /\ probing[p]
    /\ probing' = [probing EXCEPT ![p] = FALSE]
    /\ UNCHANGED <<diskVars, identity, writer, waiters, flightError, lastCheck,
                   failedRepair,
                   breaker, taskVars, histVars>>

-----------------------------------------------------------------------------
Run(t) == RunLock(t) \/ RunScan(t) \/ RunEmbed(t) \/ RunCommit(t) \/ RunSave(t) \/ RunFails(t)

Search(t) ==
    \/ ResolveMissing(t) \/ CreateLocked(t)
    \/ CreateWaitedUses(t) \/ CreateWaitedShares(t) \/ CreateWaitedIndexes(t)
    \/ ResolveReused(t) \/ TakeStamp(t) \/ Walk(t) \/ WalkFails(t) \/ Decide(t)
    \/ RefreshTryWrite(t) \/ RefreshRecheck(t) \/ RefreshWaitTimesOut(t)
    \/ Reread(t) \/ Return(t)

Watch(t) == WatchWalk(t) \/ WatchCompare(t) \/ WatchRewalk(t) \/ WatchRewalkFails(t)
              \/ WatchRecheck(t)

Elapse(p) == CheckFallsDue(p) \/ RepairWindowEnds(p) \/ BreakerWindowEnds(p)

Next ==
    \/ \E t \in Searcher : StartSearch(t) \/ Search(t)
    \/ \E t \in Indexer  : StartIndex(t) \/ IndexLocked(t) \/ Return(t)
    \/ \E t \in Watcher  : Watch(t)
    \/ \E t \in Task     : AcquireWrite(t) \/ Run(t) \/ Cancel(t)
    \/ \E p \in Process  : Crash(p) \/ Elapse(p) \/ QueryRefused(p)
                             \/ ProbeBegins(p) \/ ProbeEnds(p)
    \/ Edit \/ Outage \/ Recover

Spec == Init /\ [][Next]_vars

-----------------------------------------------------------------------------
(* Safety *)

\* The snapshot, the manifest, the locks and every task hold what the searches,
\* the index runs and the watch passes put there.
TypeOK ==
    /\ tree \in Content /\ table \in AnySnapshot /\ manifest \in Content \cup {NoContent}
    /\ dirLock \in Task \cup {NoTask}
    /\ embedder \in {"up", "down"} /\ faultsLeft \in 0..MaxFaults
    /\ identity \in [Process -> Identity]
    /\ writer \in [Process -> Task \cup {NoTask}] /\ waiters \in [Process -> SUBSET Task]
    /\ probing \in [Process -> BOOLEAN] /\ flightError \in [Process -> BOOLEAN]
    /\ lastCheck \in [Process -> Task \cup {"due", "kept"}]
    /\ failedRepair \in [Process -> BOOLEAN] /\ breaker \in [Process -> BOOLEAN]
    /\ pc \in [Task -> PCs] /\ req \in [Task -> Request] /\ answer \in [Task -> Answer]
    /\ seen \in [Task -> SUBSET Content] /\ sinceCheck \in [Process -> SUBSET Content]
    /\ flights \in [Task -> SUBSET {"saved", "failed"}]

\* No two index runs are in the pipeline at once, in one process or in several,
\* and no process has two tasks past its write lock, whatever was cancelled,
\* timed out or crashed on the way.
OneRun ==
    /\ \A t, u \in Task : pc[t] \in Running /\ pc[u] \in Running => t = u
    /\ \A t, u \in Task : /\ pc[t] \in Writing /\ pc[u] \in Writing
                          /\ Home[t] = Home[u]
                         => t = u

\* The snapshot a run read before it embedded is still the committed one when
\* it commits: the decision to commit without vectors is not made on old data.
RunSeesCurrentTable ==
    \A t \in Task : pc[t] \in {"embed", "commit"} => req[t].previous = table

\* Index runs have the table to themselves from their first read to their commit.
RunsAreSerial == OneRun /\ RunSeesCurrentTable

\* A run that ends in an error, is dropped or dies leaves the table as the run
\* found it (docs/architecture.md: "A failure keeps the old snapshot and warns").
FailedRunKeepsTable ==
    [][\A t \in Task : /\ pc[t] \in {"embed", "commit", "save"}
                      /\ pc'[t] \notin Running
                      /\ ~RunSave(t)
                      => table' = req[t].previous]_vars

\* No run replaces real vectors by placeholders under the same identity.
VectorsNeverLost ==
    [][table # NoTable /\ table' # table /\ table.vectors = "real"
         /\ table.content \notin ChunkFree
       => table'.vectors = "real"]_vars

\* What is in the table outlives every run that does not commit something at
\* least as good.
TableIsKept == FailedRunKeepsTable /\ VectorsNeverLost

\* A stamp nobody will keep or give back never throttles later searches: the
\* throttle belongs to a search that is still checking, or to a finished check.
NoOrphanStamp ==
    \A p \in Process : lastCheck[p] \in Task =>
        pc[lastCheck[p]] \in Checking /\ Home[lastCheck[p]] = p

\* A search that checked the tree and answers without a warning answers from
\* content that the tree had at its walk or since.
CheckedAnswerIsFresh ==
    \A t \in Searcher : answer[t].status = "ok" /\ answer[t].checked =>
        answer[t].snapshot.content \in seen[t]

\* A search inside the throttle answers from content that the tree had at the
\* walk of the last good check of its process, or since.
ThrottledAnswerIsBounded ==
    [][\A t \in Searcher : pc[t] = "reread" /\ pc'[t] = "done" /\ req[t].fp = NoContent =>
          answer'[t].snapshot.content \in sinceCheck[Home[t]]]_vars

\* No search answers from a snapshot of another embedding identity.
AnswerHasIdentity ==
    \A t \in Searcher : answer[t].status \in {"ok", "warned"} =>
        answer[t].snapshot.identity = identity[Home[t]]

\* While no run is in the pipeline, a manifest that matches the tree stands
\* beside a table that holds the tree: the staleness check misses nothing.
StaleCheckIsSound ==
    (\A t \in Task : pc[t] \notin Running) /\ manifest = tree =>
        table # NoTable /\ table.content = tree

\* What a later search skips its walk for is true: the stamp in its process is
\* of a check that ends, and the stamp on disk tells what is in the table.
StampsAreSound == NoOrphanStamp /\ StaleCheckIsSound

\* A search that answers with another flight's error was there when it failed.
\* (src/app/search.rs: "share its cause instead of starting a duplicate within
\* the same failed flight".)
SharedErrorIsOfThisFlight ==
    \A t \in Searcher : answer[t].status = "shared" => "failed" \in flights[t]

-----------------------------------------------------------------------------
(* Liveness *)

\* What the runtime guarantees: a started request goes on whenever it can, the
\* write lock serves its queue in order (so a waiter that can be served again
\* and again is served), timers fire, a status call ends, and an outage too.
\* A client whose process was restarted watches its workspace again.
Progress ==
    /\ \A t \in Searcher : WF_vars(Search(t))
    /\ \A t \in Indexer  : WF_vars(IndexLocked(t) \/ Return(t))
    /\ \A t \in Watcher  : WF_vars(Watch(t))
    /\ \A t \in Task     : SF_vars(AcquireWrite(t)) /\ WF_vars(Run(t))
    /\ \A p \in Process  : WF_vars(ProbeEnds(p)) /\ WF_vars(CheckFallsDue(p))
                          /\ WF_vars(RepairWindowEnds(p)) /\ WF_vars(BreakerWindowEnds(p))
    /\ WF_vars(Recover)

LiveSpec   == Spec /\ Progress
\* The same where searches keep arriving.
SearchSpec == LiveSpec /\ \A t \in Searcher : WF_vars(StartSearch(t))

\* Every request that is let run ends: no lock, flight or stamp holds it forever.
RequestsEnd == \A t \in Task : InFlight(t) ~> ~InFlight(t)

\* After the last edit and the last fault the index catches up with the tree.
EventuallyFresh == <>[](table # NoTable /\ table.content = tree)
\* The same for a watched workspace, which is indexed before it is watched.
EventuallyFreshWatched == <>[](table # NoTable => table.content = tree)

\* An index without vectors is repaired once the embedding service is back.
EventuallyVectors == <>[](table # NoTable /\ table.vectors = "real")

\* Whatever searches meet on their way, they end, and their process comes to an
\* index of the last tree with its vectors.
EventuallyServed == RequestsEnd /\ EventuallyFresh /\ EventuallyVectors
=============================================================================
