---------------------------- MODULE WatchRegistry ----------------------------
(***************************************************************************)
(* Registration of watchers (App::watch, App::unwatch, the polling task,   *)
(* index_if_stale; src/app/indexing.rs) for one workspace of one process.  *)
(*                                                                         *)
(* A registration is a cancellation token.  The registry holds the current *)
(* one, and each token has a polling task that outlives it for a while: a  *)
(* task that was cancelled may still be scanning, waiting for the write    *)
(* lock or indexing when the next registration is made.  Every critical    *)
(* section of the registry's mutex is free of awaits, so each is one step. *)
(*                                                                         *)
(* The index pass itself is IndexCoord's index_locked; here it scans,      *)
(* commits or fails.  Other processes are IndexCoord's subject.            *)
(***************************************************************************)
EXTENDS Naturals, FiniteSets

CONSTANTS
    Client,      \* callers of watch_workspace
    Job,         \* index_workspace jobs, each runs at most once
    Token,       \* bound: one per registration
    MaxContent,  \* bound: the tree's contents are 1..MaxContent
    MaxVanish,   \* bound: how often the workspace's directory disappears
    MaxFaults,   \* bound: failed scans and passes of the polling tasks
    NoToken, NoOne

Content   == 1..MaxContent
NoContent == 0

ASSUME RegistryAssumption ==
    /\ MaxContent \in Nat \ {0} /\ MaxVanish \in Nat /\ MaxFaults \in Nat
    /\ NoToken \notin Token
    /\ NoOne \notin Token \cup Job
    /\ Token \cap Job = {}

VARIABLES
    exists,     \* whether the workspace's directory is there
    tree,       \* its content
    manifest,   \* the fingerprint of the index
    watchers,   \* App.watchers: the registered token, or NoToken
    cancelled,  \* tokens that are cancelled
    task,       \* where the polling task of a token stands
    current,    \* the fingerprint its last scan found
    writer,     \* holder of the workspace write lock
    job,        \* where an index_workspace job stands
    jobScan,    \* the content it scanned
    client,     \* where a watch call stands
    vanishes, faultsLeft

VARIABLES      \* history, read by properties only
    answered,   \* the registration last reported as watched, until it is
                \* unwatched or the directory disappears
    late,       \* tokens reported while their task was already leaving
    early       \* tokens cancelled before their pass last asked for them

envVars  == <<exists, tree, vanishes, faultsLeft>>
regVars  == <<watchers, cancelled>>
jobVars  == <<job, jobScan>>
histVars == <<answered, late, early>>
watchVars == <<envVars, manifest, regVars, task, current, writer, jobVars, client, histVars>>

\* A task that has passed the cancellation check of its pass.
Committed == {"polled", "rescan", "run", "commit"}
\* A task that holds the write lock.
Writing   == {"rescan", "run", "commit"}
PCs == {"unused", "interval", "scan", "compare", "debounce", "parked", "leaving", "gone"}
         \cup Committed

Live(t) == task[t] \notin {"unused", "gone"}

Fault == /\ faultsLeft > 0
         /\ faultsLeft' = faultsLeft - 1

Goto(t, there) == task' = [task EXCEPT ![t] = there]

\* Leaves the pass: its guard of the write lock is dropped.
EndPass(t) == /\ writer' = NoOne
              /\ Goto(t, "interval")

WatchInit ==
    /\ exists = TRUE /\ tree = 1 /\ manifest = 1
    /\ watchers = NoToken /\ cancelled = {}
    /\ task = [t \in Token |-> "unused"] /\ current = [t \in Token |-> NoContent]
    /\ writer = NoOne
    /\ job = [j \in Job |-> "idle"] /\ jobScan = [j \in Job |-> NoContent]
    /\ client = [c \in Client |-> "idle"]
    /\ vanishes = 0 /\ faultsLeft = MaxFaults
    /\ answered = NoToken /\ late = {} /\ early = {}

-----------------------------------------------------------------------------
\* The calls.

\* watch resolves the path and finds a snapshot; the directory may disappear
\* before it has the registry's lock.
WatchResolves(c) ==
    /\ client[c] = "idle" /\ exists
    /\ client' = [client EXCEPT ![c] = "resolved"]
    /\ UNCHANGED <<envVars, manifest, regVars, task, current, writer, jobVars, histVars>>

WatchAlready(c) ==
    /\ client[c] = "resolved" /\ watchers # NoToken
    /\ client' = [client EXCEPT ![c] = "idle"]
    /\ answered' = IF exists THEN watchers ELSE answered
    /\ late' = IF task[watchers] = "leaving" THEN late \cup {watchers} ELSE late
    /\ UNCHANGED <<envVars, manifest, regVars, task, current, writer, jobVars, early>>

\* The interval's first tick is immediate.
WatchRegisters(c) ==
    /\ client[c] = "resolved" /\ watchers = NoToken
    /\ client' = [client EXCEPT ![c] = "idle"]
    /\ \E t \in Token :
         /\ task[t] = "unused"
         /\ watchers' = t
         /\ Goto(t, "interval")
         /\ answered' = IF exists THEN t ELSE NoToken
    /\ UNCHANGED <<envVars, manifest, cancelled, current, writer, jobVars, late, early>>

\* unwatch also finds a workspace whose directory is gone, by its path.  A call
\* that finds no registration changes nothing.
Unwatch ==
    /\ watchers # NoToken
    /\ watchers' = NoToken
    /\ cancelled' = cancelled \cup {watchers}
    /\ early' = IF task[watchers] \in Committed THEN early ELSE early \cup {watchers}
    /\ answered' = NoToken
    /\ UNCHANGED <<envVars, manifest, task, current, writer, jobVars, client, late>>

-----------------------------------------------------------------------------
\* The polling task of token t.

\* Both selects of the loop are biased to the cancellation.
Stop(t) ==
    /\ task[t] \in {"interval", "debounce"} /\ t \in cancelled
    /\ Goto(t, "leaving")
    /\ UNCHANGED <<envVars, manifest, regVars, current, writer, jobVars, client, histVars>>

Tick(t) ==
    /\ task[t] = "interval" /\ t \notin cancelled
    /\ Goto(t, "scan")
    /\ UNCHANGED <<envVars, manifest, regVars, current, writer, jobVars, client, histVars>>

Scan(t) ==
    /\ task[t] = "scan" /\ exists
    /\ current' = [current EXCEPT ![t] = tree]
    /\ Goto(t, "compare")
    /\ UNCHANGED <<envVars, manifest, regVars, writer, jobVars, client, histVars>>

ScanFindsNothing(t) ==
    /\ task[t] = "scan" /\ ~exists
    /\ Goto(t, "leaving")
    /\ UNCHANGED <<envVars, manifest, regVars, current, writer, jobVars, client, histVars>>

ScanFails(t) ==
    /\ task[t] = "scan" /\ Fault
    /\ Goto(t, "interval")
    /\ UNCHANGED <<exists, tree, vanishes, manifest, regVars, current, writer, jobVars,
                   client, histVars>>

Compare(t) ==
    /\ task[t] = "compare"
    /\ Goto(t, IF current[t] = manifest THEN "interval" ELSE "debounce")
    /\ UNCHANGED <<envVars, manifest, regVars, current, writer, jobVars, client, histVars>>

Debounced(t) ==
    /\ task[t] = "debounce" /\ t \notin cancelled
    /\ Goto(t, "parked")
    /\ UNCHANGED <<envVars, manifest, regVars, current, writer, jobVars, client, histVars>>

\* index_if_stale's select polls the cancellation first and then the lock, in
\* one poll of the task but in two steps for unwatch on another thread.
Ask(t) ==
    /\ task[t] = "parked" /\ t \notin cancelled /\ writer = NoOne
    /\ Goto(t, "polled")
    /\ UNCHANGED <<envVars, manifest, regVars, current, writer, jobVars, client, histVars>>

\* Fault variant of GiveUp: the cancellation is noticed once the lock is free.
GiveUpWhenFree(t) ==
    /\ task[t] = "parked" /\ t \in cancelled /\ writer = NoOne
    /\ Goto(t, "interval")
    /\ UNCHANGED <<envVars, manifest, regVars, current, writer, jobVars, client, histVars>>

GiveUp(t) ==
    /\ task[t] = "parked" /\ t \in cancelled
    /\ Goto(t, "interval")
    /\ UNCHANGED <<envVars, manifest, regVars, current, writer, jobVars, client, histVars>>

Acquire(t) ==
    /\ task[t] = "polled" /\ writer = NoOne
    /\ writer' = t
    /\ Goto(t, "rescan")
    /\ UNCHANGED <<envVars, manifest, regVars, current, jobVars, client, histVars>>

Park(t) ==
    /\ task[t] = "polled" /\ writer # NoOne
    /\ Goto(t, "parked")
    /\ UNCHANGED <<envVars, manifest, regVars, current, writer, jobVars, client, histVars>>

\* Fault variant of Rescan: the fingerprint from before the debounce decides.
RescanTrusting(t) ==
    /\ task[t] = "rescan" /\ exists
    /\ Goto(t, "run")
    /\ UNCHANGED <<envVars, manifest, regVars, current, writer, jobVars, client, histVars>>

\* Under the lock: a job ahead of the pass may have committed the change.
Rescan(t) ==
    /\ task[t] = "rescan" /\ exists
    /\ current' = [current EXCEPT ![t] = tree]
    /\ IF tree = manifest THEN EndPass(t)
                          ELSE Goto(t, "run") /\ UNCHANGED writer
    /\ UNCHANGED <<envVars, manifest, regVars, jobVars, client, histVars>>

\* The pass scans once more for its run.
RunScan(t) ==
    /\ task[t] = "run" /\ exists
    /\ current' = [current EXCEPT ![t] = tree]
    /\ Goto(t, "commit")
    /\ UNCHANGED <<envVars, manifest, regVars, writer, jobVars, client, histVars>>

RunCommit(t) ==
    /\ task[t] = "commit"
    /\ manifest' = current[t]
    /\ EndPass(t)
    /\ UNCHANGED <<envVars, regVars, current, jobVars, client, histVars>>

\* Fault variant of PassFails: the error of a pass ends the polling task.
PassEndsTask(t) ==
    /\ task[t] \in Writing /\ Fault
    /\ writer' = NoOne /\ Goto(t, "gone")
    /\ UNCHANGED <<exists, tree, vanishes, manifest, regVars, current, jobVars, client, histVars>>

\* A walk of a directory that is gone is an error; other failures are faults.
PassFails(t) ==
    /\ \/ task[t] \in {"rescan", "run"} /\ ~exists /\ UNCHANGED faultsLeft
       \/ task[t] \in Writing /\ Fault
    /\ EndPass(t)
    /\ UNCHANGED <<exists, tree, vanishes, manifest, regVars, current, jobVars, client, histVars>>

\* Fault variant of Leave: whatever is registered is removed.
LeaveAlways(t) ==
    /\ task[t] = "leaving"
    /\ Goto(t, "gone")
    /\ watchers' = NoToken
    /\ cancelled' = cancelled \cup {t}
    /\ UNCHANGED <<envVars, manifest, current, writer, jobVars, client, histVars>>

\* An old task must not remove a replacement.
Leave(t) ==
    /\ task[t] = "leaving"
    /\ Goto(t, "gone")
    /\ watchers' = IF t \in cancelled THEN watchers ELSE NoToken
    /\ cancelled' = cancelled \cup {t}
    /\ UNCHANGED <<envVars, manifest, current, writer, jobVars, client, histVars>>

TaskStep(t) ==
    \/ Stop(t) \/ Tick(t) \/ Scan(t) \/ ScanFindsNothing(t) \/ ScanFails(t)
    \/ Compare(t) \/ Debounced(t) \/ Ask(t) \/ GiveUp(t) \/ Acquire(t) \/ Park(t)
    \/ Rescan(t) \/ RunScan(t) \/ RunCommit(t) \/ PassFails(t) \/ Leave(t)

-----------------------------------------------------------------------------
\* index_workspace jobs and the user.

JobStarts(j) ==
    /\ job[j] = "idle" /\ writer = NoOne /\ exists
    /\ writer' = j
    /\ job' = [job EXCEPT ![j] = "running"]
    /\ jobScan' = [jobScan EXCEPT ![j] = tree]
    /\ UNCHANGED <<envVars, manifest, regVars, task, current, client, histVars>>

JobEnds(j) ==
    /\ job[j] = "running"
    /\ writer' = NoOne
    /\ job' = [job EXCEPT ![j] = "done"]
    /\ manifest' \in {manifest, jobScan[j]}      \* it may fail
    /\ UNCHANGED <<envVars, regVars, task, current, jobScan, client, histVars>>

Edit ==
    /\ exists /\ tree < MaxContent
    /\ tree' = tree + 1
    /\ UNCHANGED <<exists, vanishes, faultsLeft, manifest, regVars, task, current, writer,
                   jobVars, client, histVars>>

Vanish ==
    /\ exists /\ vanishes < MaxVanish
    /\ exists' = FALSE /\ vanishes' = vanishes + 1
    /\ answered' = NoToken
    /\ UNCHANGED <<tree, faultsLeft, manifest, regVars, task, current, writer, jobVars,
                   client, late, early>>

Reappear ==
    /\ ~exists /\ exists' = TRUE
    /\ UNCHANGED <<tree, vanishes, faultsLeft, manifest, regVars, task, current, writer,
                   jobVars, client, histVars>>

WatchNext ==
    \/ \E c \in Client : WatchResolves(c) \/ WatchAlready(c) \/ WatchRegisters(c)
    \/ Unwatch
    \/ \E t \in Token : TaskStep(t)
    \/ \E j \in Job : JobStarts(j) \/ JobEnds(j)
    \/ Edit \/ Vanish \/ Reappear

WatchSpec == WatchInit /\ [][WatchNext]_watchVars

\* The runtime polls a task that can go on, and timers fire.  A job that has
\* the write lock may keep it for as long as it likes.
TaskFairness == \A t \in Token : WF_watchVars(TaskStep(t))
TaskSpec == WatchSpec /\ TaskFairness

-----------------------------------------------------------------------------
\* Properties.

\* The registry, its tasks, the manual jobs and the watch requests are at a step
\* of watch, unwatch, watch_loop or index.
WatchTypeOK ==
    /\ exists \in BOOLEAN /\ tree \in Content
    /\ manifest \in Content
    /\ watchers \in Token \cup {NoToken} /\ cancelled \subseteq Token
    /\ task \in [Token -> PCs] /\ current \in [Token -> Content \cup {NoContent}]
    /\ writer \in Token \cup Job \cup {NoOne}
    /\ job \in [Job -> {"idle", "running", "done"}]
    /\ jobScan \in [Job -> Content \cup {NoContent}]
    /\ client \in [Client -> {"idle", "resolved"}]
    /\ vanishes \in 0..MaxVanish /\ faultsLeft \in 0..MaxFaults
    /\ answered \in Token \cup {NoToken}
    /\ late \subseteq Token /\ early \subseteq Token

\* The registry names the one live task that is not cancelled: an old task's
\* exit removes no replacement, unwatch leaves no task polling, and no
\* registration stands without its task (indexing.rs 1025-1036, 1062-1064).
RegistryExact == \A t \in Token : watchers = t <=> Live(t) /\ t \notin cancelled

\* A caller who was told that the workspace is watched can rely on it until
\* someone unwatches it or its directory disappears
\* (docs/reference/mcp-and-rest.md 14).
WatchAnswerHolds == answered # NoToken => watchers = answered

\* That holds unless the answer was given for a task that was leaving already,
\* because it had found the directory missing before it came back.
EarlyWatchAnswerHolds == answered \notin late \cup {NoToken} => watchers = answered

\* A pass whose registration ended before it last asked does not commit,
\* wherever it stood then: in its scan, its debounce or its wait for the lock.
UnwatchedPassGivesUp == [][\A t \in early : writer = t => manifest' = manifest]_watchVars

\* A pass that waited behind a job commits nothing that job has committed
\* (indexing.rs 435-441).
NoRedundantRun == \A t \in Token : task[t] = "commit" => current[t] # manifest

\* Passes and jobs are one at a time, and nobody's guard is forgotten.
WriterIsOne ==
    /\ \A t \in Token : task[t] \in Writing <=> writer = t
    /\ \A j \in Job : job[j] = "running" <=> writer = j

\* Every pass is one of a registered watcher or of one that was told to stop,
\* has the index to itself, and has something to do.
PassesMatchTheRegistry == RegistryExact /\ NoRedundantRun /\ WriterIsOne

\* The task of a cancelled registration ends, even behind a job that never
\* gives the write lock back.
CancelledTaskEnds == \A t \in Token : t \in cancelled ~> task[t] = "gone"

\* No job keeps the write lock forever.
JobsEnd == \A j \in Job : job[j] = "running" ~> job[j] # "running"

\* While the workspace is watched its index keeps catching up with the tree,
\* through failed scans and passes, if no job keeps the lock.
WatchedCatchesUp == JobsEnd => []<>(manifest = tree \/ ~exists \/ watchers = NoToken)

\* A watcher does not outlive the workspace's directory, if no job keeps the lock.
VanishedIsUnwatched == JobsEnd => (~exists ~> (exists \/ watchers = NoToken))

\* What watched a workspace that nobody watches any more comes to its end, and
\* commits nothing on its way there.
UnwatchedWorkEnds == UnwatchedPassGivesUp /\ CancelledTaskEnds /\ VanishedIsUnwatched
=============================================================================
