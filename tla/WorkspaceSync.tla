---------------------------- MODULE WorkspaceSync ----------------------------
(***************************************************************************)
(* sync = "watch" (lci-core/src/lsp/sync.rs, and its sink in lsp.rs): a    *)
(* watcher's events are queued, and a drain turns what is queued, and after*)
(* an overflow the difference between the table and a new walk, into one   *)
(* batch for every server of the workspace.  The forwarding task drains    *)
(* when it is woken; every request drains before it is sent.               *)
(*                                                                         *)
(* A file's history is a number: 0 absent, 1 created, 2 modified, 3        *)
(* deleted, 4 created again, and so on.  A server that is told of a file   *)
(* reads it, so what it knows of a file is such a number too.  The kinds   *)
(* of the changes are left out.                                            *)
(*                                                                         *)
(* External: the disk, the watcher's thread, the servers.                  *)
(***************************************************************************)
EXTENDS Naturals, FiniteSets

CONSTANTS
    File, Server, Request,
    Task,          \* the forwarding task
    MaxEdits,      \* bound: a file's history
    MaxAlarms,     \* bound: overflows and watcher errors
    Unknown, Gone, \* the table: no row, the row of an absent file
    NoOne

Version == 0..MaxEdits
Stamp == Version \cup {Unknown, Gone}

ASSUME SyncAssumption ==
    /\ MaxEdits \in Nat \ {0} /\ MaxAlarms \in Nat
    /\ Task \notin Request /\ NoOne \notin Request \cup {Task} \cup [File -> Stamp]
    /\ Unknown # Gone /\ {Unknown, Gone} \cap Version = {}

Drainer == Request \cup {Task}

VARIABLES
    disk, unreported, watching, alarms, \* the files, the watcher and its thread
    queue, alarm,   \* Shared.queue: the files it names, and whether it asks for a walk
    permit, rescan, \* Shared.pending, Shared.rescan
    table,          \* Shared.table
    turn,           \* Shared.drain: who holds it
    batch, rows, left, \* of that drain: the changes, the rows, the servers to tell
    listing,        \* the walk the task has made: NoOne, or what it saw of each file
    at,             \* where the task and the requests are
    start, owed,   \* the servers' starts, and the notifications spawned for them
    knows,          \* what each server has read of each file
    reported, wants, \* history: what the watcher has reported, and had when a request began
    excused         \* history: what a server will not be told, see QuietMeansTold

treeVars == <<disk, unreported, watching, alarms>>
queueVars == <<queue, alarm>>
drainVars == <<turn, batch, rows, left>>
knowVars == <<start, owed, knows>>
pastVars == <<reported, wants, excused>>
syncVars == <<treeVars, queueVars, permit, rescan, table, drainVars, listing, at, knowVars, pastVars>>

Present(v) == v % 3 # 0
StampOf(v) == IF Present(v) THEN v ELSE Gone

SyncInit ==
    /\ disk \in [File -> {0, 1}] /\ unreported = {} /\ watching = FALSE /\ alarms = 0
    /\ queue = {} /\ alarm = FALSE /\ permit = FALSE /\ rescan = FALSE
    /\ table = [f \in File |-> Unknown]
    /\ turn = NoOne /\ batch = {} /\ rows = {} /\ left = {} /\ listing = NoOne
    /\ at = [x \in Drainer |-> IF x = Task THEN "off" ELSE "idle"]
    /\ start = [s \in Server |-> "none"] /\ owed = {}
    /\ knows = [s \in Server |-> disk]
    /\ reported = disk /\ wants = [r \in Request |-> disk] /\ excused = {}

Moves(x, p) == at' = [at EXCEPT ![x] = p]
\* Servers that have read the tree, and are not told of what happens to f now.
Missed(f) == {s \in Server : start[s] \in {"read", "ready"}} \X {f}

-----------------------------------------------------------------------------
\* The disk and the watcher.

FileEdit(f) ==
    /\ \E v \in {disk[f] + 1} \cup (IF disk[f] % 3 = 1 THEN {disk[f] + 2} ELSE {}) :
         v <= MaxEdits /\ disk' = [disk EXCEPT ![f] = v]
    /\ IF watching
         THEN unreported' = unreported \cup {f} /\ UNCHANGED excused
         ELSE excused' = excused \cup Missed(f) /\ UNCHANGED unreported
    /\ UNCHANGED <<watching, alarms, queueVars, permit, rescan, table, drainVars, listing, at,
                   knowVars, reported, wants>>

\* Shared::push.
Push(f) ==
    /\ f \in unreported
    /\ unreported' = unreported \ {f} /\ queue' = queue \cup {f} /\ permit' = TRUE
    /\ reported' = [reported EXCEPT ![f] = disk[f]]
    /\ UNCHANGED <<disk, watching, alarms, alarm, rescan, table, drainVars, listing, at,
                   knowVars, wants, excused>>

\* An overflow or an error: the events are lost, the alarm is queued.
PushAlarm ==
    /\ alarms < MaxAlarms /\ alarms' = alarms + 1
    /\ unreported # {} /\ unreported' = {}
    /\ alarm' = TRUE /\ permit' = TRUE
    /\ UNCHANGED <<disk, watching, queue, rescan, table, drainVars, listing, at, knowVars, pastVars>>

-----------------------------------------------------------------------------
\* The forwarding task (run).

\* The platform's watcher, or the polling one; or neither.
TaskOpens ==
    /\ at[Task] = "opening" /\ Moves(Task, "first")
    /\ watching' \in BOOLEAN
    /\ UNCHANGED <<disk, unreported, alarms, queueVars, permit, rescan, table, drainVars, listing,
                   knowVars, pastVars>>

Walks == listing' = [f \in File |-> StampOf(disk[f])]

\* The walk at the start; a walk that fails lists nothing.
TaskFirstWalk ==
    /\ at[Task] = "first" /\ Moves(Task, "merge")
    /\ Walks \/ UNCHANGED listing
    /\ UNCHANGED <<treeVars, queueVars, permit, rescan, table, drainVars, knowVars, pastVars>>

\* A row that an event made meanwhile stays; nobody is told of the others.
Merged(f) == table[f] = Unknown /\ listing # NoOne /\ listing[f] # Gone
TaskMerges ==
    /\ at[Task] = "merge" /\ Moves(Task, "loop")
    /\ listing' = NoOne
    /\ table' = [f \in File |-> IF Merged(f) THEN listing[f] ELSE table[f]]
    /\ excused' = excused \cup {x \in Server \X File : Merged(x[2]) /\ knows[x[1]][x[2]] # listing[x[2]]}
    /\ UNCHANGED <<treeVars, queueVars, permit, rescan, drainVars, knowVars, reported, wants>>

TaskTurns ==
    /\ at[Task] = "loop"
    /\ rescan' = FALSE /\ Moves(Task, IF rescan THEN "walk" ELSE "drain")
    /\ UNCHANGED <<treeVars, queueVars, permit, table, drainVars, listing, knowVars, pastVars>>

TaskWalks ==
    /\ at[Task] = "walk" /\ Moves(Task, "drain")
    /\ Walks
    /\ UNCHANGED <<treeVars, queueVars, permit, rescan, table, drainVars, knowVars, pastVars>>

\* A walk that fails is not repeated: what was lost stays lost.
TaskWalkFails ==
    /\ at[Task] = "walk" /\ Moves(Task, "drain")
    /\ excused' = excused \cup {x \in Server \X File : knows[x[1]][x[2]] # disk[x[2]]}
    /\ UNCHANGED <<treeVars, queueVars, permit, rescan, table, drainVars, listing, knowVars,
                   reported, wants>>

TaskRests ==
    /\ at[Task] = "rest" /\ Moves(Task, IF rescan THEN "loop" ELSE "wait")
    /\ UNCHANGED <<treeVars, queueVars, permit, rescan, table, drainVars, listing, knowVars, pastVars>>

TaskWakes ==
    /\ at[Task] = "wait" /\ permit
    /\ permit' = FALSE /\ Moves(Task, "loop")
    /\ UNCHANGED <<treeVars, queueVars, rescan, table, drainVars, listing, knowVars, pastVars>>

-----------------------------------------------------------------------------
\* A drain.

\* What differs between the table and the walk.
Differs(f) ==
    IF listing[f] # Gone THEN table[f] # listing[f]
    ELSE table[f] \in Version /\ ~Present(disk[f])

\* A deletion that only the walk can show, of a file that has no row: the walk
\* does not show it.
Rowless(s, f) ==
    /\ listing # NoOne /\ listing[f] = Gone /\ table[f] \notin Version /\ f \notin queue
    /\ Present(knows[s][f])

Turns(x) ==
    /\ at[x] = "drain" /\ turn = NoOne
    /\ turn' = x /\ Moves(x, "telling")
    /\ queue' = {} /\ alarm' = FALSE
    /\ rescan' = (alarm \/ rescan) /\ permit' = (alarm \/ permit)
    /\ batch' = queue \cup (IF x = Task /\ listing # NoOne THEN {f \in File : Differs(f)} ELSE {})
    /\ rows' = {<<f, StampOf(disk[f])>> : f \in queue}
    /\ left' = IF batch' = {} THEN {} ELSE {s \in Server : start[s] # "none"}
    /\ excused' = IF x = Task
                    THEN excused \cup {y \in Server \X File : Rowless(y[1], y[2])} ELSE excused
    /\ UNCHANGED <<treeVars, table, listing, knowVars, reported, wants>>

\* Fault variant of TakesTurn: a request does not wait for a drain in progress.
TakesTurnOrSkips(x) ==
    \/ Turns(x)
    \/ /\ x # Task /\ at[x] = "drain" /\ turn # NoOne /\ Moves(x, "send")
       /\ UNCHANGED <<treeVars, queueVars, permit, rescan, table, drainVars, listing, knowVars, pastVars>>

\* The lock, take_events (an alarm raises the flag and wakes the task), the
\* batch typed by the disk, and the sessions of the workspace: no other drain is
\* in between.
TakesTurn(x) == Turns(x)

Learns(s, files) ==
    /\ knows' = [knows EXCEPT ![s] = [f \in File |-> IF f \in files THEN disk[f] ELSE @[f]]]
    /\ excused' = excused \ ({s} \X files)

\* forward_to_sessions: a server that is still starting is told by a task of its
\* own, later.
Tells(x, s) ==
    /\ turn = x /\ s \in left /\ left' = left \ {s}
    /\ IF start[s] = "ready" THEN Learns(s, batch) /\ UNCHANGED owed
         ELSE /\ owed' = owed \cup ({s} \X batch)
              /\ UNCHANGED <<knows, excused>>
    /\ UNCHANGED <<treeVars, queueVars, permit, rescan, table, turn, batch, rows, listing, at, start,
                   reported, wants>>

RowOf(f) == CHOOSE row \in Stamp : <<f, row>> \in rows
HasRow(f) == \E row \in Stamp : <<f, row>> \in rows
\* The table of a drain by x: the walk's, when it has one, and the batch's rows.
BaseRow(x, f) ==
    IF x = Task /\ listing # NoOne THEN (IF listing[f] = Gone THEN Unknown ELSE listing[f]) ELSE table[f]

Ends(x, newTable) ==
    /\ turn = x /\ left = {}
    /\ table' = newTable
    /\ turn' = NoOne /\ batch' = {} /\ rows' = {}
    /\ listing' = IF x = Task THEN NoOne ELSE listing
    /\ Moves(x, IF x = Task THEN "rest" ELSE "send")
    /\ UNCHANGED <<treeVars, queueVars, permit, rescan, left, knowVars, pastVars>>

\* Fault variant of EndsTurn: the rows are read from the disk after the sends.
EndsTurnLate(x) ==
    Ends(x, [f \in File |-> IF HasRow(f) THEN StampOf(disk[f]) ELSE BaseRow(x, f)])

EndsTurn(x) == Ends(x, [f \in File |-> IF HasRow(f) THEN RowOf(f) ELSE BaseRow(x, f)])

-----------------------------------------------------------------------------
\* Requests (Manager::client, drain_now).

RequestBegins(r) ==
    /\ at[r] = "idle" /\ \E s \in Server : start[s] = "ready"
    /\ Moves(r, "drain") /\ wants' = [wants EXCEPT ![r] = reported]
    /\ UNCHANGED <<treeVars, queueVars, permit, rescan, table, drainVars, listing, knowVars,
                   reported, excused>>

RequestSent(r) ==
    /\ at[r] = "send" /\ Moves(r, "idle")
    /\ UNCHANGED <<treeVars, queueVars, permit, rescan, table, drainVars, listing, knowVars, pastVars>>

\* The caller goes away while it waits for its turn, or between two sends: the
\* events it took are in no queue any more.
RequestCancelled(r) ==
    /\ at[r] = "drain" \/ (turn = r /\ left # {})
    /\ Moves(r, "idle")
    /\ IF turn = r THEN /\ turn' = NoOne /\ batch' = {} /\ rows' = {} /\ left' = {}
                        /\ excused' = excused \cup (left \X batch)
         ELSE UNCHANGED <<drainVars, excused>>
    /\ UNCHANGED <<treeVars, queueVars, permit, rescan, table, listing, knowVars, reported, wants>>

-----------------------------------------------------------------------------
\* The servers.

\* The first session starts the sync (ensure_sync).
ServerBegins(s) ==
    /\ start[s] = "none" /\ start' = [start EXCEPT ![s] = "starting"]
    /\ at' = [at EXCEPT ![Task] = IF @ = "off" THEN "opening" ELSE @]
    /\ UNCHANGED <<treeVars, queueVars, permit, rescan, table, drainVars, listing, owed, knows, pastVars>>

ServerReads(s) ==
    /\ start[s] = "starting" /\ start' = [start EXCEPT ![s] = "read"]
    /\ Learns(s, File)
    /\ UNCHANGED <<treeVars, queueVars, permit, rescan, table, drainVars, listing, at, owed, reported, wants>>

ServerReady(s) ==
    /\ start[s] = "read" /\ start' = [start EXCEPT ![s] = "ready"]
    /\ UNCHANGED <<treeVars, queueVars, permit, rescan, table, drainVars, listing, at, owed, knows, pastVars>>

\* The task spawned for a starting server sends its notification.
OwedTold(s) ==
    /\ start[s] = "ready" /\ \E f \in File : <<s, f>> \in owed
    /\ \E f \in File : <<s, f>> \in owed /\ Learns(s, {f}) /\ owed' = owed \ {<<s, f>>}
    /\ UNCHANGED <<treeVars, queueVars, permit, rescan, table, drainVars, listing, at, start,
                   reported, wants>>

SyncNext ==
    \/ \E f \in File : FileEdit(f) \/ Push(f)
    \/ PushAlarm
    \/ TaskOpens \/ TaskFirstWalk \/ TaskMerges \/ TaskTurns \/ TaskWalks \/ TaskWalkFails
    \/ TaskRests \/ TaskWakes
    \/ \E x \in Drainer : TakesTurn(x) \/ EndsTurn(x) \/ \E s \in Server : Tells(x, s)
    \/ \E r \in Request : RequestBegins(r) \/ RequestSent(r) \/ RequestCancelled(r)
    \/ \E s \in Server : ServerBegins(s) \/ ServerReads(s) \/ ServerReady(s) \/ OwedTold(s)

SyncSpec == SyncInit /\ [][SyncNext]_syncVars

-----------------------------------------------------------------------------
\* Properties.

\* The watcher, the table of stamps and the tasks that drain it are at a step of
\* WorkspaceSync.
SyncTypeOK ==
    /\ disk \in [File -> Version] /\ unreported \subseteq File /\ watching \in BOOLEAN
    /\ alarms \in 0..MaxAlarms /\ queue \subseteq File
    /\ alarm \in BOOLEAN /\ permit \in BOOLEAN /\ rescan \in BOOLEAN
    /\ table \in [File -> Stamp] /\ turn \in Drainer \cup {NoOne}
    /\ batch \subseteq File /\ rows \subseteq File \X Stamp /\ left \subseteq Server
    /\ listing = NoOne \/ listing \in [File -> Stamp]
    /\ at \in [Drainer -> {"off", "opening", "first", "merge", "loop", "walk", "rest", "wait",
                           "idle", "drain", "telling", "send"}]
    /\ start \in [Server -> {"none", "starting", "read", "ready"}]
    /\ owed \subseteq Server \X File /\ excused \subseteq Server \X File
    /\ knows \in [Server -> [File -> Version]] /\ reported \in [File -> Version]
    /\ wants \in [Request -> [File -> Version]]

Quiet ==
    /\ unreported = {} /\ queue = {} /\ ~alarm /\ ~rescan /\ ~permit
    /\ turn = NoOne /\ owed = {} /\ at[Task] = "wait"

\* What a server has read of a file is what is on disk.
UpToDate(s, f) == StampOf(knows[s][f]) = StampOf(disk[f])

\* When nothing is under way, every server has read every file as it is, but
\* for what was lost in one of four ways: a change before the watcher was open
\* or that only the walk at the start has shown, a drain cancelled between two
\* sends, a rescan whose walk failed, or a deletion that only a rescan can
\* show, of a file that has no row (sync.rs 8).
QuietMeansTold ==
    Quiet => \A s \in Server, f \in File :
        start[s] = "ready" /\ <<s, f>> \notin excused => UpToDate(s, f)

\* What the watcher had reported before a request began reaches the servers
\* that were up before the request does (sync.rs 46), even when another drain
\* had taken it from the queue.
ReportedReachesServersFirst ==
    \A r \in Request, s \in Server, f \in File :
        at[r] = "send" /\ start[s] = "ready" /\ <<s, f>> \notin excused \cup owed =>
            knows[s][f] >= wants[r][f]

\* The task never sleeps on queued events or on a rescan that a request's drain
\* has found (sync.rs 160).
NeverLeftAsleep == at[Task] = "wait" /\ (queue # {} \/ alarm \/ rescan) => permit

\* No change stays with the sync for good: it is under way or it was told.
NothingIsLeftUntold == QuietMeansTold /\ NeverLeftAsleep
=============================================================================
