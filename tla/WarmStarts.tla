----------------------------- MODULE WarmStarts -----------------------------
(***************************************************************************)
(* Warm starts of language servers (src/app/mod.rs warm_language_servers,  *)
(* warm_start_due, stop_warm_starts; src/app/navigation.rs                 *)
(* release_language_servers, shutdown_language_servers).                   *)
(*                                                                         *)
(* The first touch of a workspace spawns a task that registers a session   *)
(* per provider with the session manager.  A release of the workspace, or  *)
(* the shutdown of the service, aborts the task, waits until it is gone,   *)
(* and then empties the manager's registry.  An abort takes effect at the  *)
(* task's next await: until then the task, which may be running on another *)
(* thread, still registers sessions.                                       *)
(*                                                                         *)
(* The manager is seen from outside: a session is there or not, and who    *)
(* registered it (lci-core/src/lsp.rs session, release, shutdown_all).     *)
(***************************************************************************)
EXTENDS Naturals, FiniteSets

CONSTANTS
    Workspace, Provider,
    Toucher,     \* index_status and search_code calls
    Stopper,     \* release calls and the shutdown, each made once
    Warm,        \* bound: the warm-start tasks there can be
    Absent, Tombstone, NoSession, Request,
    All,         \* the shutdown's scope
    Nowhere

ASSUME WarmAssumption ==
    /\ Absent \notin Warm /\ Tombstone \notin Warm \cup {Absent}
    /\ NoSession \notin Warm /\ Request \notin Warm \cup {NoSession}
    /\ All \notin Workspace /\ Nowhere \notin Workspace \cup {All}

VARIABLES
    entries,   \* WarmStarts.entries: Absent, Tombstone, or the workspace's task
    closed,    \* WarmStarts.closed
    warm,      \* "unused", "running", "aborting", "ended"
    place,     \* the workspace a task warms
    todo,      \* the providers whose session it has not begun yet
    begun,     \* those whose session it began and has yet to wait for
    sessions,  \* the manager's registry: who registered a session, if any
    building,  \* workspaces whose write lock a build holds
    touch,     \* the workspace a touch has found due, or Nowhere
    stop,      \* "idle", "waiting", "releasing", "stopped", "dropped"
    scope,     \* the workspace a stop is about, or All
    waits      \* the tasks it waits for

warmVars == <<warm, place, todo, begun>>
stopVars == <<stop, scope, waits>>
startVars == <<entries, closed, warmVars, sessions, building, touch, stopVars>>

Alive(n) == warm[n] \in {"running", "aborting"}
InScope(w, s) == scope[s] \in {w, All}

WarmInit ==
    /\ entries = [w \in Workspace |-> Absent] /\ closed = FALSE
    /\ warm = [n \in Warm |-> "unused"] /\ place = [n \in Warm |-> Nowhere]
    /\ todo = [n \in Warm |-> {}] /\ begun = [n \in Warm |-> {}]
    /\ sessions = [k \in Workspace \X Provider |-> NoSession]
    /\ building = {} /\ touch = [c \in Toucher |-> Nowhere]
    /\ stop = [s \in Stopper |-> "idle"] /\ scope = [s \in Stopper |-> Nowhere]
    /\ waits = [s \in Stopper |-> {}]

-----------------------------------------------------------------------------
\* Touches.

\* warm_start_due
Due(w) == ~closed /\ entries[w] = Absent

\* A call that finds its workspace due reads the index's languages next.
Touch(c, w) ==
    /\ touch[c] = Nowhere /\ Due(w)
    /\ touch' = [touch EXCEPT ![c] = w]
    /\ UNCHANGED <<entries, closed, warmVars, sessions, building, stopVars>>

\* Under the read guard of the workspace and the lock of the entries: the entry
\* and its task are registered together.
WarmBegins(c) ==
    /\ touch[c] \in Workspace \ building /\ Due(touch[c])
    /\ touch' = [touch EXCEPT ![c] = Nowhere]
    /\ \E n \in Warm :
         /\ warm[n] = "unused"
         /\ warm' = [warm EXCEPT ![n] = "running"]
         /\ place' = [place EXCEPT ![n] = touch[c]]
         /\ todo' = [todo EXCEPT ![n] = Provider]
         /\ entries' = [entries EXCEPT ![touch[c]] = n]
    /\ UNCHANGED <<closed, begun, sessions, building, stopVars>>

\* A build runs, or somebody was faster.
TouchEnds(c) ==
    /\ touch[c] # Nowhere /\ (touch[c] \in building \/ ~Due(touch[c]))
    /\ touch' = [touch EXCEPT ![c] = Nowhere]
    /\ UNCHANGED <<entries, closed, warmVars, sessions, building, stopVars>>

-----------------------------------------------------------------------------
\* The task.

Registers(by, w, p) ==
    sessions' = [sessions EXCEPT ![<<w, p>>] = IF @ = NoSession THEN by ELSE @]

\* prime_languages begins a session per provider, or shares the one there is.
WarmServer(n) ==
    /\ Alive(n)
    /\ \E p \in todo[n] :
         /\ todo' = [todo EXCEPT ![n] = @ \ {p}]
         /\ begun' = [begun EXCEPT ![n] = @ \cup {p}]
         /\ Registers(n, place[n], p)
    /\ UNCHANGED <<entries, closed, warm, place, building, touch, stopVars>>

\* Its probe fails, or its breaker's window is open.
WarmSkips(n) ==
    /\ Alive(n)
    /\ \E p \in todo[n] : todo' = [todo EXCEPT ![n] = @ \ {p}]
    /\ UNCHANGED <<entries, closed, warm, place, begun, sessions, building, touch, stopVars>>

\* Then it waits for each client in turn, which asks for the session again: one
\* that ended meanwhile is begun anew.
WarmWaits(n) ==
    /\ Alive(n) /\ todo[n] = {}
    /\ \E p \in begun[n] :
         /\ begun' = [begun EXCEPT ![n] = @ \ {p}]
         /\ Registers(n, place[n], p)
    /\ UNCHANGED <<entries, closed, warm, place, todo, building, touch, stopVars>>

\* A server that is slow to start holds the task for as long as it likes.
WarmFinishes(n) ==
    /\ Alive(n) /\ todo[n] = {} /\ begun[n] = {}
    /\ warm' = [warm EXCEPT ![n] = "ended"]
    /\ UNCHANGED <<entries, closed, place, todo, begun, sessions, building, touch, stopVars>>

AbortTakesEffect(n) ==
    /\ warm[n] = "aborting"
    /\ warm' = [warm EXCEPT ![n] = "ended"]
    /\ UNCHANGED <<entries, closed, place, todo, begun, sessions, building, touch, stopVars>>

-----------------------------------------------------------------------------
\* Stops.

\* Fault variant of Aborts: a stop only waits.
AbortsNothing(s, tasks) ==
    /\ waits' = [waits EXCEPT ![s] = tasks]
    /\ stop' = [stop EXCEPT ![s] = "waiting"]
    /\ UNCHANGED warm

\* The aborts follow the lock's release; a task not yet aborted does nothing
\* that an aborted one could not still do, so they are one step.
Aborts(s, tasks) ==
    /\ waits' = [waits EXCEPT ![s] = tasks]
    /\ warm' = [n \in Warm |-> IF n \in tasks /\ warm[n] = "running" THEN "aborting"
                                                                     ELSE warm[n]]
    /\ stop' = [stop EXCEPT ![s] = "waiting"]

\* Fault variant of StopOne: the task is taken out of the entry, so a second
\* stop finds nothing to wait for.
StopOneTakes(s, w) ==
    /\ stop[s] = "idle"
    /\ scope' = [scope EXCEPT ![s] = w]
    /\ entries' = [entries EXCEPT ![w] = Tombstone]
    /\ Aborts(s, {entries[w]} \cap Warm)
    /\ UNCHANGED <<closed, place, todo, begun, sessions, building, touch>>

\* The entry, or a tombstone, reserves the workspace.
StopOne(s, w) ==
    /\ stop[s] = "idle"
    /\ scope' = [scope EXCEPT ![s] = w]
    /\ entries' = [entries EXCEPT ![w] = IF @ = Absent THEN Tombstone ELSE @]
    /\ Aborts(s, {entries[w]} \cap Warm)
    /\ UNCHANGED <<closed, place, todo, begun, sessions, building, touch>>

StopAll(s) ==
    /\ stop[s] = "idle"
    /\ scope' = [scope EXCEPT ![s] = All]
    /\ closed' = TRUE
    /\ Aborts(s, {entries[w] : w \in Workspace} \cap Warm)
    /\ UNCHANGED <<entries, place, todo, begun, sessions, building, touch>>

StopWaited(s) ==
    /\ stop[s] = "waiting"
    /\ \A n \in waits[s] : ~Alive(n)
    /\ stop' = [stop EXCEPT ![s] = "releasing"]
    /\ UNCHANGED <<entries, closed, warmVars, sessions, building, touch, scope, waits>>

\* Manager::release or shutdown_all empties the registry under its lock.
StopReleases(s) ==
    /\ stop[s] = "releasing"
    /\ sessions' = [k \in Workspace \X Provider |-> IF InScope(k[1], s) THEN NoSession
                                                                      ELSE sessions[k]]
    /\ stop' = [stop EXCEPT ![s] = "stopped"]
    /\ UNCHANGED <<entries, closed, warmVars, building, touch, scope, waits>>

\* The client goes away, or main's budget for the shutdown runs out.
StopDropped(s) ==
    /\ stop[s] \in {"waiting", "releasing"}
    /\ stop' = [stop EXCEPT ![s] = "dropped"]
    /\ UNCHANGED <<entries, closed, warmVars, sessions, building, touch, scope, waits>>

-----------------------------------------------------------------------------
\* The rest of the service.

\* A search or a navigation call needs a server, or one ends.
RequestServer(w, p) ==
    /\ Registers(Request, w, p)
    /\ UNCHANGED <<entries, closed, warmVars, building, touch, stopVars>>

SessionEnds(w, p) ==
    /\ sessions' = [sessions EXCEPT ![<<w, p>>] = NoSession]
    /\ UNCHANGED <<entries, closed, warmVars, building, touch, stopVars>>

Build(w) ==
    /\ building' = IF w \in building THEN building \ {w} ELSE building \cup {w}
    /\ UNCHANGED <<entries, closed, warmVars, sessions, touch, stopVars>>

WarmNext ==
    \/ \E c \in Toucher : (\E w \in Workspace : Touch(c, w)) \/ WarmBegins(c) \/ TouchEnds(c)
    \/ \E n \in Warm : \/ WarmServer(n) \/ WarmSkips(n) \/ WarmWaits(n)
                       \/ WarmFinishes(n) \/ AbortTakesEffect(n)
    \/ \E s \in Stopper : \/ \E w \in Workspace : StopOne(s, w)
                          \/ StopAll(s) \/ StopWaited(s) \/ StopReleases(s) \/ StopDropped(s)
    \/ \E w \in Workspace : \/ \E p \in Provider : RequestServer(w, p) \/ SessionEnds(w, p)
                            \/ Build(w)

WarmSpec == WarmInit /\ [][WarmNext]_startVars

\* An aborted task is dropped at its next await; nothing else makes it end.
WarmFairness ==
    /\ \A n \in Warm : WF_startVars(AbortTakesEffect(n))
    /\ \A s \in Stopper : WF_startVars(StopWaited(s)) /\ WF_startVars(StopReleases(s))
WarmLiveSpec == WarmSpec /\ WarmFairness

-----------------------------------------------------------------------------
\* Properties.

\* The map of warm starts, the tasks in it and the requests that stop them hold
\* what warm_language_servers and stop_warm_starts put there.
WarmTypeOK ==
    /\ entries \in [Workspace -> Warm \cup {Absent, Tombstone}] /\ closed \in BOOLEAN
    /\ warm \in [Warm -> {"unused", "running", "aborting", "ended"}]
    /\ place \in [Warm -> Workspace \cup {Nowhere}]
    /\ todo \in [Warm -> SUBSET Provider] /\ begun \in [Warm -> SUBSET Provider]
    /\ sessions \in [Workspace \X Provider -> Warm \cup {NoSession, Request}]
    /\ building \subseteq Workspace /\ touch \in [Toucher -> Workspace \cup {Nowhere}]
    /\ stop \in [Stopper -> {"idle", "waiting", "releasing", "stopped", "dropped"}]
    /\ scope \in [Stopper -> Workspace \cup {All, Nowhere}]
    /\ waits \in [Stopper -> SUBSET Warm]

\* A workspace is warmed once per process, however its touches and releases
\* interleave (mod.rs 229-236).
WarmedOnce == \A m, n \in Warm : place[m] = place[n] /\ place[m] # Nowhere => m = n

\* When a release or the shutdown has returned, no warm start is under way in
\* its scope or will leave a session there: every caller waited for the end of
\* the task, also of one that another caller stops (mod.rs 343-350).
StopIsFinal ==
    \A s \in Stopper, n \in Warm :
        stop[s] = "stopped" /\ InScope(place[n], s) =>
            /\ ~Alive(n)
            /\ place[n] \in Workspace => \A p \in Provider : sessions[<<place[n], p>>] # n

\* A stopped workspace stays stopped: it was warmed once, and a stop that has
\* returned leaves nothing of it behind.
WarmStopsAreFinal == WarmedOnce /\ StopIsFinal

\* A stop ends although a starting server would hold the task forever.
StopEnds == \A s \in Stopper : stop[s] = "waiting" ~> stop[s] \in {"stopped", "dropped"}
=============================================================================
