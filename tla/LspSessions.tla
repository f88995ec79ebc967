---------------------------- MODULE LspSessions ----------------------------
(***************************************************************************)
(* The session manager of the language servers (lci-core/src/lsp.rs,       *)
(* Session and Manager).                                                   *)
(*                                                                         *)
(* A registry holds one session per workspace and provider.  A session is  *)
(* begun by the first call that needs it, on a task of its own, shared by  *)
(* the calls that wait for it, and taken out of the registry by a failed   *)
(* request, by the tree barrier, by the idle sweeper, by a release, or by  *)
(* the next caller when its start failed or its server is stuck.  Its      *)
(* server lives until the session is shut down or nobody holds it.         *)
(*                                                                         *)
(* Calls of three kinds are followed: "walk" (navigation and traversals:   *)
(* the tree barrier, then one position request after the other), "search"  *)
(* (the search channel's barrier, then workspace/symbol once the server is *)
(* primed) and "release" (a client's; the shutdown's releases every        *)
(* workspace the same way).  Warm starts are in WarmStarts.                *)
(*                                                                         *)
(* External: the servers, the edits of the tree, the clock (a session may  *)
(* have been idle for long enough, a window may have passed, at any time). *)
(***************************************************************************)
EXTENDS Naturals, FiniteSets

CONSTANTS
    Workspace, Provider,
    Watching,      \* the providers whose server watches its workspace
    Caller,
    Session,       \* bound: the sessions alive at one time
    MaxTree,       \* bound: edits of the tree
    None

ASSUME SessionsAssumption ==
    /\ Watching \subseteq Provider /\ MaxTree \in Nat
    /\ None \notin Session \cup Caller \cup (0..MaxTree) \cup (Workspace \X Provider)

Key == Workspace \X Provider
Kind == {"walk", "search", "release"}

VARIABLES
    registry,   \* Manager.sessions
    server,     \* per session: its start, its priming and its process
    stuck, streak, \* Session.stuck, .streak
    syncs,      \* Manager.syncs: the workspaces that are synced
    stamps,     \* Manager.stamps
    serial,     \* Manager.barriers: who holds a workspace's barrier lock
    pc, kind, key, \* per caller: its step, the kind of its call and the session's key
    stamp,      \* the stamp its barrier took
    passed,     \* history: the tree as of the barrier it relies on, 0 for none
    mine,       \* the session it waits for or asks
    retried,    \* the callers that have tried again
    tree,       \* how often the workspaces' files have changed
    seen        \* history: the tree when a session began, which its server read

sessionVars == <<server, stuck, streak, seen>>
barrierVars == <<stamps, serial>>
callVars == <<pc, kind, key, stamp, passed, mine, retried>>
vars == <<registry, sessionVars, syncs, barrierVars, callVars, tree>>

At(c, p) == pc[c] = p
Current(c) == registry[key[c]]
\* The Arcs: the registry's and those of the calls in progress.
Held(s) == (\E k \in Key : registry[k] = s) \/ \E c \in Caller : mine[c] = s
Running(s) == server[s] \in {"up", "primed"}
\* The priming has settled: answered, or failed as its process is closing.
Primed(s) == server[s] \in {"primed", "closing"}
\* The start gave a client, whatever has become of its process.
Started(s) == Running(s) \/ server[s] = "closing"

Init ==
    /\ registry = [k \in Key |-> None]
    /\ server = [s \in Session |-> "free"]
    /\ stuck = {} /\ streak = {}
    /\ syncs = {}
    /\ stamps = [k \in Key |-> None] /\ serial = [w \in Workspace |-> None]
    /\ pc = [c \in Caller |-> "idle"] /\ kind = [c \in Caller |-> "walk"]
    /\ key = [c \in Caller |-> None] /\ stamp = [c \in Caller |-> None]
    /\ passed = [c \in Caller |-> 0] /\ mine = [c \in Caller |-> None]
    /\ retried = {}
    /\ tree = 0 /\ seen = [s \in Session |-> 0]

-----------------------------------------------------------------------------
\* What several operations do.

\* Session::shutdown: a session that has no client yet is only let go of.
ShutDown(gone) ==
    server' = [s \in Session |-> IF s \in gone /\ Running(s) THEN "closing" ELSE server[s]]

\* Fault variant of Removes: the sync of the last session is left running.
RemovesOnly(keys) ==
    /\ registry' = [k \in Key |-> IF k \in keys THEN None ELSE registry[k]]
    /\ ShutDown({registry[k] : k \in keys})
    /\ UNCHANGED <<syncs, stuck, streak, seen>>

\* Fault variant of Removes: the registry is rebuilt without the keys.
RemovesKeys(keys) ==
    /\ registry' = [k \in Key \ keys |-> registry[k]]
    /\ syncs' = {w \in syncs : \E p \in Provider : <<w, p>> \notin keys /\ registry[<<w, p>>] # None}
    /\ ShutDown({registry[k] : k \in keys})
    /\ UNCHANGED <<stuck, streak, seen>>

\* A removal of the sessions of `keys`, their shutdown, and prune_syncs: only
\* workspaces with a session in the registry stay synced.
Removes(keys) ==
    /\ registry' = [k \in Key |-> IF k \in keys THEN None ELSE registry[k]]
    /\ syncs' = {w \in syncs : \E p \in Provider : <<w, p>> \notin keys /\ registry[<<w, p>>] # None}
    /\ ShutDown({registry[k] : k \in keys})
    /\ UNCHANGED <<stuck, streak, seen>>

Goes(c, p) == pc' = [pc EXCEPT ![c] = p] /\ UNCHANGED <<kind, key, stamp, passed, mine, retried>>
AsksAgain(c, again) ==
    /\ pc' = [pc EXCEPT ![c] = "acquire"] /\ mine' = [mine EXCEPT ![c] = None]
    /\ retried' = IF again THEN retried \cup {c} ELSE retried \ {c}
    /\ UNCHANGED <<kind, key, stamp, passed>>
Takes(c, s) ==
    /\ pc' = [pc EXCEPT ![c] = "starting"] /\ mine' = [mine EXCEPT ![c] = s]
    /\ UNCHANGED <<kind, key, stamp, passed, retried>>
Begins(c, p, kd, k) ==
    /\ pc' = [pc EXCEPT ![c] = p] /\ kind' = [kind EXCEPT ![c] = kd] /\ key' = [key EXCEPT ![c] = k]
    /\ UNCHANGED <<stamp, passed, mine, retried>>
Returns(c) ==
    /\ pc' = [pc EXCEPT ![c] = "idle"] /\ kind' = [kind EXCEPT ![c] = "walk"]
    /\ key' = [key EXCEPT ![c] = None] /\ stamp' = [stamp EXCEPT ![c] = None]
    /\ passed' = [passed EXCEPT ![c] = 0] /\ mine' = [mine EXCEPT ![c] = None]
    /\ retried' = retried \ {c}
Unlocks(c) == serial' = [w \in Workspace |-> IF serial[w] = c THEN None ELSE serial[w]]

-----------------------------------------------------------------------------
\* The barrier.

Call(c) ==
    /\ At(c, "idle")
    /\ \E k \in Key, kd \in {"walk", "search"} :
         Begins(c, "lock", kd, k)
    /\ UNCHANGED <<registry, sessionVars, syncs, barrierVars, tree>>

Passes(c, t) ==
    /\ pc' = [pc EXCEPT ![c] = "acquire"] /\ stamp' = [stamp EXCEPT ![c] = None]
    /\ passed' = [passed EXCEPT ![c] = t] /\ UNCHANGED <<kind, key, mine, retried>>
Stamps(c, t) ==
    /\ pc' = [pc EXCEPT ![c] = "decide"] /\ stamp' = [stamp EXCEPT ![c] = t]
    /\ passed' = [passed EXCEPT ![c] = tree] /\ UNCHANGED <<kind, key, mine, retried>>

\* Under the workspace's lock; None: no file list, or a stat that failed.
BarrierStamps(c) ==
    /\ At(c, "lock") /\ serial[key[c][1]] = None
    /\ serial' = [serial EXCEPT ![key[c][1]] = c]
    /\ \E t \in {tree, None} : Stamps(c, t)
    /\ UNCHANGED <<registry, sessionVars, syncs, stamps, tree>>

SameTree(c) == stamp[c] # None /\ stamps[key[c]] = stamp[c]

BarrierKeeps(c) ==
    /\ At(c, "decide") /\ SameTree(c)
    /\ Passes(c, passed[c]) /\ Unlocks(c)
    /\ UNCHANGED <<registry, sessionVars, syncs, stamps, tree>>

KeepsWatcher(c) == kind[c] = "search" /\ key[c][2] \in Watching /\ Current(c) # None

\* A search keeps a session whose server watches its workspace: nothing is
\* recorded, and the answer is labelled as that server's.
BarrierKeepsWatcher(c) ==
    /\ At(c, "decide") /\ ~SameTree(c) /\ KeepsWatcher(c)
    /\ Passes(c, 0)
    /\ Unlocks(c)
    /\ UNCHANGED <<registry, sessionVars, syncs, stamps, tree>>

BarrierDecides(c) ==
    /\ At(c, "decide") /\ ~SameTree(c) /\ ~KeepsWatcher(c)
    /\ Goes(c, "stop")
    /\ UNCHANGED <<registry, sessionVars, syncs, barrierVars, tree>>

\* Fault variant of BarrierStops: a session without a record is taken as fresh.
BarrierStopsRecorded(c) ==
    /\ At(c, "stop") /\ Goes(c, "record")
    /\ Removes(IF stamps[key[c]] = None THEN {} ELSE {key[c]})
    /\ UNCHANGED <<barrierVars, tree>>

\* stop_session takes whatever session is registered by now.
BarrierStops(c) ==
    /\ At(c, "stop") /\ Goes(c, "record")
    /\ Removes({key[c]})
    /\ UNCHANGED <<barrierVars, tree>>

BarrierRecords(c) ==
    /\ At(c, "record")
    /\ stamps' = [stamps EXCEPT ![key[c]] = stamp[c]]
    /\ Passes(c, passed[c]) /\ Unlocks(c)
    /\ UNCHANGED <<registry, sessionVars, syncs, tree>>

-----------------------------------------------------------------------------
\* The session of a request.

Usable(s) == s # None /\ server[s] # "failed" /\ s \notin stuck

AcquireReuses(c) ==
    /\ At(c, "acquire") /\ Usable(Current(c))
    /\ Takes(c, Current(c))
    /\ UNCHANGED <<registry, sessionVars, syncs, barrierVars, tree>>

\* A call without a session fails; only position requests try again.
NoSession(c) ==
    IF kind[c] = "walk" /\ c \notin retried
      THEN AsksAgain(c, TRUE)
      ELSE Returns(c)

\* The provider's window is open: see WarmStarts for the windows.
AcquireRefused(c) ==
    /\ At(c, "acquire") /\ ~Usable(Current(c))
    /\ NoSession(c)
    /\ UNCHANGED <<registry, sessionVars, syncs, barrierVars, tree>>

\* Session::begin, in the place of a failed session or a stuck one, which is
\* shut down.
AcquireBegins(c) ==
    /\ At(c, "acquire") /\ ~Usable(Current(c))
    /\ \E s \in Session :
         /\ server[s] = "free"
         /\ registry' = [registry EXCEPT ![key[c]] = s]
         /\ server' = [t \in Session |->
                         IF t = s THEN "starting"
                         ELSE IF t = Current(c) /\ Running(t) THEN "closing" ELSE server[t]]
         /\ seen' = [seen EXCEPT ![s] = tree]
         /\ Takes(c, s)
    /\ syncs' = syncs \cup {key[c][1]}
    /\ UNCHANGED <<stuck, streak, barrierVars, tree>>

\* Manager::client: the start is over, and the priming for a symbol request.
ClientReady(c) ==
    /\ At(c, "starting") /\ Started(mine[c])
    /\ kind[c] = "search" => Primed(mine[c])
    /\ Goes(c, "sent")
    /\ UNCHANGED <<registry, sessionVars, syncs, barrierVars, tree>>

StartFailed(c) ==
    /\ At(c, "starting") /\ server[mine[c]] = "failed"
    /\ NoSession(c)
    /\ UNCHANGED <<registry, sessionVars, syncs, barrierVars, tree>>

-----------------------------------------------------------------------------
\* Answers (send, send_with_repeats, note_answer).

\* A result, or an error that is not transient: the streak ends, and then,
\* outside the streak's lock, a stuck mark is taken back.
Answered(c) ==
    /\ At(c, "sent") /\ Started(mine[c])
    /\ streak' = streak \ {mine[c]} /\ Goes(c, "unmark")
    /\ UNCHANGED <<registry, server, stuck, seen, syncs, barrierVars, tree>>

Unmarks(c) ==
    /\ At(c, "unmark") /\ Goes(c, "check")
    /\ stuck' = stuck \ {mine[c]}
    /\ UNCHANGED <<registry, server, streak, seen, syncs, barrierVars, tree>>

\* The request goes out again to the same server (RepeatPolicy), or its error is
\* the answer.
RepeatsOrEnds(c) == Goes(c, "sent") \/ Goes(c, "check")

\* A transient error extends the streak; one that is lsp_stuck_seconds old, with
\* no progress reported meanwhile, marks the session next.
Transient(c) ==
    /\ At(c, "sent") /\ Started(mine[c])
    /\ streak' = streak \cup {mine[c]}
    /\ RepeatsOrEnds(c) \/ (mine[c] \in streak /\ Goes(c, "mark"))
    /\ UNCHANGED <<registry, server, stuck, seen, syncs, barrierVars, tree>>

Marks(c) ==
    /\ At(c, "mark") /\ RepeatsOrEnds(c)
    /\ stuck' = stuck \cup {mine[c]}
    /\ UNCHANGED <<registry, server, streak, seen, syncs, barrierVars, tree>>

\* The process exited or was stopped, or was silent for the whole timeout: the
\* first time the session is discarded and the request made again.
TransportFails(c) ==
    /\ At(c, "sent")
    /\ Goes(c, IF c \in retried THEN "check" ELSE "discard")
    /\ UNCHANGED <<registry, sessionVars, syncs, barrierVars, tree>>

\* The call has its answer, unless its session is stuck: that is discarded
\* first.  A walk may have more to ask, of whichever session it finds then.
Checks(c) ==
    /\ At(c, "check")
    /\ IF mine[c] \in stuck
         THEN /\ pc' = [pc EXCEPT ![c] = "discard"] /\ retried' = retried \cup {c}
              /\ UNCHANGED <<kind, key, stamp, passed, mine>>
         ELSE Returns(c) \/ (kind[c] = "walk" /\ AsksAgain(c, FALSE))
    /\ UNCHANGED <<registry, sessionVars, syncs, barrierVars, tree>>

AfterDiscard(c) ==
    /\ IF c \in retried THEN Returns(c) ELSE AsksAgain(c, TRUE)
    /\ UNCHANGED <<barrierVars, tree>>

\* Fault variant of Discards: by key, whichever session is there now.
DiscardsByKey(c) ==
    /\ At(c, "discard") /\ Removes({key[c]}) /\ AfterDiscard(c)

\* Only that exact session is removed.
Discards(c) ==
    /\ At(c, "discard")
    /\ Removes(IF Current(c) = mine[c] THEN {key[c]} ELSE {})
    /\ AfterDiscard(c)

\* The caller goes away at an await; between a barrier's stop and its record
\* there is none.
Cancel(c) ==
    /\ pc[c] \in {"lock", "decide", "stop", "acquire", "starting", "sent", "discard", "remove"}
    /\ Returns(c) /\ Unlocks(c)
    /\ UNCHANGED <<registry, sessionVars, syncs, stamps, tree>>

-----------------------------------------------------------------------------
\* Releases and the idle sweeper.

ReleaseForgets(c) ==
    /\ At(c, "idle")
    /\ \E k \in Key :
         /\ Begins(c, "remove", "release", k)
         /\ stamps' = [x \in Key |-> IF x[1] = k[1] THEN None ELSE stamps[x]]
    /\ UNCHANGED <<registry, sessionVars, syncs, serial, tree>>

ReleaseRemoves(c) ==
    /\ At(c, "remove") /\ Returns(c)
    /\ Removes({k \in Key : k[1] = key[c][1]})
    /\ UNCHANGED <<barrierVars, tree>>

\* idle_and_unused.
Unused(s) ==
    /\ server[s] = "failed" \/ Primed(s)
    /\ \A c \in Caller : mine[c] # s

\* The sweeper takes the unused sessions nobody has asked for for long enough.
Sweep ==
    /\ \E gone \in SUBSET {k \in Key : registry[k] # None /\ Unused(registry[k])} :
         gone # {} /\ Removes(gone)
    /\ UNCHANGED <<barrierVars, callVars, tree>>

-----------------------------------------------------------------------------
\* The start task of a session, its server and the world.

StartEnds(s) ==
    /\ server[s] = "starting" /\ Held(s)
    /\ server' \in {[server EXCEPT ![s] = "up"], [server EXCEPT ![s] = "failed"]}
    /\ UNCHANGED <<registry, stuck, streak, seen, syncs, barrierVars, callVars, tree>>

\* The priming request settles, whether it is answered or fails.
Primes(s) ==
    /\ server[s] = "up"
    /\ server' = [server EXCEPT ![s] = "primed"]
    /\ UNCHANGED <<registry, stuck, streak, seen, syncs, barrierVars, callVars, tree>>

\* A server exits by itself; what it has written can still be read.
Exits(s) ==
    /\ Running(s)
    /\ server' = [server EXCEPT ![s] = "closing"]
    /\ UNCHANGED <<registry, stuck, streak, seen, syncs, barrierVars, callVars, tree>>

\* The last Arc goes: the start ends, the process is killed.
Drops(s) ==
    /\ server[s] # "free" /\ ~Held(s)
    /\ server' = [server EXCEPT ![s] = "free"]
    /\ stuck' = stuck \ {s} /\ streak' = streak \ {s}
    /\ seen' = [seen EXCEPT ![s] = 0]
    /\ UNCHANGED <<registry, syncs, barrierVars, callVars, tree>>

Edit ==
    /\ tree < MaxTree
    /\ tree' = tree + 1
    /\ UNCHANGED <<registry, sessionVars, syncs, barrierVars, callVars>>

-----------------------------------------------------------------------------
Barrier(c) ==
    \/ BarrierStamps(c) \/ BarrierKeeps(c) \/ BarrierKeepsWatcher(c)
    \/ BarrierDecides(c) \/ BarrierStops(c) \/ BarrierRecords(c)
Acquire(c) ==
    AcquireReuses(c) \/ AcquireRefused(c) \/ AcquireBegins(c) \/ ClientReady(c) \/ StartFailed(c)
Sends(c) ==
    \/ Answered(c) \/ Unmarks(c) \/ Transient(c) \/ Marks(c)
    \/ TransportFails(c) \/ Checks(c) \/ Discards(c)
World(s) == StartEnds(s) \/ Primes(s) \/ Exits(s) \/ Drops(s)

Next ==
    \/ \E c \in Caller : Call(c) \/ Barrier(c) \/ Acquire(c) \/ Sends(c) \/ Cancel(c) \/ ReleaseForgets(c) \/ ReleaseRemoves(c)
    \/ \E s \in Session : World(s)
    \/ Sweep \/ Edit

Spec == Init /\ [][Next]_vars

-----------------------------------------------------------------------------
\* Properties.

PCs == {"idle", "lock", "decide", "stop", "record", "acquire", "starting", "sent",
        "unmark", "mark", "check", "discard", "remove"}

\* The registry, its sessions and the requests at work on them are at a step of
\* the Manager, with the stamps a tree of MaxTree changes has.
TypeOK ==
    /\ registry \in [Key -> Session \cup {None}]
    /\ server \in [Session -> {"free", "starting", "failed", "up", "primed", "closing"}]
    /\ stuck \subseteq Session /\ streak \subseteq Session
    /\ syncs \subseteq Workspace
    /\ stamps \in [Key -> 0..MaxTree \cup {None}]
    /\ serial \in [Workspace -> Caller \cup {None}]
    /\ pc \in [Caller -> PCs] /\ kind \in [Caller -> Kind] /\ key \in [Caller -> Key \cup {None}]
    /\ stamp \in [Caller -> 0..MaxTree \cup {None}] /\ passed \in [Caller -> 0..MaxTree]
    /\ mine \in [Caller -> Session \cup {None}] /\ retried \subseteq Caller
    /\ tree \in 0..MaxTree /\ seen \in [Session -> 0..MaxTree]

\* The server that answers a call behind the barrier is never older than the
\* tree as of its check, whoever began that server, and whatever other calls,
\* releases and sweeps did between the check and the request (lsp.rs 1684).
AnswersAreNotOlderThanTheCheck ==
    \A c \in Caller : mine[c] # None => seen[mine[c]] >= passed[c]

\* A slower barrier never records an older stamp over a newer one (1680).
RecordsMoveForward ==
    [][\A k \in Key : stamps[k] # None /\ stamps'[k] # None => stamps'[k] >= stamps[k]]_vars

\* Outside of the barrier and the releases, a session leaves the registry only
\* if its start failed, it was found stuck, a request failed on it, or no call
\* holds it: a late report of an old failure never ends its replacement (1862),
\* and the sweeper never takes a server a call is about to use (670).
OnlyFailedOrUnusedSessionsLeave ==
    [][\A k \in Key : registry[k] # None /\ registry'[k] # registry[k] =>
         \/ server[registry[k]] = "failed" \/ registry[k] \in stuck
         \/ \A c \in Caller : mine[c] # registry[k]
         \/ \E c \in Caller : At(c, "discard") /\ mine[c] = registry[k]
         \/ \E c \in Caller : At(c, "stop") /\ pc'[c] = "record" /\ key[c] = k
         \/ \E c \in Caller : At(c, "remove") /\ key[c][1] = k[1]]_vars

\* What the manager keeps of a workspace only moves forward: neither a record
\* nor a session that works is lost to a slower call.
SessionsMoveForward == RecordsMoveForward /\ OnlyFailedOrUnusedSessionsLeave

\* A workspace is watched exactly while it has a session, whichever way its
\* last session went (1135).
SyncedWhileInUse == syncs = {w \in Workspace : \E p \in Provider : registry[<<w, p>>] # None}
=============================================================================
