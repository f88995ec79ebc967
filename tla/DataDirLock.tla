----------------------------- MODULE DataDirLock -----------------------------
(***************************************************************************)
(* The data-directory lock (src/app/mod.rs lock_data_dir_for_indexing and  *)
(* lock_file_exclusive).                                                   *)
(*                                                                         *)
(* The caller opens index.lock and starts a plain thread that blocks in    *)
(* the OS lock; the locked file comes back over a oneshot.  A caller that  *)
(* stops waiting drops the receiver and cannot stop the thread: the file,  *)
(* and with it the lock, must be dropped by whoever has it then.           *)
(***************************************************************************)
CONSTANTS Caller,    \* calls, each made once
          Home,      \* the process that makes a call
          NoKeeper

ASSUME LockAssumption == NoKeeper \notin Caller

VARIABLES
    call,     \* where the caller stands, as in IndexLock
    thread,   \* "none", "trying", "blocked", "locked", "gone"
    sent,     \* calls whose oneshot holds the locked file
    oslock    \* the call whose file has the OS lock

lockVars == <<call, thread, sent, oslock>>

LockInit == /\ call = [c \in Caller |-> "idle"]
            /\ thread = [c \in Caller |-> "none"]
            /\ sent = {}
            /\ oslock = NoKeeper

Ends(c) == call' = [call EXCEPT ![c] = "over"]
Moves(c, there) == thread' = [thread EXCEPT ![c] = there]

\* Dropping the file of call c gives up its lock.
DropFile(c) == oslock' = IF oslock = c THEN NoKeeper ELSE oslock

-----------------------------------------------------------------------------
\* The caller.

\* The file is opened and the thread started.
AskForLock(c) ==
    /\ call[c] = "idle"
    /\ call' = [call EXCEPT ![c] = "waiting"]
    /\ Moves(c, "trying")
    /\ UNCHANGED <<sent, oslock>>

\* The file cannot be opened, or the thread not started.
AskFails(c) ==
    /\ call[c] = "idle"
    /\ Ends(c)
    /\ UNCHANGED <<thread, sent, oslock>>

Receive(c) ==
    /\ call[c] = "waiting" /\ c \in sent
    /\ call' = [call EXCEPT ![c] = "holding"]
    /\ sent' = sent \ {c}
    /\ UNCHANGED <<thread, oslock>>

\* The future is dropped: the receiver goes, and a file it has not taken.
StopWaiting(c) ==
    /\ call[c] = "waiting"
    /\ Ends(c)
    /\ sent' = sent \ {c}
    /\ IF c \in sent THEN DropFile(c) ELSE UNCHANGED oslock
    /\ UNCHANGED thread

\* The index pass drops its handle, however it ends.
Release(c) ==
    /\ call[c] = "holding"
    /\ Ends(c)
    /\ DropFile(c)
    /\ UNCHANGED <<thread, sent>>

-----------------------------------------------------------------------------
\* Its thread.

\* Fault variant of TryLock: an error of try_lock is taken for the lock.
TryLockAnyway(c) ==
    /\ thread[c] = "trying"
    /\ oslock' = c
    /\ Moves(c, "locked")
    /\ UNCHANGED <<call, sent>>

TryLock(c) ==
    /\ thread[c] = "trying"
    /\ IF oslock = NoKeeper THEN oslock' = c /\ Moves(c, "locked")
                         ELSE UNCHANGED oslock /\ Moves(c, "blocked")
    /\ UNCHANGED <<call, sent>>

Lock(c) ==
    /\ thread[c] = "blocked" /\ oslock = NoKeeper
    /\ oslock' = c
    /\ Moves(c, "locked")
    /\ UNCHANGED <<call, sent>>

\* try_lock or lock fails: the caller gets the error.
LockFails(c) ==
    /\ thread[c] \in {"trying", "blocked"}
    /\ Moves(c, "gone")
    /\ call' = [call EXCEPT ![c] = "over"]
    /\ UNCHANGED <<sent, oslock>>

\* Fault variant of Send: the thread waits for the caller to take the file.
SendAndStay(c) ==
    /\ thread[c] = "locked" /\ call[c] = "waiting"
    /\ sent' = sent \cup {c}
    /\ Moves(c, "sending")
    /\ UNCHANGED <<call, oslock>>

Send(c) ==
    /\ thread[c] = "locked" /\ call[c] = "waiting"
    /\ sent' = sent \cup {c}
    /\ Moves(c, "gone")
    /\ UNCHANGED <<call, oslock>>

\* Fault variant of SendUnwanted: the file is forgotten, not dropped.
SendForgets(c) ==
    /\ thread[c] = "locked" /\ call[c] # "waiting"
    /\ Moves(c, "gone")
    /\ UNCHANGED <<call, sent, oslock>>

\* No receiver is left: the send gives the file back, and it is dropped.
SendUnwanted(c) ==
    /\ thread[c] = "locked" /\ call[c] # "waiting"
    /\ Moves(c, "gone")
    /\ DropFile(c)
    /\ UNCHANGED <<call, sent>>

\* The process ends; the OS drops its locks and its lock requests.
ProcessExits(p) ==
    /\ call' = [c \in Caller |-> IF Home[c] = p THEN "over" ELSE call[c]]
    /\ thread' = [c \in Caller |-> IF Home[c] = p THEN "gone" ELSE thread[c]]
    /\ sent' = {c \in sent : Home[c] # p}
    /\ oslock' = IF oslock # NoKeeper /\ Home[oslock] = p THEN NoKeeper ELSE oslock

ThreadStep(c) == TryLock(c) \/ Lock(c) \/ Send(c) \/ SendUnwanted(c)

LockNext == \/ \E c \in Caller : \/ AskForLock(c) \/ AskFails(c) \/ Receive(c) \/ StopWaiting(c)
                                 \/ Release(c) \/ ThreadStep(c) \/ LockFails(c)
            \/ \E c \in Caller : ProcessExits(Home[c])

LockSpec == LockInit /\ [][LockNext]_lockVars

\* A thread goes on when the OS lets it, a caller takes what was sent, and an
\* index pass ends; of one call only one of the three can be next.
LockFairness ==
    \A c \in Caller : WF_lockVars(ThreadStep(c) \/ Receive(c) \/ Release(c))
LockLiveSpec == LockSpec /\ LockFairness

-----------------------------------------------------------------------------
\* Properties.

\* Callers and helper threads are at a step of lock_file_exclusive, and one of
\* them at most has the operating system's lock.
LockTypeOK == /\ call \in [Caller -> {"idle", "waiting", "holding", "over"}]
              /\ thread \in [Caller -> {"none", "trying", "blocked", "locked", "gone"}]
              /\ sent \subseteq Caller
              /\ oslock \in Caller \cup {NoKeeper}

\* The lock always has somebody who will give it back: the pass that holds its
\* file, the oneshot of a caller that still waits, or a thread about to send.
LockHasKeeper ==
    \A c \in Caller : oslock = c <=> \/ call[c] = "holding"
                                     \/ c \in sent /\ call[c] = "waiting"
                                     \/ thread[c] = "locked"

\* Callers get what the function promises, across processes (mod.rs 439-457):
\* what the thread, the oneshot and the OS do is hidden from them.
At(there) == {c \in Caller : call[c] = there}
Promise == INSTANCE IndexLock WITH
             asking <- At("waiting"), having <- At("holding"), over <- At("over")
ImplementsIndexLock == Promise!Spec

\* A caller that waits gets its answer, also behind callers that stopped
\* waiting while their threads were blocked in the OS (mod.rs 450-457).
WaitersAreServed == \A c \in Caller : call[c] = "waiting" ~> call[c] # "waiting"
=============================================================================
