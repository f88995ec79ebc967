---------------------------- MODULE LspTransport ----------------------------
(***************************************************************************)
(* The connection to one language server (lci-core/src/lsp/transport.rs):  *)
(* requests matched to their responses by id, one pipe each way, a reader  *)
(* task that also answers the server's own requests, writes on tasks of    *)
(* their own under one lock, and the shutdown.                             *)
(*                                                                         *)
(* Both pipes are bounded, and the server may stop reading, stop writing   *)
(* or exit at any step: nothing here is owed by it.  Every bound in time   *)
(* may pass at any moment, except that a request is given up only when no  *)
(* message was read since it last armed its timer.                         *)
(*                                                                         *)
(* External: the server and the clock.                                     *)
(***************************************************************************)
EXTENDS Naturals, Sequences, SequencesExt

CONSTANTS
    Rpc,       \* the requests, the one that asks for the shutdown among them
    InCap, OutCap, \* bounds: frames that fit into each pipe
    MaxSaid,   \* bound: messages the server sends
    NoWrite

AskOf(r) == <<"request", r>>
CancelOf(r) == <<"cancel", r>>
Reply == <<"reply", NoWrite>>
ExitNote == <<"exit", NoWrite>>
WriteJob == ({"request", "cancel"} \X Rpc) \cup {Reply, ExitNote}

ASSUME TransportAssumption ==
    /\ InCap \in Nat \ {0} /\ OutCap \in Nat \ {0} /\ MaxSaid \in Nat
    /\ NoWrite \notin Rpc \cup WriteJob

VARIABLES
    rpc,       \* where each request stands
    pending,   \* JsonRpcClient.pending
    got,       \* the requests whose oneshot holds an outcome
    heard,     \* those for which a message was read since they armed their timer
    undoing,   \* the spawned tasks of AbandonedRequest
    jobs,      \* writes that wait for the lock of Writer.stdin
    pen,       \* the write that holds it, its frame partly on the pipe
    overdue,      \* writes that ran out of time and have not stored `broken` yet
    broken,    \* Writer.broken
    torn,      \* a frame was left half written
    reader, answering, flagged, \* the reader task, and reader_stopped
    inbox, asked, outbox, said, alive, \* the pipes and the server
    closer     \* where the shutdown stands

callerVars == <<rpc, pending, got, heard, undoing>>
writerVars == <<jobs, pen, overdue, broken, torn>>
readerVars == <<reader, answering, flagged>>
serverVars == <<inbox, asked, outbox, said, alive>>
rpcVars == <<callerVars, writerVars, readerVars, serverVars, closer>>

RpcInit ==
    /\ rpc = [r \in Rpc |-> "idle"] /\ pending = {} /\ got = {} /\ heard = {} /\ undoing = {}
    /\ jobs = {} /\ pen = NoWrite /\ overdue = {} /\ broken = FALSE /\ torn = FALSE
    /\ reader = "reads" /\ answering = NoWrite /\ flagged = FALSE
    /\ inbox = <<>> /\ asked = {} /\ outbox = <<>> /\ said = 0 /\ alive = TRUE
    /\ closer = "idle"

Stands(r, p) == rpc' = [rpc EXCEPT ![r] = p]

-----------------------------------------------------------------------------
\* A request (request_within).

RequestRegisters(r) ==
    /\ rpc[r] = "idle"
    /\ Stands(r, "check") /\ pending' = pending \cup {r}
    /\ UNCHANGED <<got, heard, undoing, writerVars, readerVars, serverVars, closer>>

\* Not written when the reader has stopped, or an earlier write has broken the
\* pipe.
ChecksReader(r) ==
    /\ rpc[r] = "check"
    /\ IF flagged \/ broken
         THEN Stands(r, "giving") /\ UNCHANGED jobs
         ELSE Stands(r, "writing") /\ jobs' = jobs \cup {AskOf(r)}
    /\ UNCHANGED <<pending, got, heard, undoing, pen, overdue, broken, torn, readerVars, serverVars, closer>>

Receives(r) ==
    /\ rpc[r] = "waiting" /\ r \in got
    /\ Stands(r, "ended") /\ got' = got \ {r}
    /\ UNCHANGED <<pending, heard, undoing, writerVars, readerVars, serverVars, closer>>

\* The sleep to the deadline is over and nothing has come for the request: a
\* message read meanwhile, of any kind, moves the deadline.
TimerEnds(r) ==
    /\ rpc[r] = "waiting" /\ r \notin got
    /\ IF r \in heard THEN heard' = heard \ {r} /\ UNCHANGED rpc
                      ELSE Stands(r, "giving") /\ UNCHANGED heard
    /\ UNCHANGED <<pending, got, undoing, writerVars, readerVars, serverVars, closer>>

\* Its entry is removed and its error returned.
GivesUp(r) ==
    /\ rpc[r] = "giving"
    /\ Stands(r, "ended") /\ pending' = pending \ {r}
    /\ UNCHANGED <<got, heard, undoing, writerVars, readerVars, serverVars, closer>>

\* The caller goes away (Drop of AbandonedRequest); its write goes on.
Abandons(r) ==
    /\ rpc[r] \in {"writing", "waiting", "giving"}
    /\ Stands(r, "ended") /\ undoing' = undoing \cup {r}
    /\ UNCHANGED <<pending, got, heard, writerVars, readerVars, serverVars, closer>>

\* Fault variant of Undoes: only the server is told.
UndoesRemotely(r) ==
    /\ r \in undoing /\ undoing' = undoing \ {r}
    /\ jobs' = IF broken THEN jobs ELSE jobs \cup {CancelOf(r)}
    /\ UNCHANGED <<rpc, pending, got, heard, pen, overdue, broken, torn, readerVars, serverVars, closer>>

Undoes(r) ==
    /\ r \in undoing /\ undoing' = undoing \ {r}
    /\ pending' = pending \ {r}
    /\ jobs' = IF broken THEN jobs ELSE jobs \cup {CancelOf(r)}
    /\ UNCHANGED <<rpc, got, heard, pen, overdue, broken, torn, readerVars, serverVars, closer>>

-----------------------------------------------------------------------------
\* The writes (write_framed).

\* What the end of a write does to the task that waits for it.
Settles(j, ok) ==
    /\ rpc' = [r \in Rpc |->
                 IF j = AskOf(r) /\ rpc[r] = "writing"
                   THEN (IF ok THEN "waiting" ELSE "giving") ELSE rpc[r]]
    /\ reader' = IF j = Reply THEN "reads" ELSE reader
    /\ closer' = IF j = ExitNote /\ closer = "exiting" THEN "waiting" ELSE closer

Takes(j) ==
    /\ j \in jobs /\ pen = NoWrite /\ jobs' = jobs \ {j}

\* The stream is whole, or the write that cut it has not said so yet.
WritesFrame(j) ==
    /\ Takes(j) /\ pen' = j
    /\ UNCHANGED <<callerVars, overdue, broken, torn, readerVars, serverVars, closer>>

\* Fault variant of TakesPen: checked only before the wait for the lock.
TakesPenUnchecked(j) == WritesFrame(j)

TakesPen(j) ==
    \/ ~broken /\ WritesFrame(j)
    \/ /\ broken /\ Takes(j) /\ Settles(j, FALSE)
       /\ UNCHANGED <<pending, got, heard, undoing, pen, overdue, broken, torn, answering, flagged, serverVars>>

\* The frame is on the pipe; or the server has closed it.
WriteEnds(j) ==
    /\ pen = j /\ pen' = NoWrite
    /\ \/ alive /\ Len(inbox) < InCap /\ inbox' = Append(inbox, j) /\ Settles(j, TRUE)
       \/ ~alive /\ UNCHANGED inbox /\ Settles(j, FALSE)
    /\ UNCHANGED <<pending, got, heard, undoing, jobs, overdue, broken, torn, answering, flagged,
                   asked, outbox, said, alive>>

\* Fault variant of WriteTimesOut: only the wait for the lock is bounded.
WriteTimesOutWaiting(j) ==
    /\ j \in jobs
    /\ jobs' = jobs \ {j} /\ overdue' = overdue \cup {j}
    /\ UNCHANGED <<callerVars, pen, broken, torn, readerVars, serverVars, closer>>

\* The bound covers the wait for the lock and the write; the lock is given back
\* with the write's future, before `broken` is stored.
WriteTimesOut(j) ==
    /\ j \in jobs \/ pen = j
    /\ jobs' = jobs \ {j} /\ overdue' = overdue \cup {j}
    /\ pen' = IF pen = j THEN NoWrite ELSE pen
    /\ torn' = (torn \/ pen = j)
    /\ UNCHANGED <<callerVars, broken, readerVars, serverVars, closer>>

Breaks(j) ==
    /\ j \in overdue /\ overdue' = overdue \ {j}
    /\ broken' = TRUE /\ Settles(j, FALSE)
    /\ UNCHANGED <<pending, got, heard, undoing, jobs, pen, torn, answering, flagged, serverVars>>

-----------------------------------------------------------------------------
\* The reader task (read_messages).

Reads(kind, r) ==
    /\ reader = "reads" /\ outbox # <<>> /\ Head(outbox) = <<kind, r>>
    /\ outbox' = Tail(outbox)
    /\ UNCHANGED <<rpc, pending, got, undoing, inbox, asked, said, alive, closer>>

Hears == heard' = heard \cup {r \in Rpc : rpc[r] = "waiting"}

ReadsNote ==
    /\ Reads("note", NoWrite) /\ Hears
    /\ UNCHANGED <<writerVars, readerVars>>

\* A request of the server's own is answered before anything more is read.
ReadsAsk ==
    /\ Reads("ask", NoWrite) /\ Hears
    /\ IF broken THEN UNCHANGED <<reader, jobs>>
                 ELSE reader' = "replies" /\ jobs' = jobs \cup {Reply}
    /\ UNCHANGED <<pen, overdue, broken, torn, answering, flagged>>

ReadsAnswer(r) ==
    /\ Reads("answer", r) /\ Hears
    /\ reader' = "delivers" /\ answering' = r
    /\ UNCHANGED <<writerVars, flagged>>

\* A response nobody waits for is ignored.
Delivers ==
    /\ reader = "delivers" /\ reader' = "reads" /\ answering' = NoWrite
    /\ pending' = pending \ {answering}
    /\ got' = IF answering \in pending THEN got \cup {answering} ELSE got
    /\ UNCHANGED <<rpc, heard, undoing, writerVars, flagged, serverVars, closer>>

\* A frame that is none, or the end of the output.
ReaderStops ==
    /\ \/ Reads("bad", NoWrite)
       \/ /\ reader = "reads" /\ outbox = <<>> /\ ~alive
          /\ UNCHANGED <<rpc, pending, got, undoing, serverVars, closer>>
    /\ reader' = "stopping"
    /\ UNCHANGED <<heard, writerVars, answering, flagged>>

\* Recorded before the pending requests are failed.
ReaderFlags ==
    /\ reader = "stopping" /\ reader' = "draining"
    /\ flagged' = TRUE
    /\ UNCHANGED <<callerVars, writerVars, answering, serverVars, closer>>

ReaderDrains ==
    /\ reader = "draining" /\ reader' = "stopped"
    /\ got' = got \cup pending /\ pending' = {}
    /\ UNCHANGED <<rpc, heard, undoing, writerVars, answering, flagged, serverVars, closer>>

-----------------------------------------------------------------------------
\* The shutdown.

\* The "shutdown" request has ended or its grace has passed: it is like any
\* other request, and so not followed.
ShutdownExits ==
    /\ closer = "idle"
    /\ IF broken THEN closer' = "waiting" /\ UNCHANGED jobs
                 ELSE closer' = "exiting" /\ jobs' = jobs \cup {ExitNote}
    /\ UNCHANGED <<callerVars, pen, overdue, broken, torn, readerVars, serverVars>>

ExitWriteBoundPasses ==
    /\ closer = "exiting" /\ closer' = "waiting"
    /\ UNCHANGED <<callerVars, writerVars, readerVars, serverVars>>

\* It has exited, or is killed after its grace.
ShutdownEnds ==
    /\ closer = "waiting" /\ closer' = "done"
    /\ alive' = FALSE
    /\ UNCHANGED <<callerVars, writerVars, readerVars, inbox, asked, outbox, said>>

-----------------------------------------------------------------------------
\* The server.

ServerTakes ==
    /\ alive /\ inbox # <<>> /\ inbox' = Tail(inbox)
    /\ asked' = CASE Head(inbox)[1] = "request" -> asked \cup {Head(inbox)[2]}
                 [] Head(inbox)[1] = "cancel" -> asked \ {Head(inbox)[2]}
                 [] OTHER -> asked
    /\ UNCHANGED <<callerVars, writerVars, readerVars, outbox, said, alive, closer>>

ServerSays ==
    /\ alive /\ Len(outbox) < OutCap /\ said < MaxSaid /\ said' = said + 1
    /\ \/ \E m \in {"note", "ask", "bad"} : outbox' = Append(outbox, <<m, NoWrite>>) /\ UNCHANGED asked
       \/ \E r \in asked : outbox' = Append(outbox, <<"answer", r>>) /\ asked' = asked \ {r}
    /\ UNCHANGED <<callerVars, writerVars, readerVars, inbox, alive, closer>>

ServerExits ==
    /\ alive /\ alive' = FALSE
    /\ UNCHANGED <<callerVars, writerVars, readerVars, inbox, asked, outbox, said, closer>>

-----------------------------------------------------------------------------
CallerStep(r) ==
    \/ RequestRegisters(r) \/ ChecksReader(r) \/ Receives(r) \/ TimerEnds(r) \/ GivesUp(r)
    \/ Abandons(r) \/ Undoes(r)
WriterStep(j) == TakesPen(j) \/ WriteEnds(j) \/ WriteTimesOut(j) \/ Breaks(j)
ReaderStep ==
    \/ ReadsNote \/ ReadsAsk \/ (\E r \in Rpc : ReadsAnswer(r)) \/ Delivers
    \/ ReaderStops \/ ReaderFlags \/ ReaderDrains
CloserStep == ExitWriteBoundPasses \/ ShutdownEnds
ServerStep == ServerTakes \/ ServerSays \/ ServerExits

RpcNext ==
    \/ \E r \in Rpc : CallerStep(r)
    \/ \E j \in WriteJob : WriterStep(j)
    \/ ReaderStep \/ ShutdownExits \/ CloserStep \/ ServerStep

\* The service's tasks run and its timers fire; the server owes nothing.
RpcFairness ==
    /\ \A r \in Rpc : WF_rpcVars(ChecksReader(r) \/ Receives(r) \/ TimerEnds(r) \/ GivesUp(r) \/ Undoes(r))
    /\ \A j \in WriteJob : WF_rpcVars(WriterStep(j))
    /\ WF_rpcVars(ReaderStep) /\ WF_rpcVars(CloserStep)

RpcSpec == RpcInit /\ [][RpcNext]_rpcVars /\ RpcFairness

-----------------------------------------------------------------------------
\* Properties.

\* Requests, writes and the reader task are at a step of JsonRpcClient, and the
\* two pipes hold what they can.
RpcTypeOK ==
    /\ rpc \in [Rpc -> {"idle", "check", "writing", "waiting", "giving", "ended"}]
    /\ pending \subseteq Rpc /\ got \subseteq Rpc /\ heard \subseteq Rpc /\ undoing \subseteq Rpc
    /\ jobs \subseteq WriteJob /\ pen \in WriteJob \cup {NoWrite} /\ overdue \subseteq WriteJob
    /\ broken \in BOOLEAN /\ torn \in BOOLEAN
    /\ reader \in {"reads", "replies", "delivers", "stopping", "draining", "stopped"}
    /\ answering \in Rpc \cup {NoWrite} /\ flagged \in BOOLEAN
    /\ \A i \in 1..Len(inbox) : inbox[i] \in WriteJob
    /\ Len(inbox) <= InCap /\ Len(outbox) <= OutCap
    /\ asked \subseteq Rpc /\ said \in 0..MaxSaid /\ alive \in BOOLEAN
    /\ closer \in {"idle", "exiting", "waiting", "done"}

\* Whoever goes away and whichever write runs out of time, no frame is begun
\* after a half written one, but in the moment between the end of that write
\* and its note of it (transport.rs 937: "nothing is written again").
NothingAfterAHalfFrame == [][pen' # pen /\ pen' # NoWrite => ~torn \/ overdue # {}]_rpcVars

\* An entry always has somebody who will take it out (882).
NoEntryIsOrphaned ==
    \A r \in pending : rpc[r] \in {"check", "writing", "waiting", "giving"} \/ r \in undoing

\* Once the reader has stopped, a request that is waiting has its error
\* already (526): it does not wait for a timeout.
NoneWaitsOnADeadReader ==
    reader = "stopped" => \A r \in Rpc : rpc[r] \in {"writing", "waiting"} => r \in got

\* After the shutdown the server has ended (806).
ShutdownEndsTheServer == closer = "done" => ~alive

\* Nobody is left behind: no entry without its request, no request without its
\* answer after the reader has stopped, no server after its shutdown.
NoneIsForgotten == NoEntryIsOrphaned /\ NoneWaitsOnADeadReader /\ ShutdownEndsTheServer

\* Every request, every reply of the reader and the shutdown come to their end,
\* whatever the server does with its two pipes, and when both are full (938).
EveryCallEnds ==
    /\ \A r \in Rpc : rpc[r] \notin {"idle", "ended"} ~> rpc[r] = "ended"
    /\ reader = "replies" ~> reader # "replies"
    /\ closer = "exiting" ~> closer = "done"
=============================================================================
