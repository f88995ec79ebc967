------------------------ MODULE WorkspaceSync_proofs ------------------------
(***************************************************************************)
(* The sync of a workspace keeps its promises for any files, servers,      *)
(* requests and edits; and side by side with the session manager, each of  *)
(* the two behaves as it does alone.                                       *)
(*                                                                         *)
(* The argument: a change that a server has not read is with the watcher,  *)
(* in the queue, in the batch of the drain that has the turn, with a task  *)
(* of the server's own, or a walk is due that shows it (ToldInv).  That a  *)
(* walk shows it needs the table never to run ahead of what the servers    *)
(* were told (TableInv), since what a walk does not find different from    *)
(* the table is told to nobody.                                            *)
(***************************************************************************)
EXTENDS MCLanguageServers, LspSessions_proofs, TLAPS

\* The servers that have read the tree, and what they are not excused of.
Reader == {s \in Server : start[s] \in {"read", "ready"}}
Due(s, f) == s \in Reader /\ <<s, f>> \notin excused
\* The drain in progress has yet to tell s of f.
ToTell(s, f) == f \in batch /\ s \in left

\* Who has the turn, and what is left behind when nobody has.
TurnInv ==
    /\ \A x \in Drainer : turn = x <=> at[x] = "telling"
    /\ turn = NoOne => batch = {} /\ rows = {} /\ left = {}
    /\ \A r \in Request : at[r] \in {"idle", "drain", "telling", "send"}
    /\ at[Task] \notin {"idle", "send"}
    /\ listing # NoOne => at[Task] \in {"merge", "drain", "telling"}
    /\ batch = {} => left = {}
    /\ \A row \in rows : row[1] \in batch

\* Nothing is known before it is on disk.
KnownInv ==
    /\ \A s \in Server, f \in File : knows[s][f] <= disk[f]
    /\ \A f \in File : reported[f] <= disk[f]
    /\ \A r \in Request, f \in File : wants[r][f] <= disk[f]
    /\ \A f \in File : table[f] \in Version => table[f] <= disk[f]
    /\ listing # NoOne =>
         \A f \in File : listing[f] \in Version => listing[f] <= disk[f] /\ Present(listing[f])
    /\ \A row \in rows : row[2] \in Version => row[2] <= disk[row[1]]

\* A server knows a version of a file, or a task of its own will tell it.
Hears(s, f, v) == <<s, f>> \in owed \/ knows[s][f] >= v

\* A server knows what the table has of a file, or is about to be told; so it
\* does of the rows of a drain, and of a walk that goes into the table.
TableTold(s, f) == table[f] \in Version => Hears(s, f, table[f])
RowsTold(s, f) ==
    \A row \in rows : row[1] = f /\ row[2] \in Version => s \in left \/ Hears(s, f, row[2])
ListTold(s, f) ==
    at[Task] = "telling" /\ listing # NoOne /\ listing[f] \in Version =>
        ToTell(s, f) \/ Hears(s, f, listing[f])
TableToldInv == \A s \in Server, f \in File : Due(s, f) => TableTold(s, f)
RowsToldInv == \A s \in Server, f \in File : Due(s, f) => RowsTold(s, f)
ListToldInv == \A s \in Server, f \in File : Due(s, f) => ListTold(s, f)
TableInv == TableToldInv /\ RowsToldInv /\ ListToldInv

\* A walk is due, or has seen the file as it is.
WalkComes(f) ==
    \/ alarm \/ rescan \/ at[Task] = "walk"
    \/ at[Task] = "drain" /\ listing # NoOne /\ listing[f] = StampOf(disk[f])

\* A change that a server has not read is under way to it.
ToldInv ==
    \A s \in Server, f \in File : Due(s, f) =>
        \/ UpToDate(s, f)
        \/ f \in unreported \cup queue \/ <<s, f>> \in owed \/ ToTell(s, f)
        \/ WalkComes(f)

\* What the watcher has reported, or had when a request began, is in the queue,
\* in the drain in progress, or was told; a request waits for the last two.
ReportedInv ==
    \A s \in Server, f \in File : Due(s, f) /\ <<s, f>> \notin owed =>
        /\ knows[s][f] >= reported[f] \/ f \in queue \/ ToTell(s, f)
        /\ \A r \in Request :
             /\ at[r] = "drain" => knows[s][f] >= wants[r][f] \/ f \in queue \/ ToTell(s, f)
             /\ at[r] = "telling" => knows[s][f] >= wants[r][f] \/ ToTell(s, f)
             /\ at[r] = "send" => knows[s][f] >= wants[r][f]

\* The task is awake, or will be woken, while something waits for it.
WakeInv ==
    /\ queue # {} \/ alarm =>
         permit \/ at[Task] \in {"off", "opening", "first", "merge", "loop", "walk", "drain"}
    /\ rescan => permit \/ at[Task] = "loop"
SyncInv == SyncTypeOK /\ TurnInv /\ KnownInv /\ TableInv /\ ToldInv /\ ReportedInv /\ WakeInv

-----------------------------------------------------------------------------
\* What the steps that tell a server do, file by file.

\* A server that reads some files knows them as they are.
LEMMA LearnsFacts ==
  ASSUME SyncTypeOK, NEW s \in Server, NEW files \in SUBSET File, Learns(s, files)
  PROVE  /\ knows' \in [Server -> [File -> Version]]
         /\ \A z \in Server, f \in File : knows'[z][f] = IF z = s /\ f \in files THEN disk[f] ELSE knows[z][f]
         /\ \A z \in Server, f \in File : <<z, f>> \in excused' <=>
                (<<z, f>> \in excused /\ ~(z = s /\ f \in files))
         /\ excused' \subseteq excused
<1> DEFINE new == [f \in File |-> IF f \in files THEN disk[f] ELSE knows[s][f]]
<1>1. knows' = [knows EXCEPT ![s] = new] /\ excused' = excused \ ({s} \X files)
  BY DEF Learns, SyncTypeOK
<1>2. new \in [File -> Version] /\ \A f \in File : new[f] = IF f \in files THEN disk[f] ELSE knows[s][f]
  BY DEF SyncTypeOK
<1> HIDE DEF new
<1> QED
  BY <1>1, <1>2 DEF SyncTypeOK

\* An edit makes a later version of one file.
LEMMA Edited ==
  ASSUME SyncTypeOK, NEW f \in File, FileEdit(f)
  PROVE  /\ disk' \in [File -> Version] /\ disk'[f] > disk[f] /\ \A g \in File : g # f => disk'[g] = disk[g]
         /\ \A v \in Version : v \in Nat
<1> USE SyncAssumption DEF SyncTypeOK, Version
<1>1. PICK v \in {disk[f] + 1} \cup (IF disk[f] % 3 = 1 THEN {disk[f] + 2} ELSE {}) :
         v <= MaxEdits /\ disk' = [disk EXCEPT ![f] = v]
  BY Zenon DEF FileEdit
<1>2. v = disk[f] + 1 \/ v = disk[f] + 2
  BY <1>1
<1>3. disk[f] \in 0..MaxEdits
  OBVIOUS
<1>4. v \in Nat /\ v > disk[f] /\ v \in Version
  BY <1>1, <1>2, <1>3
<1> QED
  BY <1>1, <1>4

\* What a drain tells one server.
LEMMA TellsFacts ==
  ASSUME SyncTypeOK, NEW x \in Drainer, NEW s \in Server, Tells(x, s)
  PROVE  /\ turn = x /\ s \in left /\ left' = left \ {s} /\ excused' \subseteq excused /\ owed \subseteq owed'
         /\ owed' \subseteq Server \X File /\ knows' \in [Server -> [File -> Version]]
         /\ UNCHANGED <<treeVars, queueVars, permit, rescan, table, turn, batch, rows, listing,
                at, start, reported, wants>>
         /\ \A z \in Server, f \in File :
              /\ z # s \/ f \notin batch => /\ knows'[z][f] = knows[z][f]
                                            /\ (<<z, f>> \in owed' <=> <<z, f>> \in owed)
                                            /\ (<<z, f>> \in excused' <=> <<z, f>> \in excused)
              /\ z = s /\ f \in batch =>
                     knows'[z][f] = disk[f] \/ (<<z, f>> \in owed' /\ knows'[z][f] = knows[z][f])
<1>0. /\ turn = x /\ s \in left /\ left' = left \ {s} /\ batch \in SUBSET File
      /\ UNCHANGED <<treeVars, queueVars, permit, rescan, table, turn, batch, rows, listing, at,
             start, reported, wants>>
  BY DEF Tells, SyncTypeOK
<1>1. CASE Learns(s, batch) /\ owed' = owed
  BY <1>0, <1>1, LearnsFacts DEF SyncTypeOK
<1>2. CASE owed' = owed \cup ({s} \X batch) /\ UNCHANGED <<knows, excused>>
  BY <1>0, <1>2 DEF SyncTypeOK
<1> QED
  BY <1>1, <1>2 DEF Tells

\* A notification that was spawned is sent.
LEMMA OwedFacts ==
  ASSUME SyncTypeOK, NEW s \in Server, OwedTold(s)
  PROVE  \E g \in File :
           /\ owed' = owed \ {<<s, g>>} /\ excused' \subseteq excused
           /\ knows' \in [Server -> [File -> Version]] /\ knows'[s][g] = disk[g]
           /\ UNCHANGED <<treeVars, queueVars, permit, rescan, table, drainVars, listing, at,
                  start, reported, wants>>
           /\ \A z \in Server, f \in File : z # s \/ f # g =>
                knows'[z][f] = knows[z][f] /\ (<<z, f>> \in excused' <=> <<z, f>> \in excused)
<1>1. PICK g \in File : Learns(s, {g}) /\ owed' = owed \ {<<s, g>>}
  BY DEF OwedTold
<1> QED
  BY <1>1, LearnsFacts DEF OwedTold

\* The table after a drain has the drain's rows, and what it started from.
LEMMA EndsFacts ==
  ASSUME SyncTypeOK, NEW x \in Drainer, EndsTurn(x)
  PROVE  /\ turn = x /\ left = {} /\ turn' = NoOne /\ batch' = {} /\ rows' = {}
         /\ listing' = (IF x = Task THEN NoOne ELSE listing)
         /\ at' = [at EXCEPT ![x] = IF x = Task THEN "rest" ELSE "send"]
         /\ UNCHANGED <<treeVars, queueVars, permit, rescan, left, knowVars, pastVars>>
         /\ table' \in [File -> Stamp]
         /\ \A f \in File : (\E row \in rows : row[1] = f /\ table'[f] = row[2]) \/ table'[f] = BaseRow(x, f)
<1>1. /\ turn = x /\ left = {} /\ turn' = NoOne /\ batch' = {} /\ rows' = {}
      /\ listing' = (IF x = Task THEN NoOne ELSE listing)
      /\ at' = [at EXCEPT ![x] = IF x = Task THEN "rest" ELSE "send"]
      /\ UNCHANGED <<treeVars, queueVars, permit, rescan, left, knowVars, pastVars>>
      /\ table' = [f \in File |-> IF HasRow(f) THEN RowOf(f) ELSE BaseRow(x, f)]
  BY DEF EndsTurn, Ends, Moves
<1>2. \A f \in File : HasRow(f) => RowOf(f) \in Stamp /\ <<f, RowOf(f)>> \in rows
  BY DEF HasRow, RowOf
<1>3. \A f \in File : BaseRow(x, f) \in Stamp
  BY DEF BaseRow, SyncTypeOK, Stamp
<1> QED
  BY <1>1, <1>2, <1>3

\* A server that is told of a file knows it as it is.
LEMMA OwedKnows ==
  ASSUME SyncTypeOK, NEW s \in Server, OwedTold(s)
  PROVE  \A z \in Server, f \in File : knows'[z][f] = disk[f] \/ knows'[z][f] = knows[z][f]
<1>1. PICK g \in File : Learns(s, {g})
  BY DEF OwedTold
<1> QED
  BY <1>1, LearnsFacts

-----------------------------------------------------------------------------
\* Every step keeps every part of the invariant.

\* The variables keep their types.
LEMMA SyncTypeStep ==
  ASSUME SyncTypeOK, TurnInv, [SyncNext]_syncVars PROVE SyncTypeOK'
<1> USE SyncAssumption DEF SyncTypeOK, Stamp, TurnInv, Moves, treeVars, queueVars,
        drainVars, knowVars, pastVars, Drainer, StampOf
<1>1. ASSUME NEW f \in File, FileEdit(f) PROVE SyncTypeOK'
  <2>1. unreported' \subseteq File /\ excused' \subseteq Server \X File
    BY <1>1 DEF FileEdit, Missed
  <2> QED
    BY <1>1, <2>1, Edited DEF FileEdit
<1>2. ASSUME NEW f \in File, Push(f) PROVE SyncTypeOK'
  BY <1>2, SMTT(40) DEF Push
<1>3. ASSUME PushAlarm PROVE SyncTypeOK'
  BY <1>3, SMTT(40) DEF PushAlarm
<1>4. ASSUME TaskOpens PROVE SyncTypeOK'
  BY <1>4, SMTT(40) DEF TaskOpens
<1>5. ASSUME TaskFirstWalk PROVE SyncTypeOK'
  BY <1>5, SMTT(40) DEF TaskFirstWalk, Walks
<1>6. ASSUME TaskMerges PROVE SyncTypeOK'
  BY <1>6, SMTT(40) DEF TaskMerges, Merged
<1>7. ASSUME TaskTurns PROVE SyncTypeOK'
  <2>1. rescan' = FALSE
    BY <1>7 DEF TaskTurns
  <2>2. rescan' \in BOOLEAN
    BY <2>1, Zenon
  <2> QED
    BY <1>7, <2>2, SMTT(40) DEF TaskTurns
<1>8. ASSUME TaskWalks PROVE SyncTypeOK'
  BY <1>8, SMTT(40) DEF TaskWalks, Walks
<1>9. ASSUME TaskWalkFails PROVE SyncTypeOK'
  BY <1>9, SMTT(40) DEF TaskWalkFails
<1>10. ASSUME TaskRests PROVE SyncTypeOK'
  BY <1>10, SMTT(40) DEF TaskRests
<1>11. ASSUME TaskWakes PROVE SyncTypeOK'
  <2>1. permit' = FALSE
    BY <1>11 DEF TaskWakes
  <2>2. permit' \in BOOLEAN
    BY <2>1, Zenon
  <2> QED
    BY <1>11, <2>2, SMTT(40) DEF TaskWakes
<1>12. ASSUME NEW x \in Drainer, TakesTurn(x) PROVE SyncTypeOK'
  <2>1. alarm' = FALSE /\ rescan' = (alarm \/ rescan) /\ permit' = (alarm \/ permit)
    BY <1>12 DEF TakesTurn, Turns
  <2>2. alarm' \in BOOLEAN /\ rescan' \in BOOLEAN /\ permit' \in BOOLEAN
    BY <2>1, Zenon
  <2>3. batch' \subseteq File /\ left' \subseteq Server /\ excused' \subseteq Server \X File
    BY <1>12, SMTT(40) DEF TakesTurn, Turns
  <2>4. rows' \subseteq File \X Stamp
    BY <1>12, SMTT(40) DEF TakesTurn, Turns
  <2> QED
    BY <1>12, <2>2, <2>3, <2>4, SMTT(40) DEF TakesTurn, Turns
<1>13. ASSUME NEW x \in Drainer, EndsTurn(x) PROVE SyncTypeOK'
  <2>1. /\ listing' = NoOne \/ listing' \in [File -> Stamp]
        /\ at' \in [Drainer -> {"off", "opening", "first", "merge", "loop", "walk", "rest", "wait",
                                "idle", "drain", "telling", "send"}]
    BY <1>13, EndsFacts
  <2>2. /\ turn' = NoOne /\ batch' = {} /\ rows' = {} /\ table' \in [File -> Stamp]
        /\ UNCHANGED <<treeVars, queueVars, permit, rescan, left, knowVars, pastVars>>
    BY <1>13, EndsFacts
  <2> QED
    BY <2>1, <2>2
<1>14. ASSUME NEW x \in Drainer, NEW s \in Server, Tells(x, s) PROVE SyncTypeOK'
  BY <1>14, TellsFacts, SMTT(40)
<1>15. ASSUME NEW r \in Request, RequestBegins(r) PROVE SyncTypeOK'
  BY <1>15, SMTT(40) DEF RequestBegins
<1>16. ASSUME NEW r \in Request, RequestSent(r) PROVE SyncTypeOK'
  BY <1>16, SMTT(40) DEF RequestSent
<1>17. ASSUME NEW r \in Request, RequestCancelled(r) PROVE SyncTypeOK'
  BY <1>17, SMTT(40) DEF RequestCancelled
<1>18. ASSUME NEW s \in Server, ServerBegins(s) PROVE SyncTypeOK'
  BY <1>18, SMTT(40) DEF ServerBegins
<1>19. ASSUME NEW s \in Server, ServerReads(s) PROVE SyncTypeOK'
  BY <1>19, LearnsFacts, SMTT(40) DEF ServerReads
<1>20. ASSUME NEW s \in Server, ServerReady(s) PROVE SyncTypeOK'
  BY <1>20, SMTT(40) DEF ServerReady
<1>21. ASSUME NEW s \in Server, OwedTold(s) PROVE SyncTypeOK'
  BY <1>21, OwedFacts, SMTT(60)
<1>22. ASSUME UNCHANGED syncVars PROVE SyncTypeOK'
  BY <1>22, SMTT(40) DEF syncVars
<1> QED
  BY <1>1, <1>2, <1>3, <1>4, <1>5, <1>6, <1>7, <1>8, <1>9, <1>10, <1>11, <1>12, <1>13, <1>14,
     <1>15, <1>16, <1>17, <1>18, <1>19, <1>20, <1>21, <1>22 DEF SyncNext, Drainer

\* One drain at a time has a batch, rows and servers left to tell.
LEMMA TurnStep ==
  ASSUME SyncTypeOK, TurnInv, [SyncNext]_syncVars PROVE TurnInv'
<1> USE SyncAssumption DEF SyncTypeOK, TurnInv, Moves, treeVars, queueVars, drainVars,
        knowVars, pastVars, Drainer, StampOf
<1>1. ASSUME NEW f \in File, FileEdit(f) PROVE TurnInv'
  BY <1>1, Edited, SMTT(40) DEF FileEdit, Missed
<1>2. ASSUME NEW f \in File, Push(f) PROVE TurnInv'
  BY <1>2, SMTT(40) DEF Push
<1>3. ASSUME PushAlarm PROVE TurnInv'
  BY <1>3, SMTT(40) DEF PushAlarm
<1>4. ASSUME TaskOpens PROVE TurnInv'
  BY <1>4, SMTT(40) DEF TaskOpens
<1>5. ASSUME TaskFirstWalk PROVE TurnInv'
  BY <1>5, SMTT(40) DEF TaskFirstWalk, Walks
<1>6. ASSUME TaskMerges PROVE TurnInv'
  BY <1>6, SMTT(40) DEF TaskMerges, Merged
<1>7. ASSUME TaskTurns PROVE TurnInv'
  BY <1>7, SMTT(40) DEF TaskTurns
<1>8. ASSUME TaskWalks PROVE TurnInv'
  BY <1>8, SMTT(40) DEF TaskWalks, Walks
<1>9. ASSUME TaskWalkFails PROVE TurnInv'
  BY <1>9, SMTT(40) DEF TaskWalkFails
<1>10. ASSUME TaskRests PROVE TurnInv'
  BY <1>10, SMTT(40) DEF TaskRests
<1>11. ASSUME TaskWakes PROVE TurnInv'
  BY <1>11, SMTT(40) DEF TaskWakes
<1>12. ASSUME NEW x \in Drainer, TakesTurn(x) PROVE TurnInv'
  BY <1>12, SMTT(40) DEF TakesTurn, Turns, Differs, Rowless
<1>13. ASSUME NEW x \in Drainer, EndsTurn(x) PROVE TurnInv'
  BY <1>13, SMTT(40) DEF EndsTurn, Ends, HasRow, BaseRow
<1>14. ASSUME NEW x \in Drainer, NEW s \in Server, Tells(x, s) PROVE TurnInv'
  BY <1>14, LearnsFacts, SMTT(40) DEF Tells
<1>15. ASSUME NEW r \in Request, RequestBegins(r) PROVE TurnInv'
  BY <1>15, SMTT(40) DEF RequestBegins
<1>16. ASSUME NEW r \in Request, RequestSent(r) PROVE TurnInv'
  BY <1>16, SMTT(40) DEF RequestSent
<1>17. ASSUME NEW r \in Request, RequestCancelled(r) PROVE TurnInv'
  BY <1>17, SMTT(40) DEF RequestCancelled
<1>18. ASSUME NEW s \in Server, ServerBegins(s) PROVE TurnInv'
  BY <1>18, SMTT(40) DEF ServerBegins
<1>19. ASSUME NEW s \in Server, ServerReads(s) PROVE TurnInv'
  BY <1>19, LearnsFacts, SMTT(40) DEF ServerReads
<1>20. ASSUME NEW s \in Server, ServerReady(s) PROVE TurnInv'
  BY <1>20, SMTT(40) DEF ServerReady
<1>21. ASSUME NEW s \in Server, OwedTold(s) PROVE TurnInv'
  BY <1>21, LearnsFacts, SMTT(40) DEF OwedTold
<1>22. ASSUME UNCHANGED syncVars PROVE TurnInv'
  BY <1>22, SMTT(40) DEF syncVars
<1> QED
  BY <1>1, <1>2, <1>3, <1>4, <1>5, <1>6, <1>7, <1>8, <1>9, <1>10, <1>11, <1>12, <1>13, <1>14,
     <1>15, <1>16, <1>17, <1>18, <1>19, <1>20, <1>21, <1>22 DEF SyncNext, Drainer

\* Nothing is known before it is on disk.
LEMMA KnownStep ==
  ASSUME SyncTypeOK, TurnInv, KnownInv, [SyncNext]_syncVars PROVE KnownInv'
<1> USE SyncAssumption DEF SyncTypeOK, KnownInv, Version, Stamp, TurnInv, Moves, treeVars,
        queueVars, drainVars, knowVars, pastVars, Drainer, StampOf
<1>1. ASSUME NEW f \in File, FileEdit(f) PROVE KnownInv'
  BY <1>1, Edited, SMTT(40) DEF FileEdit, Missed
<1>2. ASSUME NEW f \in File, Push(f) PROVE KnownInv'
  BY <1>2, SMTT(40) DEF Push
<1>3. ASSUME PushAlarm PROVE KnownInv'
  BY <1>3, SMTT(40) DEF PushAlarm
<1>4. ASSUME TaskOpens PROVE KnownInv'
  BY <1>4, SMTT(40) DEF TaskOpens
<1>5. ASSUME TaskFirstWalk PROVE KnownInv'
  BY <1>5, SMTT(40) DEF TaskFirstWalk, Walks
<1>6. ASSUME TaskMerges PROVE KnownInv'
  BY <1>6, SMTT(40) DEF TaskMerges, Merged
<1>7. ASSUME TaskTurns PROVE KnownInv'
  BY <1>7, SMTT(40) DEF TaskTurns
<1>8. ASSUME TaskWalks PROVE KnownInv'
  BY <1>8, SMTT(40) DEF TaskWalks, Walks
<1>9. ASSUME TaskWalkFails PROVE KnownInv'
  BY <1>9, SMTT(40) DEF TaskWalkFails
<1>10. ASSUME TaskRests PROVE KnownInv'
  BY <1>10, SMTT(40) DEF TaskRests
<1>11. ASSUME TaskWakes PROVE KnownInv'
  BY <1>11, SMTT(40) DEF TaskWakes
<1>12. ASSUME NEW x \in Drainer, TakesTurn(x) PROVE KnownInv'
  BY <1>12, SMTT(40) DEF TakesTurn, Turns, Differs, Rowless
<1>13. ASSUME NEW x \in Drainer, EndsTurn(x) PROVE KnownInv'
  <2>1. \A f \in File : BaseRow(x, f) \in Version => BaseRow(x, f) <= disk[f]
    BY <1>13, SMTT(40) DEF BaseRow
  <2>2. \A f \in File : table'[f] \in Version => table'[f] <= disk[f]
    BY <1>13, <2>1, EndsFacts, SMTT(40)
  <2> QED
    BY <1>13, <2>2, EndsFacts, SMTT(40)
<1>14. ASSUME NEW x \in Drainer, NEW s \in Server, Tells(x, s) PROVE KnownInv'
  <2>1. \A z \in Server, f \in File : knows'[z][f] = disk[f] \/ knows'[z][f] = knows[z][f]
    BY <1>14, TellsFacts
  <2>2. UNCHANGED <<treeVars, queueVars, permit, rescan, table, turn, batch, rows, listing, at,
         start, reported, wants>>
    BY <1>14, TellsFacts
  <2> QED
    BY <2>1, <2>2, SMTT(40)
<1>15. ASSUME NEW r \in Request, RequestBegins(r) PROVE KnownInv'
  BY <1>15, SMTT(40) DEF RequestBegins
<1>16. ASSUME NEW r \in Request, RequestSent(r) PROVE KnownInv'
  BY <1>16, SMTT(40) DEF RequestSent
<1>17. ASSUME NEW r \in Request, RequestCancelled(r) PROVE KnownInv'
  BY <1>17, SMTT(40) DEF RequestCancelled
<1>18. ASSUME NEW s \in Server, ServerBegins(s) PROVE KnownInv'
  BY <1>18, SMTT(40) DEF ServerBegins
<1>19. ASSUME NEW s \in Server, ServerReads(s) PROVE KnownInv'
  BY <1>19, LearnsFacts, SMTT(40) DEF ServerReads
<1>20. ASSUME NEW s \in Server, ServerReady(s) PROVE KnownInv'
  BY <1>20, SMTT(40) DEF ServerReady
<1>21. ASSUME NEW s \in Server, OwedTold(s) PROVE KnownInv'
  <2>1. \A z \in Server, f \in File : knows'[z][f] = disk[f] \/ knows'[z][f] = knows[z][f]
    BY <1>21, OwedKnows
  <2>2. UNCHANGED <<treeVars, queueVars, permit, rescan, table, drainVars, listing, at, start,
         reported, wants>>
    BY <1>21, OwedFacts
  <2> QED
    BY <2>1, <2>2, SMTT(40)
<1>22. ASSUME UNCHANGED syncVars PROVE KnownInv'
  BY <1>22, SMTT(40) DEF syncVars
<1> QED
  BY <1>1, <1>2, <1>3, <1>4, <1>5, <1>6, <1>7, <1>8, <1>9, <1>10, <1>11, <1>12, <1>13, <1>14,
     <1>15, <1>16, <1>17, <1>18, <1>19, <1>20, <1>21, <1>22 DEF SyncNext, Drainer

\* The table of a drain that ends is that of its rows, its walk and the table before.
LEMMA TableToldStep ==
  ASSUME SyncTypeOK, SyncTypeOK', TurnInv, KnownInv, TableInv, [SyncNext]_syncVars PROVE TableToldInv'
<1> USE SyncAssumption DEF SyncTypeOK, KnownInv, TableInv, Version, Stamp, TurnInv, Due,
        Reader, ToTell, Hears, TableTold, RowsTold, ListTold, TableToldInv, RowsToldInv,
        ListToldInv, Moves, treeVars, queueVars, drainVars, knowVars, pastVars, Drainer, StampOf
<1>1. ASSUME NEW f \in File, FileEdit(f) PROVE TableToldInv'
  BY <1>1, Edited, SMTT(40) DEF FileEdit, Missed
<1>2. ASSUME NEW f \in File, Push(f) PROVE TableToldInv'
  BY <1>2, SMTT(40) DEF Push
<1>3. ASSUME PushAlarm PROVE TableToldInv'
  BY <1>3, SMTT(40) DEF PushAlarm
<1>4. ASSUME TaskOpens PROVE TableToldInv'
  BY <1>4, SMTT(40) DEF TaskOpens
<1>5. ASSUME TaskFirstWalk PROVE TableToldInv'
  BY <1>5, SMTT(40) DEF TaskFirstWalk, Walks
<1>6. ASSUME TaskMerges PROVE TableToldInv'
  BY <1>6, SMTT(40) DEF TaskMerges, Merged
<1>7. ASSUME TaskTurns PROVE TableToldInv'
  BY <1>7, SMTT(40) DEF TaskTurns
<1>8. ASSUME TaskWalks PROVE TableToldInv'
  BY <1>8, SMTT(40) DEF TaskWalks, Walks
<1>9. ASSUME TaskWalkFails PROVE TableToldInv'
  BY <1>9, SMTT(40) DEF TaskWalkFails
<1>10. ASSUME TaskRests PROVE TableToldInv'
  BY <1>10, SMTT(40) DEF TaskRests
<1>11. ASSUME TaskWakes PROVE TableToldInv'
  BY <1>11, SMTT(40) DEF TaskWakes
<1>12. ASSUME NEW x \in Drainer, TakesTurn(x) PROVE TableToldInv'
  BY <1>12, SMTT(40) DEF TakesTurn, Turns, Differs, Rowless
<1>13. ASSUME NEW x \in Drainer, EndsTurn(x) PROVE TableToldInv'
  BY <1>13, EndsFacts, SMTT(40) DEF BaseRow
<1>14. ASSUME NEW x \in Drainer, NEW s \in Server, Tells(x, s) PROVE TableToldInv'
  BY <1>14, TellsFacts, SMTT(40)
<1>15. ASSUME NEW r \in Request, RequestBegins(r) PROVE TableToldInv'
  BY <1>15, SMTT(40) DEF RequestBegins
<1>16. ASSUME NEW r \in Request, RequestSent(r) PROVE TableToldInv'
  BY <1>16, SMTT(40) DEF RequestSent
<1>17. ASSUME NEW r \in Request, RequestCancelled(r) PROVE TableToldInv'
  BY <1>17, SMTT(40) DEF RequestCancelled
<1>18. ASSUME NEW s \in Server, ServerBegins(s) PROVE TableToldInv'
  BY <1>18, SMTT(40) DEF ServerBegins
<1>19. ASSUME NEW s \in Server, ServerReads(s) PROVE TableToldInv'
  BY <1>19, LearnsFacts, SMTT(40) DEF ServerReads
<1>20. ASSUME NEW s \in Server, ServerReady(s) PROVE TableToldInv'
  BY <1>20, SMTT(40) DEF ServerReady
<1>21. ASSUME NEW s \in Server, OwedTold(s) PROVE TableToldInv'
  BY <1>21, OwedFacts, SMTT(60)
<1>22. ASSUME UNCHANGED syncVars PROVE TableToldInv'
  BY <1>22, SMTT(40) DEF syncVars
<1> QED
  BY <1>1, <1>2, <1>3, <1>4, <1>5, <1>6, <1>7, <1>8, <1>9, <1>10, <1>11, <1>12, <1>13, <1>14,
     <1>15, <1>16, <1>17, <1>18, <1>19, <1>20, <1>21, <1>22 DEF SyncNext, Drainer

\* The rows are of the batch, and every server is told of the batch.
LEMMA RowsToldStep ==
  ASSUME SyncTypeOK, SyncTypeOK', TurnInv, KnownInv, TableInv, [SyncNext]_syncVars PROVE RowsToldInv'
<1> USE SyncAssumption DEF SyncTypeOK, KnownInv, TableInv, Version, Stamp, TurnInv, Due,
        Reader, ToTell, Hears, TableTold, RowsTold, ListTold, TableToldInv, RowsToldInv,
        ListToldInv, Moves, treeVars, queueVars, drainVars, knowVars, pastVars, Drainer, StampOf
<1>1. ASSUME NEW f \in File, FileEdit(f) PROVE RowsToldInv'
  BY <1>1, Edited, SMTT(40) DEF FileEdit, Missed
<1>2. ASSUME NEW f \in File, Push(f) PROVE RowsToldInv'
  BY <1>2, SMTT(40) DEF Push
<1>3. ASSUME PushAlarm PROVE RowsToldInv'
  BY <1>3, SMTT(40) DEF PushAlarm
<1>4. ASSUME TaskOpens PROVE RowsToldInv'
  BY <1>4, SMTT(40) DEF TaskOpens
<1>5. ASSUME TaskFirstWalk PROVE RowsToldInv'
  BY <1>5, SMTT(40) DEF TaskFirstWalk, Walks
<1>6. ASSUME TaskMerges PROVE RowsToldInv'
  BY <1>6, SMTT(40) DEF TaskMerges, Merged
<1>7. ASSUME TaskTurns PROVE RowsToldInv'
  BY <1>7, SMTT(40) DEF TaskTurns
<1>8. ASSUME TaskWalks PROVE RowsToldInv'
  BY <1>8, SMTT(40) DEF TaskWalks, Walks
<1>9. ASSUME TaskWalkFails PROVE RowsToldInv'
  BY <1>9, SMTT(40) DEF TaskWalkFails
<1>10. ASSUME TaskRests PROVE RowsToldInv'
  BY <1>10, SMTT(40) DEF TaskRests
<1>11. ASSUME TaskWakes PROVE RowsToldInv'
  BY <1>11, SMTT(40) DEF TaskWakes
<1>12. ASSUME NEW x \in Drainer, TakesTurn(x) PROVE RowsToldInv'
  BY <1>12, SMTT(40) DEF TakesTurn, Turns, Differs, Rowless
<1>13. ASSUME NEW x \in Drainer, EndsTurn(x) PROVE RowsToldInv'
  BY <1>13, EndsFacts, SMTT(40) DEF BaseRow
<1>14. ASSUME NEW x \in Drainer, NEW s \in Server, Tells(x, s) PROVE RowsToldInv'
  BY <1>14, TellsFacts, SMTT(40)
<1>15. ASSUME NEW r \in Request, RequestBegins(r) PROVE RowsToldInv'
  BY <1>15, SMTT(40) DEF RequestBegins
<1>16. ASSUME NEW r \in Request, RequestSent(r) PROVE RowsToldInv'
  BY <1>16, SMTT(40) DEF RequestSent
<1>17. ASSUME NEW r \in Request, RequestCancelled(r) PROVE RowsToldInv'
  BY <1>17, SMTT(40) DEF RequestCancelled
<1>18. ASSUME NEW s \in Server, ServerBegins(s) PROVE RowsToldInv'
  BY <1>18, SMTT(40) DEF ServerBegins
<1>19. ASSUME NEW s \in Server, ServerReads(s) PROVE RowsToldInv'
  BY <1>19, LearnsFacts, SMTT(40) DEF ServerReads
<1>20. ASSUME NEW s \in Server, ServerReady(s) PROVE RowsToldInv'
  BY <1>20, SMTT(40) DEF ServerReady
<1>21. ASSUME NEW s \in Server, OwedTold(s) PROVE RowsToldInv'
  BY <1>21, OwedFacts, SMTT(60)
<1>22. ASSUME UNCHANGED syncVars PROVE RowsToldInv'
  BY <1>22, SMTT(40) DEF syncVars
<1> QED
  BY <1>1, <1>2, <1>3, <1>4, <1>5, <1>6, <1>7, <1>8, <1>9, <1>10, <1>11, <1>12, <1>13, <1>14,
     <1>15, <1>16, <1>17, <1>18, <1>19, <1>20, <1>21, <1>22 DEF SyncNext, Drainer

\* What the walk shows and the table does not have is in the batch.
LEMMA ListToldStep ==
  ASSUME SyncTypeOK, SyncTypeOK', TurnInv, KnownInv, TableInv, [SyncNext]_syncVars PROVE ListToldInv'
<1> USE SyncAssumption DEF SyncTypeOK, KnownInv, TableInv, Version, Stamp, TurnInv, Due,
        Reader, ToTell, Hears, TableTold, RowsTold, ListTold, TableToldInv, RowsToldInv,
        ListToldInv, Moves, treeVars, queueVars, drainVars, knowVars, pastVars, Drainer, StampOf
<1>1. ASSUME NEW f \in File, FileEdit(f) PROVE ListToldInv'
  BY <1>1, Edited, SMTT(40) DEF FileEdit, Missed
<1>2. ASSUME NEW f \in File, Push(f) PROVE ListToldInv'
  BY <1>2, SMTT(40) DEF Push
<1>3. ASSUME PushAlarm PROVE ListToldInv'
  BY <1>3, SMTT(40) DEF PushAlarm
<1>4. ASSUME TaskOpens PROVE ListToldInv'
  BY <1>4, SMTT(40) DEF TaskOpens
<1>5. ASSUME TaskFirstWalk PROVE ListToldInv'
  BY <1>5, SMTT(40) DEF TaskFirstWalk, Walks
<1>6. ASSUME TaskMerges PROVE ListToldInv'
  BY <1>6, SMTT(40) DEF TaskMerges, Merged
<1>7. ASSUME TaskTurns PROVE ListToldInv'
  BY <1>7, SMTT(40) DEF TaskTurns
<1>8. ASSUME TaskWalks PROVE ListToldInv'
  BY <1>8, SMTT(40) DEF TaskWalks, Walks
<1>9. ASSUME TaskWalkFails PROVE ListToldInv'
  BY <1>9, SMTT(40) DEF TaskWalkFails
<1>10. ASSUME TaskRests PROVE ListToldInv'
  BY <1>10, SMTT(40) DEF TaskRests
<1>11. ASSUME TaskWakes PROVE ListToldInv'
  BY <1>11, SMTT(40) DEF TaskWakes
<1>12. ASSUME NEW x \in Drainer, TakesTurn(x) PROVE ListToldInv'
  BY <1>12, SMTT(40) DEF TakesTurn, Turns, Differs, Rowless
<1>13. ASSUME NEW x \in Drainer, EndsTurn(x) PROVE ListToldInv'
  BY <1>13, EndsFacts, SMTT(40) DEF BaseRow
<1>14. ASSUME NEW x \in Drainer, NEW s \in Server, Tells(x, s) PROVE ListToldInv'
  BY <1>14, TellsFacts, SMTT(40)
<1>15. ASSUME NEW r \in Request, RequestBegins(r) PROVE ListToldInv'
  BY <1>15, SMTT(40) DEF RequestBegins
<1>16. ASSUME NEW r \in Request, RequestSent(r) PROVE ListToldInv'
  BY <1>16, SMTT(40) DEF RequestSent
<1>17. ASSUME NEW r \in Request, RequestCancelled(r) PROVE ListToldInv'
  BY <1>17, SMTT(40) DEF RequestCancelled
<1>18. ASSUME NEW s \in Server, ServerBegins(s) PROVE ListToldInv'
  BY <1>18, SMTT(40) DEF ServerBegins
<1>19. ASSUME NEW s \in Server, ServerReads(s) PROVE ListToldInv'
  BY <1>19, LearnsFacts, SMTT(40) DEF ServerReads
<1>20. ASSUME NEW s \in Server, ServerReady(s) PROVE ListToldInv'
  BY <1>20, SMTT(40) DEF ServerReady
<1>21. ASSUME NEW s \in Server, OwedTold(s) PROVE ListToldInv'
  <2>1. PICK g \in File :
           /\ owed' = owed \ {<<s, g>>} /\ knows'[s][g] = disk[g]
           /\ UNCHANGED <<treeVars, queueVars, permit, rescan, table, drainVars, listing, at, start,
                          reported, wants>>
           /\ \A z \in Server, f \in File : z # s \/ f # g =>
                knows'[z][f] = knows[z][f] /\ (<<z, f>> \in excused' <=> <<z, f>> \in excused)
    BY <1>21, OwedFacts
  <2> SUFFICES ASSUME NEW z \in Server, NEW f \in File, Due(z, f)', at[Task] = "telling",
                      listing # NoOne, listing[f] \in Version
               PROVE  ToTell(z, f) \/ <<z, f>> \in owed' \/ knows'[z][f] >= listing[f]
    BY <2>1
  <2>2. CASE z = s /\ f = g
    <3>1. listing[f] <= disk[f] /\ listing[f] \in Nat /\ disk[f] \in Nat
      OBVIOUS
    <3> QED
      BY <2>1, <2>2, <3>1
  <2>3. CASE z # s \/ f # g
    <3>1. Due(z, f) /\ knows'[z][f] = knows[z][f] /\ (<<z, f>> \in owed => <<z, f>> \in owed')
      BY <2>1, <2>3
    <3> QED
      BY <3>1
  <2> QED
    BY <2>2, <2>3
<1>22. ASSUME UNCHANGED syncVars PROVE ListToldInv'
  BY <1>22, SMTT(40) DEF syncVars
<1> QED
  BY <1>1, <1>2, <1>3, <1>4, <1>5, <1>6, <1>7, <1>8, <1>9, <1>10, <1>11, <1>12, <1>13, <1>14,
     <1>15, <1>16, <1>17, <1>18, <1>19, <1>20, <1>21, <1>22 DEF SyncNext, Drainer

\* A change is handed on from the watcher to the queue, to a drain, to the servers;
\* the step that matters is the drain that takes a walk.
LEMMA ToldStep ==
  ASSUME SyncTypeOK, SyncTypeOK', TurnInv, KnownInv, TableInv, ToldInv, [SyncNext]_syncVars PROVE ToldInv'
<1> USE SyncAssumption DEF SyncTypeOK, ToldInv, Version, Stamp, TurnInv, Due, Reader,
        ToTell, UpToDate, WalkComes, Moves, treeVars, queueVars, drainVars, knowVars, pastVars,
        Drainer, StampOf
<1>1. ASSUME NEW f \in File, FileEdit(f) PROVE ToldInv'
  BY <1>1, Edited, SMTT(40) DEF FileEdit, Missed
<1>2. ASSUME NEW f \in File, Push(f) PROVE ToldInv'
  BY <1>2, SMTT(40) DEF Push
<1>3. ASSUME PushAlarm PROVE ToldInv'
  BY <1>3, SMTT(40) DEF PushAlarm
<1>4. ASSUME TaskOpens PROVE ToldInv'
  BY <1>4, SMTT(40) DEF TaskOpens
<1>5. ASSUME TaskFirstWalk PROVE ToldInv'
  BY <1>5, SMTT(40) DEF TaskFirstWalk, Walks
<1>6. ASSUME TaskMerges PROVE ToldInv'
  BY <1>6, SMTT(40) DEF TaskMerges, Merged
<1>7. ASSUME TaskTurns PROVE ToldInv'
  BY <1>7, SMTT(40) DEF TaskTurns
<1>8. ASSUME TaskWalks PROVE ToldInv'
  BY <1>8, SMTT(40) DEF TaskWalks, Walks
<1>9. ASSUME TaskWalkFails PROVE ToldInv'
  BY <1>9, SMTT(40) DEF TaskWalkFails
<1>10. ASSUME TaskRests PROVE ToldInv'
  BY <1>10, SMTT(40) DEF TaskRests
<1>11. ASSUME TaskWakes PROVE ToldInv'
  BY <1>11, SMTT(40) DEF TaskWakes
<1>12. ASSUME NEW x \in Drainer, TakesTurn(x) PROVE ToldInv'
  <2>1. /\ at[x] = "drain" /\ turn = NoOne /\ at' = [at EXCEPT ![x] = "telling"]
        /\ left' = IF batch' = {} THEN {} ELSE {s \in Server : start[s] # "none"}
        /\ excused \subseteq excused' /\ queue \subseteq batch'
        /\ UNCHANGED <<treeVars, table, listing, knowVars, reported, wants>>
    BY <1>12 DEF TakesTurn, Turns
  <2>2. rescan' = (alarm \/ rescan)
    BY <1>12 DEF TakesTurn, Turns
  <2>3. x = Task /\ listing # NoOne =>
          /\ \A f \in File : Differs(f) => f \in batch'
          /\ \A s \in Server, f \in File : Rowless(s, f) => <<s, f>> \in excused'
    BY <1>12 DEF TakesTurn, Turns
  <2> SUFFICES ASSUME NEW s \in Server, NEW f \in File, Due(s, f), s \in Server, start[s] # "none",
                      <<s, f>> \notin excused', ~UpToDate(s, f), f \notin unreported,
                             f \notin batch', <<s, f>> \notin owed
               PROVE  \/ alarm \/ rescan \/ at'[Task] = "walk"
                      \/ at'[Task] = "drain" /\ listing # NoOne /\ listing[f] = StampOf(disk[f])
    BY <2>1, <2>2
  <2>4. CASE alarm \/ rescan
    BY <2>4
  <2>5. CASE ~alarm /\ ~rescan
    <3>1. f \notin queue /\ ~ToTell(s, f)
      BY <2>1
    <3>2. at[Task] = "walk" \/ (at[Task] = "drain" /\ listing # NoOne /\ listing[f] = StampOf(disk[f]))
      BY <3>1, <2>5
    <3>3. CASE at[Task] = "walk"
      BY <3>3, <2>1
    <3>5. CASE x # Task /\ at[Task] = "drain" /\ listing # NoOne /\ listing[f] = StampOf(disk[f])
      BY <3>5, <2>1
    <3>4. CASE x = Task /\ at[Task] = "drain" /\ listing # NoOne /\ listing[f] = StampOf(disk[f])
      <4>2. ~Differs(f) /\ ~Rowless(s, f)
        BY <3>4, <2>3
      <4>3. CASE listing[f] # Gone
        <5>1. table[f] = listing[f] /\ listing[f] = disk[f] /\ Present(disk[f])
          BY <4>2, <4>3, <3>4 DEF Differs
        <5>2. knows[s][f] >= disk[f] /\ knows[s][f] <= disk[f]
          BY <5>1 DEF TableInv, TableToldInv, TableTold, Hears, KnownInv
        <5>3. knows[s][f] \in 0..MaxEdits /\ disk[f] \in 0..MaxEdits
          BY DEF SyncTypeOK
        <5>5. \A a, b \in 0..MaxEdits : a >= b /\ a <= b => a = b
          OBVIOUS
        <5>4. knows[s][f] = disk[f]
          BY <5>2, <5>3, <5>5, Zenon
        <5> QED
          BY <5>4
      <4>4. CASE listing[f] = Gone
        BY <4>2, <4>4, <3>4, <3>1 DEF Rowless, Differs
      <4> QED
        BY <4>3, <4>4
    <3> QED
      BY <3>2, <3>3, <3>4, <3>5
  <2> QED
    BY <2>4, <2>5
<1>13. ASSUME NEW x \in Drainer, EndsTurn(x) PROVE ToldInv'
  BY <1>13, EndsFacts, SMTT(40) DEF BaseRow
<1>14. ASSUME NEW x \in Drainer, NEW s \in Server, Tells(x, s) PROVE ToldInv'
  BY <1>14, TellsFacts, SMTT(40)
<1>15. ASSUME NEW r \in Request, RequestBegins(r) PROVE ToldInv'
  BY <1>15, SMTT(40) DEF RequestBegins
<1>16. ASSUME NEW r \in Request, RequestSent(r) PROVE ToldInv'
  BY <1>16, SMTT(40) DEF RequestSent
<1>17. ASSUME NEW r \in Request, RequestCancelled(r) PROVE ToldInv'
  BY <1>17, SMTT(40) DEF RequestCancelled
<1>18. ASSUME NEW s \in Server, ServerBegins(s) PROVE ToldInv'
  BY <1>18, SMTT(40) DEF ServerBegins
<1>19. ASSUME NEW s \in Server, ServerReads(s) PROVE ToldInv'
  BY <1>19, LearnsFacts, SMTT(40) DEF ServerReads
<1>20. ASSUME NEW s \in Server, ServerReady(s) PROVE ToldInv'
  BY <1>20, SMTT(40) DEF ServerReady
<1>21. ASSUME NEW s \in Server, OwedTold(s) PROVE ToldInv'
  BY <1>21, OwedFacts, SMTT(60)
<1>22. ASSUME UNCHANGED syncVars PROVE ToldInv'
  BY <1>22, SMTT(40) DEF syncVars
<1> QED
  BY <1>1, <1>2, <1>3, <1>4, <1>5, <1>6, <1>7, <1>8, <1>9, <1>10, <1>11, <1>12, <1>13, <1>14,
     <1>15, <1>16, <1>17, <1>18, <1>19, <1>20, <1>21, <1>22 DEF SyncNext, Drainer

\* A request that waits for its turn has the turn after the drain that took them.
LEMMA ReportedStep ==
  ASSUME SyncTypeOK, SyncTypeOK', TurnInv, KnownInv, ReportedInv, [SyncNext]_syncVars PROVE ReportedInv'
<1> USE SyncAssumption DEF SyncTypeOK, KnownInv, ReportedInv, Version, TurnInv, Due, Reader,
        ToTell, Moves, treeVars, queueVars, drainVars, knowVars, pastVars, Drainer, StampOf
<1>1. ASSUME NEW f \in File, FileEdit(f) PROVE ReportedInv'
  BY <1>1, Edited, SMTT(40) DEF FileEdit, Missed
<1>2. ASSUME NEW f \in File, Push(f) PROVE ReportedInv'
  BY <1>2, SMTT(40) DEF Push
<1>3. ASSUME PushAlarm PROVE ReportedInv'
  BY <1>3, SMTT(40) DEF PushAlarm
<1>4. ASSUME TaskOpens PROVE ReportedInv'
  BY <1>4, SMTT(40) DEF TaskOpens
<1>5. ASSUME TaskFirstWalk PROVE ReportedInv'
  BY <1>5, SMTT(40) DEF TaskFirstWalk, Walks
<1>6. ASSUME TaskMerges PROVE ReportedInv'
  BY <1>6, SMTT(40) DEF TaskMerges, Merged
<1>7. ASSUME TaskTurns PROVE ReportedInv'
  BY <1>7, SMTT(40) DEF TaskTurns
<1>8. ASSUME TaskWalks PROVE ReportedInv'
  BY <1>8, SMTT(40) DEF TaskWalks, Walks
<1>9. ASSUME TaskWalkFails PROVE ReportedInv'
  BY <1>9, SMTT(40) DEF TaskWalkFails
<1>10. ASSUME TaskRests PROVE ReportedInv'
  BY <1>10, SMTT(40) DEF TaskRests
<1>11. ASSUME TaskWakes PROVE ReportedInv'
  BY <1>11, SMTT(40) DEF TaskWakes
<1>12. ASSUME NEW x \in Drainer, TakesTurn(x) PROVE ReportedInv'
  BY <1>12, SMTT(40) DEF TakesTurn, Turns, Differs, Rowless
<1>13. ASSUME NEW x \in Drainer, EndsTurn(x) PROVE ReportedInv'
  <2>1. /\ turn = x /\ left = {} /\ batch' = {}
        /\ at' = [at EXCEPT ![x] = IF x = Task THEN "rest" ELSE "send"]
        /\ UNCHANGED <<treeVars, queueVars, permit, rescan, left, knowVars, pastVars>>
    BY <1>13, EndsFacts
  <2> SUFFICES ASSUME NEW s \in Server, NEW f \in File, Due(s, f), <<s, f>> \notin owed
               PROVE  /\ knows[s][f] >= reported[f] \/ f \in queue
                      /\ \A r \in Request :
                           /\ at'[r] = "drain" => knows[s][f] >= wants[r][f] \/ f \in queue
                           /\ at'[r] = "telling" => knows[s][f] >= wants[r][f]
                           /\ at'[r] = "send" => knows[s][f] >= wants[r][f]
    BY <2>1
  <2>2. at[x] = "telling" /\ ~ToTell(s, f)
    BY <2>1
  <2> QED
    BY <2>1, <2>2, SMTT(40)
<1>14. ASSUME NEW x \in Drainer, NEW s \in Server, Tells(x, s) PROVE ReportedInv'
  BY <1>14, TellsFacts, SMTT(40)
<1>15. ASSUME NEW r \in Request, RequestBegins(r) PROVE ReportedInv'
  BY <1>15, SMTT(40) DEF RequestBegins
<1>16. ASSUME NEW r \in Request, RequestSent(r) PROVE ReportedInv'
  BY <1>16, SMTT(40) DEF RequestSent
<1>17. ASSUME NEW r \in Request, RequestCancelled(r) PROVE ReportedInv'
  BY <1>17, SMTT(40) DEF RequestCancelled
<1>18. ASSUME NEW s \in Server, ServerBegins(s) PROVE ReportedInv'
  BY <1>18, SMTT(40) DEF ServerBegins
<1>19. ASSUME NEW s \in Server, ServerReads(s) PROVE ReportedInv'
  BY <1>19, LearnsFacts, SMTT(40) DEF ServerReads
<1>20. ASSUME NEW s \in Server, ServerReady(s) PROVE ReportedInv'
  BY <1>20, SMTT(40) DEF ServerReady
<1>21. ASSUME NEW s \in Server, OwedTold(s) PROVE ReportedInv'
  BY <1>21, OwedFacts, SMTT(60)
<1>22. ASSUME UNCHANGED syncVars PROVE ReportedInv'
  BY <1>22, SMTT(40) DEF syncVars
<1> QED
  BY <1>1, <1>2, <1>3, <1>4, <1>5, <1>6, <1>7, <1>8, <1>9, <1>10, <1>11, <1>12, <1>13, <1>14,
     <1>15, <1>16, <1>17, <1>18, <1>19, <1>20, <1>21, <1>22 DEF SyncNext, Drainer

\* A push and an alarm store a permit, and the task takes it before it waits.
LEMMA WakeStep ==
  ASSUME SyncTypeOK, TurnInv, WakeInv, [SyncNext]_syncVars PROVE WakeInv'
<1> USE SyncAssumption DEF SyncTypeOK, TurnInv, WakeInv, Moves, treeVars, queueVars,
        drainVars, knowVars, pastVars, Drainer, StampOf
<1>1. ASSUME NEW f \in File, FileEdit(f) PROVE WakeInv'
  BY <1>1, Edited, SMTT(40) DEF FileEdit, Missed
<1>2. ASSUME NEW f \in File, Push(f) PROVE WakeInv'
  BY <1>2, SMTT(40) DEF Push
<1>3. ASSUME PushAlarm PROVE WakeInv'
  BY <1>3, SMTT(40) DEF PushAlarm
<1>4. ASSUME TaskOpens PROVE WakeInv'
  BY <1>4, SMTT(40) DEF TaskOpens
<1>5. ASSUME TaskFirstWalk PROVE WakeInv'
  BY <1>5, SMTT(40) DEF TaskFirstWalk, Walks
<1>6. ASSUME TaskMerges PROVE WakeInv'
  BY <1>6, SMTT(40) DEF TaskMerges, Merged
<1>7. ASSUME TaskTurns PROVE WakeInv'
  BY <1>7, SMTT(40) DEF TaskTurns
<1>8. ASSUME TaskWalks PROVE WakeInv'
  BY <1>8, SMTT(40) DEF TaskWalks, Walks
<1>9. ASSUME TaskWalkFails PROVE WakeInv'
  BY <1>9, SMTT(40) DEF TaskWalkFails
<1>10. ASSUME TaskRests PROVE WakeInv'
  BY <1>10, SMTT(40) DEF TaskRests
<1>11. ASSUME TaskWakes PROVE WakeInv'
  BY <1>11, SMTT(40) DEF TaskWakes
<1>12. ASSUME NEW x \in Drainer, TakesTurn(x) PROVE WakeInv'
  BY <1>12, SMTT(40) DEF TakesTurn, Turns, Differs, Rowless
<1>13. ASSUME NEW x \in Drainer, EndsTurn(x) PROVE WakeInv'
  BY <1>13, SMTT(40) DEF EndsTurn, Ends, HasRow, BaseRow
<1>14. ASSUME NEW x \in Drainer, NEW s \in Server, Tells(x, s) PROVE WakeInv'
  BY <1>14, LearnsFacts, SMTT(40) DEF Tells
<1>15. ASSUME NEW r \in Request, RequestBegins(r) PROVE WakeInv'
  BY <1>15, SMTT(40) DEF RequestBegins
<1>16. ASSUME NEW r \in Request, RequestSent(r) PROVE WakeInv'
  BY <1>16, SMTT(40) DEF RequestSent
<1>17. ASSUME NEW r \in Request, RequestCancelled(r) PROVE WakeInv'
  BY <1>17, SMTT(40) DEF RequestCancelled
<1>18. ASSUME NEW s \in Server, ServerBegins(s) PROVE WakeInv'
  BY <1>18, SMTT(40) DEF ServerBegins
<1>19. ASSUME NEW s \in Server, ServerReads(s) PROVE WakeInv'
  BY <1>19, LearnsFacts, SMTT(40) DEF ServerReads
<1>20. ASSUME NEW s \in Server, ServerReady(s) PROVE WakeInv'
  BY <1>20, SMTT(40) DEF ServerReady
<1>21. ASSUME NEW s \in Server, OwedTold(s) PROVE WakeInv'
  BY <1>21, LearnsFacts, SMTT(40) DEF OwedTold
<1>22. ASSUME UNCHANGED syncVars PROVE WakeInv'
  BY <1>22, SMTT(40) DEF syncVars
<1> QED
  BY <1>1, <1>2, <1>3, <1>4, <1>5, <1>6, <1>7, <1>8, <1>9, <1>10, <1>11, <1>12, <1>13, <1>14,
     <1>15, <1>16, <1>17, <1>18, <1>19, <1>20, <1>21, <1>22 DEF SyncNext, Drainer

-----------------------------------------------------------------------------
\* The initial states have the invariant: nothing is under way, and every server
\* knows the files as they are.
LEMMA SyncStarts == SyncInit => SyncInv
<1> SUFFICES ASSUME SyncInit PROVE SyncInv
  OBVIOUS
<1> USE SyncAssumption DEF SyncInit, Drainer
<1>1. /\ disk \in [File -> Version] /\ table \in [File -> Stamp] /\ \A f \in File : table[f] \notin Version
      /\ \A f \in File : disk[f] \in Nat
  BY DEF Version, Stamp
<1>2. /\ unreported = {} /\ queue = {} /\ turn = NoOne /\ batch = {} /\ rows = {} /\ left = {}
      /\ listing = NoOne /\ owed = {} /\ excused = {} /\ reported = disk
      /\ knows = [s \in Server |-> disk] /\ wants = [r \in Request |-> disk]
      /\ alarms = 0 /\ start = [s \in Server |-> "none"]
      /\ at = [x \in Drainer |-> IF x = Task THEN "off" ELSE "idle"]
  OBVIOUS
<1>3. ~watching /\ ~alarm /\ ~permit /\ ~rescan
  OBVIOUS
<1>4. watching \in BOOLEAN /\ alarm \in BOOLEAN /\ permit \in BOOLEAN /\ rescan \in BOOLEAN
  BY Zenon
<1>5. SyncTypeOK
  BY <1>1, <1>2, <1>4 DEF SyncTypeOK
<1>6. TurnInv
  BY <1>2 DEF TurnInv
<1>7. KnownInv
  BY <1>1, <1>2 DEF KnownInv
<1>8. TableInv /\ ToldInv /\ ReportedInv
  BY <1>2 DEF TableInv, TableToldInv, RowsToldInv, ListToldInv, ToldInv, ReportedInv, Due, Reader
<1>9. WakeInv
  BY <1>2, <1>3 DEF WakeInv
<1> QED
  BY <1>5, <1>6, <1>7, <1>8, <1>9 DEF SyncInv

\* SyncInv is an invariant of the sync: what the task, the requests and the
\* servers rely on of each other.
THEOREM SyncInvariant == SyncSpec => []SyncInv
<1>1. SyncInv /\ [SyncNext]_syncVars => SyncInv'
  BY SyncTypeStep, TurnStep, KnownStep, TableToldStep, RowsToldStep, ListToldStep, ToldStep,
     ReportedStep, WakeStep DEF SyncInv, TableInv
<1> QED
  BY <1>1, SyncStarts, PTL DEF SyncSpec

\* The watcher, the table and the drains are always at a step of WorkspaceSync.
THEOREM SyncTypeCorrect == SyncSpec => []SyncTypeOK
<1>1. SyncInv => SyncTypeOK
  BY DEF SyncInv
<1> QED
  BY <1>1, SyncInvariant, PTL

\* When the sync is quiet, the servers know every file but for the changes lost
\* in the four ways that QuietMeansTold names; and the task never sleeps on
\* queued events.
THEOREM NothingStaysUntold == SyncSpec => []NothingIsLeftUntold
<1>1. TurnInv /\ ToldInv => QuietMeansTold
  BY DEF TurnInv, ToldInv, QuietMeansTold, Quiet, Due, Reader, ToTell, WalkComes
<1>2. WakeInv => NeverLeftAsleep
  BY DEF WakeInv, NeverLeftAsleep
<1>3. SyncInv => NothingIsLeftUntold
  BY <1>1, <1>2 DEF SyncInv, NothingIsLeftUntold
<1> QED
  BY <1>3, SyncInvariant, PTL

\* What the watcher had reported when a request began is told before the request
\* is sent.
THEOREM ReportedFirst == SyncSpec => []ReportedReachesServersFirst
<1>1. ReportedInv => ReportedReachesServersFirst
  BY DEF ReportedInv, ReportedReachesServersFirst, Due, Reader
<1>2. SyncInv => ReportedReachesServersFirst
  BY <1>1 DEF SyncInv
<1> QED
  BY <1>2, SyncInvariant, PTL

-----------------------------------------------------------------------------
(* The sync beside the session manager.                                    *)

\* A behaviour of the two is, for each of them, one of its own.
THEOREM ManagerAndSyncAreTheirOwn == PartsSpec => Spec /\ SyncSpec
<1>1. PartsInit => Init /\ SyncInit
  BY DEF PartsInit
<1>2. [PartsNext]_<<part, vars, syncVars>> => [Next]_vars /\ [SyncNext]_syncVars
  BY DEF PartsNext
<1> QED
  BY <1>1, <1>2, PTL DEF PartsSpec, Spec, SyncSpec

\* Every variable of the two keeps its type, whichever of them runs.
THEOREM ManagerAndSyncTypeCorrect == PartsSpec => []PartsTypeOK
<1>1. TypeOK /\ SyncTypeOK => PartsTypeOK
  BY DEF PartsTypeOK
<1> QED
  BY <1>1, ManagerAndSyncAreTheirOwn, SessionsTypeCorrect, SyncTypeCorrect, PTL
=============================================================================
