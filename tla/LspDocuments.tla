---------------------------- MODULE LspDocuments ----------------------------
(***************************************************************************)
(* The documents of one language-server session: the texts it has sent     *)
(* (SentTexts and open_if_changed in lci-core/src/lsp/adapter.rs) and the  *)
(* waits for the server's diagnostics (Diagnostics in transport.rs).       *)
(*                                                                         *)
(* A hook runs before every position request: it sends the file's text if  *)
(* it is not the one sent last, and waits for the server's diagnostics.    *)
(* One gate per file keeps the hooks of that file apart; a write runs on a *)
(* task that keeps the gate when the hook is cancelled.                    *)
(*                                                                         *)
(* External: the files, the server, the clock.  The server takes messages  *)
(* in order and publishes once for each text and, without a version, once  *)
(* for each close, some time later.                                        *)
(***************************************************************************)
EXTENDS Naturals, Sequences, FiniteSets, SequencesExt

CONSTANTS
    Doc, Hook,
    MaxOpen,     \* MAX_OPEN_DOCUMENTS
    ChangeSync,  \* the server advertised didChange
    MaxText,     \* bound: edits of one file, the others stay as they are
    MaxSends,    \* bound: sends of a session
    NoDoc, ATask \* no document, and the write task of a cancelled hook

\* A text the session has recorded as sent, a notification being written and
\* for whom, and a text on the pipe.
SentText == [text : Nat, version : Nat, serial : Nat, pending : Nat \cup {NoDoc}, reopened : BOOLEAN]
Notification == [kind : {"open", "change", "close"}, by : Hook \cup {ATask},
                 version : Nat, text : Nat, before : Nat]
Piped == [version : Nat, text : Nat]

ASSUME DocumentsAssumption ==
    /\ MaxOpen \in Nat \ {0} /\ ChangeSync \in BOOLEAN /\ MaxText \in Nat /\ MaxSends \in Nat
    /\ NoDoc \notin Doc /\ {NoDoc, ATask} \cap Hook = {} /\ NoDoc # ATask
    /\ NoDoc \notin Nat \cup SentText \cup Notification \cup Piped

VARIABLES
    onDisk,      \* the text of each file
    texts,       \* SentTexts.texts: NoDoc, or a SentText
    lru,         \* the files of texts, the least recently used first
    gate, handle, gateInMap, \* SentTexts.gates: who holds each gate, the one each hook has
                 \* cloned from the map, and which one is in the map
    openSet,     \* SentTexts.open_set: who places a new file
    closedDocs,  \* SentTexts.closed
    hook, doc, read, before, awaited, \* per hook: its step, its file, the text it has read,
                 \* diagnostics_before, and the send it waits for
    write,       \* per file: the notification being written, or NoDoc
    piped,       \* per file: what the pipe has said of it, or NoDoc
    inFlight, sends, taken, \* sends the server has not taken, their number, the last it took
    news, published, armed, awake, \* publications not read yet, Diagnostics.by_uri, and the hooks that
                 \* are registered for them and woken by them
    first, crowded, \* history: the text on disk when a hook began; no file could be closed
    everClosed   \* history: the files that were closed for room at some time

fileVars == <<texts, lru, closedDocs>>
gateVars == <<gate, handle, gateInMap, openSet>>
hookVars == <<hook, doc, read, before, awaited>>
pipeVars == <<write, piped, inFlight, sends, taken>>
newsVars == <<news, published, armed, awake>>
pastVars == <<first, crowded, everClosed>>
docVars == <<onDisk, fileVars, gateVars, hookVars, pipeVars, newsVars, pastVars>>

DocInit ==
    /\ onDisk = [d \in Doc |-> 0]
    /\ texts = [d \in Doc |-> NoDoc] /\ lru = <<>> /\ closedDocs = {}
    /\ gate = [d \in Doc |-> [i \in {0, 1} |-> NoDoc]] /\ handle = [h \in Hook |-> 0]
    /\ gateInMap = [d \in Doc |-> 0] /\ openSet = NoDoc
    /\ hook = [h \in Hook |-> "idle"] /\ doc = [h \in Hook |-> NoDoc]
    /\ read = [h \in Hook |-> 0]
    /\ before = [h \in Hook |-> 0] /\ awaited = [h \in Hook |-> NoDoc]
    /\ write = [d \in Doc |-> NoDoc] /\ piped = [d \in Doc |-> NoDoc]
    /\ inFlight = <<>> /\ sends = 0 /\ taken = 0
    /\ news = <<>> /\ published = [d \in Doc |-> [count |-> 0, version |-> 0]] /\ armed = {} /\ awake = {}
    /\ first = [h \in Hook |-> 0] /\ crowded = FALSE /\ everClosed = {}

Steps(h, p) == hook' = [hook EXCEPT ![h] = p]
Known(d) == texts[d] # NoDoc
Open == {d \in Doc : Known(d)}
MyGate(h) == gate[doc[h]][handle[h]]

\* Fault variant of Touched: the file gets a place whether it has been sent or not.
TouchedUnsent(d) == Append(RemoveFirst(lru, d), d)
Touched(d) == IF Known(d) THEN Append(RemoveFirst(lru, d), d) ELSE lru

-----------------------------------------------------------------------------
\* open_if_changed, up to the send.

HookBegins(h) ==
    /\ hook[h] = "idle"
    /\ \E d \in Doc :
         /\ doc' = [doc EXCEPT ![h] = d]
         /\ handle' = [handle EXCEPT ![h] = gateInMap[d]]
         /\ first' = [first EXCEPT ![h] = onDisk[d]]
    /\ Steps(h, "gate")
    /\ UNCHANGED <<onDisk, fileVars, gate, gateInMap, openSet, read, before, awaited, pipeVars, newsVars,
                   crowded, everClosed>>

\* Any open of the file in flight is over; the file counts as used.
HookEnters(h) ==
    /\ hook[h] = "gate" /\ MyGate(h) = NoDoc
    /\ gate' = [gate EXCEPT ![doc[h]][handle[h]] = h] /\ lru' = Touched(doc[h])
    /\ Steps(h, "read")
    /\ UNCHANGED <<onDisk, texts, closedDocs, handle, gateInMap, openSet, doc, read, before, awaited,
                   pipeVars, newsVars, pastVars>>

Lets(h) == gate' = [gate EXCEPT ![doc[h]][handle[h]] = NoDoc]
\* The gate goes with the write task of a hook that is gone.
LetGo(d, who) == gate' = [gate EXCEPT ![d] = [i \in {0, 1} |-> IF @[i] = who THEN NoDoc ELSE @[i]]]

IsCurrent(d, text) == Known(d) /\ texts[d].text = text

\* Another text than the last one sent; or that one, its wait not settled yet:
\* the wait is handed to this hook; or nothing to do.
HookReads(h) ==
    LET d == doc[h] IN
    /\ hook[h] = "read" /\ read' = [read EXCEPT ![h] = onDisk[d]]
    /\ IF ~IsCurrent(d, onDisk[d])
         THEN Steps(h, IF Known(d) THEN "send" ELSE "place") /\ UNCHANGED <<gate, before, awaited>>
         ELSE IF texts[d].pending # NoDoc
         THEN /\ Steps(h, "watch") /\ before' = [before EXCEPT ![h] = texts[d].pending]
              /\ awaited' = [awaited EXCEPT ![h] = texts[d]] /\ UNCHANGED gate
         ELSE Steps(h, "asked") /\ Lets(h) /\ UNCHANGED <<before, awaited>>
    /\ UNCHANGED <<onDisk, fileVars, handle, gateInMap, openSet, doc, pipeVars, newsVars, pastVars>>

\* Fault variant of HookPlaces: new files are placed side by side.
HookPlacesUnlocked(h) ==
    /\ hook[h] = "place" /\ Steps(h, "evict")
    /\ UNCHANGED <<onDisk, fileVars, gateVars, doc, read, before, awaited, pipeVars, newsVars, pastVars>>

\* make_room: new files are placed one after the other.
HookPlaces(h) ==
    /\ hook[h] = "place" /\ openSet = NoDoc /\ openSet' = h
    /\ Steps(h, "evict")
    /\ UNCHANGED <<onDisk, fileVars, gate, handle, gateInMap, doc, read, before, awaited, pipeVars, newsVars, pastVars>>

HasRoom(h) ==
    /\ hook[h] = "evict" /\ Cardinality(Open) < MaxOpen
    /\ Steps(h, "send")
    /\ UNCHANGED <<onDisk, fileVars, gateVars, doc, read, before, awaited, pipeVars, newsVars, pastVars>>

Free(d) == gate[d][gateInMap[d]] = NoDoc
Closes(h, v) ==
    /\ gate' = [gate EXCEPT ![v][gateInMap[v]] = h]
    /\ Steps(h, "close")
    /\ write' = [write EXCEPT ![v] = [kind |-> "close", by |-> h, version |-> 0, text |-> 0, before |-> 0]]
    /\ UNCHANGED <<onDisk, fileVars, handle, gateInMap, openSet, doc, read, before, awaited, piped, inFlight, sends,
                   taken, newsVars, pastVars>>

\* The least recently used file that has no open in flight is closed.
Evicts(h) ==
    /\ hook[h] = "evict" /\ Cardinality(Open) >= MaxOpen
    /\ \E i \in 1..Len(lru) :
         /\ Free(lru[i]) /\ \A j \in 1..(i - 1) : ~Free(lru[j])
         /\ Closes(h, lru[i])

FindsNone(h) ==
    /\ hook[h] = "evict" /\ Cardinality(Open) >= MaxOpen /\ \A d \in Open : ~Free(d)
    /\ Steps(h, "send") /\ crowded' = TRUE
    /\ UNCHANGED <<onDisk, fileVars, gateVars, doc, read, before, awaited, pipeVars, newsVars, first, everClosed>>

\* The text is on its way: the first one opens the document, a later one
\* changes it, or opens it again if the server knows no changes.
HookSends(h) ==
    LET d == doc[h]
        version == IF openSet # h /\ Known(d) THEN texts[d].version + 1 ELSE 1 IN
    /\ hook[h] = "send" /\ sends < MaxSends
    /\ write' = [write EXCEPT ![d] =
                   [kind |-> IF version > 1 /\ ChangeSync THEN "change" ELSE "open",
                    by |-> h, version |-> version, text |-> read[h], before |-> published[d].count]]
    /\ before' = [before EXCEPT ![h] = published[d].count]
    /\ Steps(h, "sending")
    /\ UNCHANGED <<onDisk, fileVars, gateVars, doc, read, awaited, piped, inFlight, sends, taken, newsVars, pastVars>>

-----------------------------------------------------------------------------
\* The write tasks (notify_holding): the record is made with the write, and
\* the gate goes back to the hook, or is let go when the hook is gone.

Pipes(d, w) ==
    /\ write' = [write EXCEPT ![d] = NoDoc]
    /\ piped' = [piped EXCEPT ![d] = IF w.kind = "close" THEN NoDoc ELSE [version |-> w.version, text |-> w.text]]
    /\ sends' = sends + 1
    /\ inFlight' = Append(inFlight, [doc |-> d, kind |-> w.kind, version |-> w.version, serial |-> sends + 1])

\* Fault variant of SendWritten: the hook makes the record, when it is still there.
SendWrittenUnrecorded(d) ==
    LET w == write[d] IN
    /\ w # NoDoc /\ w.kind # "close" /\ w.by = ATask /\ sends < MaxSends
    /\ Pipes(d, w)
    /\ LetGo(d, ATask)
    /\ UNCHANGED <<onDisk, fileVars, handle, gateInMap, openSet, hookVars, taken, newsVars, pastVars>>

SendWritten(d) ==
    LET w == write[d]
        record == [text |-> w.text, version |-> w.version, serial |-> sends + 1,
                   pending |-> w.before, reopened |-> w.version = 1 /\ d \in closedDocs] IN
    /\ w # NoDoc /\ w.kind # "close" /\ sends < MaxSends
    /\ Pipes(d, w) /\ closedDocs' = closedDocs \ {d}
    /\ texts' = [texts EXCEPT ![d] = record] /\ lru' = Append(RemoveFirst(lru, d), d)
    /\ IF w.by = ATask
         THEN /\ LetGo(d, ATask)
              /\ UNCHANGED <<hook, awaited, openSet>>
         ELSE /\ Steps(w.by, "watch") /\ awaited' = [awaited EXCEPT ![w.by] = record]
              /\ openSet' = IF openSet = w.by THEN NoDoc ELSE openSet
              /\ UNCHANGED gate
    /\ UNCHANGED <<onDisk, handle, gateInMap, doc, read, before, taken, newsVars, pastVars>>

\* Fault variant of ForgetsGate: the gate is dropped whoever waits for it.
ForgetsGateAnyway(d) == gateInMap' = [gateInMap EXCEPT ![d] = 1 - @]

\* A gate somebody waits for stays; a new one would differ in nothing from a
\* gate nobody has.
ForgetsGate(d) == UNCHANGED gateInMap

\* The files that have been given a place and are not open yet.
Opening == {d \in Doc \ Open : write[d] # NoDoc \/ \E h \in Hook : hook[h] = "send" /\ doc[h] = d}

CloseWritten(d) ==
    LET w == write[d] IN
    /\ w # NoDoc /\ w.kind = "close" /\ sends < MaxSends
    /\ Pipes(d, w) /\ closedDocs' = closedDocs \cup {d}
    /\ texts' = [texts EXCEPT ![d] = NoDoc] /\ lru' = RemoveFirst(lru, d)
    /\ LetGo(d, w.by) /\ everClosed' = everClosed \cup {d}
    /\ IF w.by = ATask THEN UNCHANGED <<hook, gateInMap>>
         ELSE /\ Steps(w.by, "evict")
              /\ ForgetsGate(d)
    /\ crowded' = (crowded /\ (Cardinality(Open) > MaxOpen + 1 \/ Opening # {}))
    /\ UNCHANGED <<onDisk, handle, openSet, doc, read, before, awaited, taken, newsVars, first>>

-----------------------------------------------------------------------------
\* The wait for the diagnostics (wait_after_in).

Answers(h) ==
    LET p == published[doc[h]] IN
    /\ p.count > before[h]
    /\ IF p.version = NoDoc THEN ~awaited[h].reopened ELSE p.version >= awaited[h].version

\* Fault variant of WaitRegisters: the wait is registered when it is first polled.
WaitRegistersLate(h) ==
    /\ hook[h] = "watch" /\ Steps(h, "look")
    /\ UNCHANGED <<onDisk, fileVars, gateVars, doc, read, before, awaited, pipeVars, newsVars, pastVars>>

\* The wait is registered before what has been published is looked at.
WaitRegisters(h) ==
    /\ hook[h] = "watch" /\ Steps(h, "look") /\ armed' = armed \cup {h} /\ awake' = awake \ {h}
    /\ UNCHANGED <<onDisk, fileVars, gateVars, doc, read, before, awaited, pipeVars, news, published,
                   pastVars>>

WaitLooks(h) ==
    /\ hook[h] = "look" /\ Steps(h, IF Answers(h) THEN "settle" ELSE "poll")
    /\ UNCHANGED <<onDisk, fileVars, gateVars, doc, read, before, awaited, pipeVars, newsVars, pastVars>>

WaitSleeps(h) ==
    /\ hook[h] = "poll" /\ Steps(h, "sleep") /\ armed' = armed \cup {h}
    /\ UNCHANGED <<onDisk, fileVars, gateVars, doc, read, before, awaited, pipeVars, news, published,
                   awake, pastVars>>

WaitWakes(h) ==
    /\ hook[h] = "sleep" /\ h \in awake /\ Steps(h, "watch")
    /\ UNCHANGED <<onDisk, fileVars, gateVars, doc, read, before, awaited, pipeVars, newsVars, pastVars>>

\* The wait is over, answered or at its cap: it is settled, unless the text
\* has been sent again since, and the gate is let go.
WaitSettles(h) ==
    LET d == doc[h] IN
    /\ hook[h] \in {"watch", "look", "poll", "sleep", "settle"} /\ Steps(h, "asked") /\ Lets(h)
    /\ armed' = armed \ {h} /\ awake' = awake \ {h}
    /\ texts' = IF Known(d) /\ texts[d].version = awaited[h].version
                  THEN [texts EXCEPT ![d].pending = NoDoc] ELSE texts
    /\ awaited' = [awaited EXCEPT ![h] = NoDoc]
    /\ UNCHANGED <<onDisk, lru, closedDocs, handle, gateInMap, openSet, doc, read, before, pipeVars, news,
                   published, pastVars>>

Leaves(h) ==
    /\ Steps(h, "idle") /\ doc' = [doc EXCEPT ![h] = NoDoc]
    /\ read' = [read EXCEPT ![h] = 0] /\ before' = [before EXCEPT ![h] = 0] /\ first' = [first EXCEPT ![h] = 0]

\* The position request goes out.
HookEnds(h) ==
    /\ hook[h] = "asked"
    /\ Leaves(h)
    /\ UNCHANGED <<onDisk, fileVars, gateVars, awaited, pipeVars, newsVars, crowded, everClosed>>

\* The hook is dropped at an await: its locks go, but for the gate that a write
\* task of its own keeps.
HookCancelled(h) ==
    LET mine == {d \in Doc : write[d] # NoDoc /\ write[d].by = h} IN
    /\ hook[h] \in {"gate", "read", "place", "close", "sending", "watch", "look", "poll", "sleep"}
    /\ Leaves(h)
    /\ awaited' = [awaited EXCEPT ![h] = NoDoc]
    /\ gate' = [d \in Doc |-> [i \in {0, 1} |-> IF gate[d][i] # h THEN gate[d][i]
                                               ELSE IF d \in mine THEN ATask ELSE NoDoc]]
    /\ write' = [d \in Doc |-> IF d \in mine THEN [write[d] EXCEPT !.by = ATask] ELSE write[d]]
    /\ openSet' = IF openSet = h THEN NoDoc ELSE openSet
    /\ crowded' = (crowded \/ (openSet = h /\ hook[h] = "sending"))
    /\ armed' = armed \ {h} /\ awake' = awake \ {h}
    /\ UNCHANGED <<onDisk, fileVars, handle, gateInMap, piped, inFlight, sends, taken, news, published,
                   everClosed>>

-----------------------------------------------------------------------------
\* The files, the server and the reader.

DocEdit(d) ==
    /\ \A e \in Doc \ {d} : onDisk[e] = 0
    /\ onDisk[d] < MaxText /\ onDisk' = [onDisk EXCEPT ![d] = @ + 1]
    /\ UNCHANGED <<fileVars, gateVars, hookVars, pipeVars, newsVars, pastVars>>

\* A text is taken in and published with its version; a close without one.
ServerTakesIn ==
    /\ inFlight # <<>> /\ inFlight' = Tail(inFlight)
    /\ LET m == Head(inFlight) IN
         /\ taken' = m.serial
         /\ news' = Append(news, [doc |-> m.doc, version |-> IF m.kind = "close" THEN NoDoc ELSE m.version])
    /\ UNCHANGED <<onDisk, fileVars, gateVars, hookVars, write, piped, sends, published, armed, awake, pastVars>>

NotesPublication ==
    /\ news # <<>> /\ news' = Tail(news)
    /\ LET m == Head(news) IN
         published' = [published EXCEPT ![m.doc] = [count |-> @.count + 1, version |-> m.version]]
    /\ awake' = awake \cup armed /\ armed' = {}
    /\ UNCHANGED <<onDisk, fileVars, gateVars, hookVars, pipeVars, pastVars>>

HookStep(h) ==
    \/ HookBegins(h) \/ HookEnters(h) \/ HookReads(h) \/ HookPlaces(h) \/ HasRoom(h) \/ Evicts(h)
    \/ FindsNone(h) \/ HookSends(h) \/ WaitRegisters(h) \/ WaitLooks(h) \/ WaitSleeps(h) \/ WaitWakes(h) \/ WaitSettles(h)
    \/ HookEnds(h) \/ HookCancelled(h)

DocNext ==
    \/ \E h \in Hook : HookStep(h)
    \/ \E d \in Doc : SendWritten(d) \/ CloseWritten(d) \/ DocEdit(d)
    \/ ServerTakesIn \/ NotesPublication

DocSpec == DocInit /\ [][DocNext]_docVars

-----------------------------------------------------------------------------
\* Properties.

\* A file that is open has one place in the order of use, and its record the
\* texts, versions and serials that SentTexts gives out.
DocTypeOK ==
    /\ DOMAIN texts = Doc
    /\ \A d \in Open : texts[d] \in [text : 0..MaxText, version : 1..MaxSends, serial : 1..MaxSends,
                                    pending : {NoDoc} \cup (0..MaxSends), reopened : BOOLEAN]
    /\ ToSet(lru) = Open /\ Len(lru) = Cardinality(Open) /\ closedDocs \subseteq Doc \ Open
    /\ gate \in [Doc -> [{0, 1} -> Hook \cup {NoDoc, ATask}]] /\ openSet \in Hook \cup {NoDoc}
    /\ doc \in [Hook -> Doc \cup {NoDoc}] /\ armed \subseteq Hook /\ awake \subseteq Hook

\* What the session has recorded of a file is what it last put on the pipe,
\* whoever was cancelled in between.
RecordIsWhatWasSent ==
    \A d \in Doc :
        /\ Known(d) <=> piped[d] # NoDoc
        /\ Known(d) => texts[d].text = piped[d].text /\ texts[d].version = piped[d].version

\* A server is told to change or to close what is open, and to open what is
\* not (a second open only without change sync), each text with a higher
\* version than the one before.
ProtocolKept ==
    [][Len(inFlight') > Len(inFlight) =>
         LET m == Last(inFlight') IN
         /\ m.kind \in {"change", "close"} => piped[m.doc] # NoDoc
         /\ m.kind = "open" /\ piped[m.doc] # NoDoc => ~ChangeSync
         /\ m.kind # "close" =>
              m.version = (IF piped[m.doc] = NoDoc THEN 1 ELSE piped[m.doc].version + 1)]_docVars

\* A request follows a text at least as new as the file was when its hook
\* began, unless the file was closed for room in between.
RequestFollowsItsText ==
    \A h \in Hook : hook[h] = "asked" /\ piped[doc[h]] # NoDoc => piped[doc[h]].text >= first[h]

\* The record, the pipe and the request agree on the text of every file.
TextsAreInStep == RecordIsWhatWasSent /\ RequestFollowsItsText

\* A publication never slips past a wait that goes to sleep.
NoPublicationMissed ==
    \A h \in Hook : hook[h] = "sleep" /\ Answers(h) => h \in awake

\* A wait that a publication ends has been waiting for that text: none for an
\* older text ends it.  Versions start again at 1 when a file that was closed
\* for room is opened again, so one that the file had before may end it early,
\* and one without a version, which is for the close, may end the wait for a
\* later change, never that for the opening itself (transport.rs 217: "a
\* best-effort signal").
AnsweredForItsText(h) ==
    \/ taken >= awaited[h].serial
    \/ /\ doc[h] \in everClosed
       /\ published[doc[h]].version # NoDoc \/ awaited[h].version > 1

\* A wait for diagnostics ends with a publication for its text, and no step
\* leaves it asleep beside the publication it waits for.
PublicationsAreHeard ==
    [][/\ NoPublicationMissed'
       /\ \A h \in Hook : hook[h] = "look" /\ hook'[h] = "settle" => AnsweredForItsText(h)]_docVars

\* More files than the limit are open only after one had to be opened while
\* every open file was in use, or a hook was cancelled while its first text of
\* a file was being written: it lets go of the open set then, and the next new
\* file does not count the one on its way (adapter.rs 309).
OpenSetBounded == Cardinality(Open) > MaxOpen => crowded
=============================================================================
