------------------------- MODULE LspDocuments_proofs -------------------------
(***************************************************************************)
(* The texts a session sends keep their promises for any files, hooks and  *)
(* bounds: the record is what was piped, a request follows its text, the   *)
(* protocol and the limit of open files are kept, and no publication is    *)
(* missed.  DocInv is the inductive invariant: the gates (GateInv,         *)
(* PlaceInv) are what the rest stands on, since whoever works on a file    *)
(* has its gate, also through a write task that outlives its hook.         *)
(***************************************************************************)
EXTENDS LspDocuments, SequenceTheorems, FiniteSetTheorems, TLAPS

-----------------------------------------------------------------------------
(* Sequences without repetition.                                           *)

Distinct(s) == \A i, j \in 1..Len(s) : s[i] = s[j] => i = j
In(e, s) == \E i \in 1..Len(s) : s[i] = e

\* A sequence without one of its places.
LEMMA RemovedAt ==
  ASSUME NEW S, NEW s \in Seq(S), NEW k \in 1..Len(s)
  PROVE  /\ RemoveAt(s, k) \in Seq(S) /\ Len(RemoveAt(s, k)) = Len(s) - 1
         /\ \A i \in 1..(Len(s) - 1) : RemoveAt(s, k)[i] = IF i < k THEN s[i] ELSE s[i + 1]
<1> DEFINE a == SubSeq(s, 1, k - 1)
           b == SubSeq(s, k + 1, Len(s))
<1>0. Len(s) \in Nat
  BY LenProperties
<1>1. a \in Seq(S) /\ Len(a) = k - 1 /\ \A i \in 1..(k - 1) : a[i] = s[i]
  BY <1>0, SubSeqProperties
<1>2. b \in Seq(S) /\ Len(b) = Len(s) - k /\ \A i \in 1..(Len(s) - k) : b[i] = s[k + i]
  BY <1>0, SubSeqProperties
<1>3. RemoveAt(s, k) = a \o b
  BY DEF RemoveAt
<1>4. a \o b \in Seq(S) /\ Len(a \o b) = Len(a) + Len(b)
      /\ \A i \in 1..(Len(a) + Len(b)) : (a \o b)[i] = IF i <= Len(a) THEN a[i] ELSE b[i - Len(a)]
  BY <1>1, <1>2, ConcatProperties
<1> HIDE DEF a, b
<1> QED
  BY <1>0, <1>1, <1>2, <1>3, <1>4

\* Taking an element out of a sequence that repeats none takes out just that one.
LEMMA RemoveDistinct ==
  ASSUME NEW S, NEW s \in Seq(S), Distinct(s), NEW e
  PROVE  /\ RemoveFirst(s, e) \in Seq(S) /\ Distinct(RemoveFirst(s, e))
         /\ \A x : In(x, RemoveFirst(s, e)) <=> In(x, s) /\ x # e
         /\ Len(RemoveFirst(s, e)) = IF In(e, s) THEN Len(s) - 1 ELSE Len(s)
<1>0. Len(s) \in Nat
  BY LenProperties
<1>1. CASE ~In(e, s)
  <2>1. RemoveFirst(s, e) = s
    BY <1>1 DEF RemoveFirst, In
  <2> QED
    BY <1>1, <2>1 DEF In
<1>2. CASE In(e, s)
  <2>1. PICK k \in 1..Len(s) : s[k] = e
    BY <1>2 DEF In
  <2>2. RemoveFirst(s, e) = RemoveAt(s, k)
    BY <2>1 DEF RemoveFirst, SelectInSeq, Min, Distinct
  <2> DEFINE t == RemoveAt(s, k)
  <2>3. /\ t \in Seq(S) /\ Len(t) = Len(s) - 1
        /\ \A i \in 1..(Len(s) - 1) : t[i] = IF i < k THEN s[i] ELSE s[i + 1]
    BY RemovedAt
  <2> HIDE DEF t
  <2>4. Distinct(t)
    BY <1>0, <2>1, <2>3 DEF Distinct
  <2>5. ASSUME NEW x PROVE In(x, t) <=> In(x, s) /\ x # e
    <3>1. ASSUME NEW i \in 1..(Len(s) - 1), t[i] = x PROVE In(x, s) /\ x # e
      <4>1. CASE i < k
        BY <1>0, <2>1, <2>3, <3>1, <4>1 DEF In, Distinct
      <4>2. CASE ~(i < k)
        <5>1. t[i] = s[i + 1] /\ i + 1 \in 1..Len(s) /\ i + 1 # k
          BY <1>0, <2>1, <2>3, <4>2
        <5> QED
          BY <2>1, <3>1, <5>1 DEF In, Distinct
      <4> QED
        BY <4>1, <4>2
    <3>2. ASSUME NEW i \in 1..Len(s), s[i] = x, x # e PROVE In(x, t)
      <4>1. CASE i < k
        <5>1. i \in 1..(Len(s) - 1) /\ t[i] = x
          BY <1>0, <2>1, <2>3, <3>2, <4>1
        <5> QED
          BY <2>3, <5>1 DEF In
      <4>2. CASE ~(i < k)
        <5>1. i # k
          BY <2>1, <3>2
        <5>2. i - 1 \in 1..(Len(s) - 1) /\ t[i - 1] = s[i]
          BY <1>0, <2>1, <2>3, <4>2, <5>1
        <5> QED
          BY <2>3, <3>2, <5>2 DEF In
      <4> QED
        BY <4>1, <4>2
    <3> QED
      BY <2>3, <3>1, <3>2 DEF In
  <2> QED
    BY <1>2, <2>2, <2>3, <2>4, <2>5 DEF t
<1> QED
  BY <1>1, <1>2

\* A new element at the end of such a sequence is one more.
LEMMA AppendDistinct ==
  ASSUME NEW S, NEW s \in Seq(S), Distinct(s), NEW e \in S, ~In(e, s)
  PROVE  /\ Append(s, e) \in Seq(S) /\ Distinct(Append(s, e)) /\ Len(Append(s, e)) = Len(s) + 1
         /\ \A x : In(x, Append(s, e)) <=> In(x, s) \/ x = e
<1>1. Len(s) \in Nat
  BY LenProperties
<1>2. /\ Append(s, e) \in Seq(S) /\ Len(Append(s, e)) = Len(s) + 1
      /\ \A i \in 1..Len(s) : Append(s, e)[i] = s[i] /\ Append(s, e)[Len(s) + 1] = e
  BY AppendProperties
<1>3. Append(s, e)[Len(s) + 1] = e
  BY AppendProperties
<1> DEFINE t == Append(s, e)
<1> HIDE DEF t
<1>4. Distinct(t)
  BY <1>1, <1>2, <1>3 DEF Distinct, In, t
<1>5. \A x : In(x, t) <=> In(x, s) \/ x = e
  BY <1>1, <1>2, <1>3 DEF In, t
<1> QED
  BY <1>2, <1>4, <1>5 DEF t

\* A sequence that repeats nothing is as long as its set is large.
LEMMA DistinctCardinality ==
  ASSUME NEW S, NEW s \in Seq(S), Distinct(s)
  PROVE  IsFiniteSet({s[i] : i \in 1..Len(s)}) /\ Cardinality({s[i] : i \in 1..Len(s)}) = Len(s)
<1> DEFINE R == {s[i] : i \in 1..Len(s)}
<1>1. Len(s) \in Nat
  BY LenProperties
<1>2. s \in Bijection(1..Len(s), R)
  <2>1. s \in [1..Len(s) -> R]
    BY LenProperties
  <2> QED
    BY <2>1 DEF Distinct, Bijection, Injection, Surjection, IsInjective
<1>3. IsFiniteSet(1..Len(s)) /\ Cardinality(1..Len(s)) = Len(s)
  BY <1>1, FS_Interval
<1>4. ExistsBijection(1..Len(s), R)
  BY <1>2 DEF ExistsBijection
<1> QED
  BY <1>3, <1>4, FS_Bijection

-----------------------------------------------------------------------------
(* The inductive invariant.                                                *)

\* What is on its way to the server, and back.
Message == [doc : Doc, kind : {"open", "change", "close"}, version : Nat, serial : Nat]
News == [doc : Doc, version : Nat \cup {NoDoc}]
\* The steps in which a hook waits for diagnostics, and those in which it has its gate.
Waiting == {"watch", "look", "poll", "sleep", "settle"}
Holding == {"read", "place", "evict", "close", "send", "sending"} \cup Waiting
\* Who has the gate of a file, and what is being written of it.
Holder(d) == gate[d][0]
Closing(d) == write[d] # NoDoc /\ write[d].kind = "close"
Sending(d) == write[d] # NoDoc /\ write[d].kind # "close"

\* The types, of the files and hooks and of the pipe.
GateType == [Doc -> [{0, 1} -> Hook \cup {NoDoc, ATask}]]
FileTypes ==
    /\ onDisk \in [Doc -> Nat] /\ first \in [Hook -> Nat] /\ read \in [Hook -> Nat]
    /\ texts \in [Doc -> SentText \cup {NoDoc}] /\ awaited \in [Hook -> SentText \cup {NoDoc}]
    /\ closedDocs \subseteq Doc /\ everClosed \subseteq Doc /\ crowded \in BOOLEAN
    /\ hook \in [Hook -> Holding \cup {"idle", "gate", "asked"}] /\ doc \in [Hook -> Doc \cup {NoDoc}]
    /\ gate \in GateType
    /\ handle \in [Hook -> {0}] /\ gateInMap \in [Doc -> {0}] /\ openSet \in Hook \cup {NoDoc}
PipeTypes ==
    /\ write \in [Doc -> Notification \cup {NoDoc}] /\ piped \in [Doc -> Piped \cup {NoDoc}]
    /\ sends \in Nat /\ taken \in Nat /\ before \in [Hook -> Nat]
    /\ published \in [Doc -> [count : Nat, version : Nat \cup {NoDoc}]] /\ armed \subseteq Hook /\ awake \subseteq Hook
\* A gate has one holder: the hook at work on the file, the one that closes it to
\* make room for its own, or the task that writes for a hook that is gone.
GateInv ==
    /\ \A h \in Hook : hook[h] = "idle" <=> doc[h] = NoDoc
    /\ \A h \in Hook : hook[h] \in Holding => Holder(doc[h]) = h
    /\ \A d \in Doc, h \in Hook : Holder(d) = h =>
         \/ doc[h] = d /\ hook[h] \in Holding
         \/ hook[h] = "close" /\ Closing(d) /\ write[d].by = h
    /\ \A d \in Doc : write[d] # NoDoc => Holder(d) = write[d].by
    /\ \A d \in Doc : Holder(d) = ATask => write[d] # NoDoc
    /\ \A d \in Doc, h \in Hook : Closing(d) /\ write[d].by = h => hook[h] = "close" /\ doc[h] # d
    /\ \A d \in Doc, h \in Hook : Sending(d) /\ write[d].by = h => hook[h] = "sending" /\ doc[h] = d
    /\ \A h \in Hook : hook[h] = "sending" => Sending(doc[h]) /\ write[doc[h]].by = h
    /\ \A d, e \in Doc : write[d] # NoDoc /\ write[e] # NoDoc /\ write[d].by \in Hook /\ write[d].by = write[e].by => d = e
\* Only whoever holds the open set places a file; what is being closed is open, and
\* a text on its way has the version after the recorded one.
PlaceInv ==
    /\ openSet # NoDoc => hook[openSet] \in {"evict", "close", "send", "sending"} /\ ~Known(doc[openSet])
    /\ \A h \in Hook : hook[h] \in {"evict", "close"} => openSet = h
    /\ \A h \in Hook : hook[h] = "place" => ~Known(doc[h])
    /\ \A h \in Hook : hook[h] \in {"send", "sending"} /\ openSet # h => Known(doc[h])
    /\ \A d \in Doc : Closing(d) => Known(d)
    /\ \A d \in Doc : Sending(d) =>
         /\ write[d].version = (IF Known(d) THEN texts[d].version + 1 ELSE 1)
         /\ write[d].kind = (IF write[d].version > 1 /\ ChangeSync THEN "change" ELSE "open")
\* The record of a file is what the pipe has said of it.
RecordInv ==
    /\ \A d \in Doc : Known(d) <=> piped[d] # NoDoc
    /\ \A d \in Doc : Known(d) => texts[d].text = piped[d].text /\ texts[d].version = piped[d].version
    /\ \A d \in Open : texts[d].version > 0
\* The order of use has every open file once.
LruInv == lru \in Seq(Doc) /\ Distinct(lru) /\ \A d \in Doc : Known(d) <=> In(d, lru)
\* No reading, version or serial is beyond the number of sends.
CountInv ==
    /\ sends <= MaxSends
    /\ \A d \in Doc : published[d].count + Len(news) + Len(inFlight) <= sends
    /\ \A d \in Doc : write[d] # NoDoc => write[d].before <= sends
    /\ \A d \in Open : /\ texts[d].version <= sends /\ texts[d].serial \in 1..sends
                       /\ texts[d].pending # NoDoc => texts[d].pending <= sends
\* No text is newer than the disk, and none that a hook has or has sent is older
\* than the file was when it began.
TextInv ==
    /\ \A d \in Doc : onDisk[d] <= MaxText /\ (Known(d) => texts[d].text <= onDisk[d])
    /\ \A d \in Doc : Sending(d) => write[d].text <= onDisk[d]
    /\ \A h \in Hook : hook[h] # "idle" => first[h] <= onDisk[doc[h]]
    /\ \A h \in Hook : hook[h] \in {"place", "evict", "close", "send", "sending"} =>
         first[h] <= read[h] /\ read[h] <= onDisk[doc[h]]
    /\ \A h \in Hook : hook[h] = "sending" => write[doc[h]].text = read[h]
    /\ \A h \in Hook : hook[h] \in Waiting => Known(doc[h]) /\ texts[doc[h]].text >= first[h]
\* A request that goes out finds its text sent, and no older one on its way.
RequestInv ==
    \A h \in Hook : hook[h] = "asked" =>
       /\ Known(doc[h]) => texts[doc[h]].text >= first[h]
       /\ Sending(doc[h]) => write[doc[h]].text >= first[h]
       /\ \A k \in Hook : doc[k] = doc[h] /\ hook[k] \in {"place", "evict", "close", "send", "sending"} =>
            read[k] >= first[h]
\* A hook that waits has the gate, so it awaits the last text of its file.
AwaitsLast(h) ==
    hook[h] \in Waiting =>
       /\ Known(doc[h]) /\ awaited[h] # NoDoc
       /\ awaited[h].version = texts[doc[h]].version /\ awaited[h].serial = texts[doc[h]].serial
       /\ awaited[h].reopened = texts[doc[h]].reopened
\* A wait is registered, or woken, before its answer can come.
WakesUp(h) ==
    /\ hook[h] \in {"look", "poll", "sleep"} => h \in armed \cup awake
    /\ hook[h] \in {"poll", "sleep"} /\ Answers(h) => h \in awake
AwaitInv == \A h \in Hook : AwaitsLast(h) /\ WakesUp(h)
\* What became of the files that were closed for room.
ClosedInv ==
    /\ closedDocs \subseteq everClosed /\ \A d \in Open : d \notin closedDocs
    /\ \A d \in everClosed : IF Known(d) THEN texts[d].version = 1 => texts[d].reopened ELSE d \in closedDocs
\* The server takes the sends in their order.
SerialInv ==
    /\ inFlight \in Seq(Message) /\ news \in Seq(News)
    /\ sends = taken + Len(inFlight)
    /\ \A i \in 1..Len(inFlight) : inFlight[i].serial = taken + i
\* A file that was never closed: what of it is on its way to the server, on its
\* way back, and published, is no newer than its record; what has its version
\* was sent, or taken in, with it or after it.
SentOf(d) ==
    \A i \in 1..Len(inFlight) : inFlight[i].doc = d =>
        /\ Known(d) /\ inFlight[i].kind # "close" /\ inFlight[i].version <= texts[d].version
        /\ inFlight[i].version = texts[d].version => inFlight[i].serial >= texts[d].serial
NewsOf(d) ==
    \A i \in 1..Len(news) : news[i].doc = d =>
        /\ Known(d) /\ news[i].version # NoDoc /\ news[i].version <= texts[d].version
        /\ news[i].version = texts[d].version => taken >= texts[d].serial
HeardOf(d) ==
    /\ published[d].version # NoDoc /\ (~Known(d) => published[d].version = 0)
    /\ Known(d) => /\ published[d].version <= texts[d].version
                   /\ published[d].version = texts[d].version => taken >= texts[d].serial
VersionInv == \A d \in Doc \ everClosed : SentOf(d) /\ NewsOf(d) /\ HeardOf(d)
\* Room was found: one file at a time is on its way to be opened, and fits in.
CrowdInv ==
    ~crowded =>
      /\ Cardinality(Open) <= MaxOpen
      /\ Opening # {} => Cardinality(Open) < MaxOpen
      /\ \A d \in Opening : openSet # NoDoc /\ doc[openSet] = d /\ hook[openSet] \in {"send", "sending"}

\* What each part of the invariant needs of the types.
AllTypes == (\A h \in Hook : hook[h] = "idle" <=> doc[h] = NoDoc) /\ FileTypes /\ PipeTypes /\ SerialInv /\ lru \in Seq(Doc)

\* What a write to one gate does to all of them.
LEMMA GateTaken ==
  ASSUME FileTypes, NEW d \in Doc, NEW x \in Hook \cup {NoDoc, ATask}
  PROVE  /\ [gate EXCEPT ![d][0] = x] \in GateType
         /\ \A e \in Doc : [gate EXCEPT ![d][0] = x][e][0] = IF e = d THEN x ELSE gate[e][0]
<1>1. gate[d] \in [{0, 1} -> Hook \cup {NoDoc, ATask}]
  BY DEF FileTypes, GateType
<1>2. [gate[d] EXCEPT ![0] = x] \in [{0, 1} -> Hook \cup {NoDoc, ATask}]
  BY <1>1
<1>3. [gate EXCEPT ![d][0] = x] = [gate EXCEPT ![d] = [gate[d] EXCEPT ![0] = x]]
  BY DEF FileTypes, GateType
<1> QED
  BY <1>1, <1>2, <1>3 DEF FileTypes, GateType

\* The same for a gate that is let go of by whoever holds it.
LEMMA GateLetGo ==
  ASSUME FileTypes, NEW d \in Doc, NEW x \in Hook \cup {ATask}, LetGo(d, x)
  PROVE  /\ gate' \in GateType
         /\ \A e \in Doc : gate'[e][0] = IF e = d /\ gate[e][0] = x THEN NoDoc ELSE gate[e][0]
  BY DEF LetGo, FileTypes, GateType

\* The gate of a hook is the gate of its file: no other one ever gets into the map.
LEMMA MyGateIs ==
  ASSUME FileTypes, NEW h \in Hook, doc[h] \in Doc
  PROVE  /\ MyGate(h) = Holder(doc[h])
         /\ Lets(h) <=> gate' = [gate EXCEPT ![doc[h]][0] = NoDoc]
  BY DEF FileTypes, GateType, MyGate, Lets, Holder

-----------------------------------------------------------------------------
(* The types.                                                              *)
LEMMA LetsType ==
  ASSUME FileTypes, NEW h \in Hook, doc[h] \in Doc, Lets(h) PROVE gate' \in GateType
<1>1. gate' = [gate EXCEPT ![doc[h]][0] = NoDoc]
  BY MyGateIs
<1> QED
  BY <1>1, GateTaken

LEMMA SettledText ==
  ASSUME FileTypes, NEW d \in Doc, texts[d] # NoDoc
  PROVE  [texts EXCEPT ![d].pending = NoDoc] \in [Doc -> SentText \cup {NoDoc}]
<1>1. texts[d] \in SentText
  BY DEF FileTypes
<1>2. [texts[d] EXCEPT !.pending = NoDoc] \in SentText
  BY <1>1 DEF SentText
<1>3. [texts EXCEPT ![d].pending = NoDoc] = [texts EXCEPT ![d] = [texts[d] EXCEPT !.pending = NoDoc]]
  BY DEF FileTypes
<1> QED
  BY <1>2, <1>3 DEF FileTypes

\* Every step keeps the types: first of the records, gates and hooks, then of the writes and the news.
LEMMA FileTypesStep == AllTypes /\ [DocNext]_docVars => FileTypes'
<1> SUFFICES ASSUME AllTypes, [DocNext]_docVars PROVE FileTypes'
  OBVIOUS
<1> USE DocumentsAssumption DEF AllTypes, FileTypes, Steps, Leaves, Holding, Waiting,
     fileVars, gateVars, hookVars, pipeVars, newsVars, pastVars
<1>a. \A h \in Hook : handle[h] = 0 /\ \A d \in Doc : gateInMap[d] = 0
  OBVIOUS
<1>b. \A h \in Hook : hook[h] # "idle" => doc[h] \in Doc
  OBVIOUS
<1>1. ASSUME NEW h \in Hook, HookBegins(h) PROVE FileTypes'
  BY <1>1 DEF HookBegins
<1>2. ASSUME NEW h \in Hook, HookEnters(h) PROVE FileTypes'
  <2>1. gate' \in GateType
    BY <1>2, <1>a, <1>b, GateTaken DEF HookEnters
  <2> QED
    BY <1>2, <2>1 DEF HookEnters
<1>3. ASSUME NEW h \in Hook, HookReads(h) PROVE FileTypes'
  <2>1. gate' \in GateType
    BY <1>3, <1>b, LetsType DEF HookReads
  <2>2. awaited' \in [Hook -> SentText \cup {NoDoc}]
    BY <1>3, <1>b DEF HookReads, IsCurrent, Known
  <2> QED
    BY <1>3, <1>b, <2>1, <2>2 DEF HookReads
<1>4. ASSUME NEW h \in Hook, HookPlaces(h) PROVE FileTypes'
  BY <1>4 DEF HookPlaces
<1>5. ASSUME NEW h \in Hook, HasRoom(h) \/ FindsNone(h) PROVE FileTypes'
  BY <1>5 DEF HasRoom, FindsNone
<1>6. ASSUME NEW h \in Hook, Evicts(h) PROVE FileTypes'
  <2>1. PICK i \in 1..Len(lru) : Closes(h, lru[i])
    BY <1>6 DEF Evicts
  <2>2. lru[i] \in Doc
    BY ElementOfSeq
  <2>3. gate' \in GateType
    BY <2>1, <2>2, <1>a, GateTaken DEF Closes
  <2> QED
    BY <2>1, <2>3 DEF Closes
<1>8. ASSUME NEW h \in Hook, HookSends(h) PROVE FileTypes'
  BY <1>8 DEF HookSends
<1>9. ASSUME NEW h \in Hook, WaitRegisters(h) \/ WaitLooks(h) \/ WaitSleeps(h) \/ WaitWakes(h) PROVE FileTypes'
  BY <1>9 DEF WaitRegisters, WaitLooks, WaitSleeps, WaitWakes
<1>13. ASSUME NEW h \in Hook, WaitSettles(h) PROVE FileTypes'
  <2>1. gate' \in GateType
    BY <1>13, <1>b, LetsType DEF WaitSettles
  <2>2. texts' \in [Doc -> SentText \cup {NoDoc}]
    BY <1>13, <1>b, SettledText DEF WaitSettles, Known
  <2> QED
    BY <1>13, <2>1, <2>2 DEF WaitSettles
<1>14. ASSUME NEW h \in Hook, HookEnds(h) PROVE FileTypes'
  BY <1>14 DEF HookEnds
<1>15. ASSUME NEW h \in Hook, HookCancelled(h) PROVE FileTypes'
  <2>1. gate' \in GateType
    BY <1>15 DEF HookCancelled, GateType
  <2> QED
    BY <1>15, <2>1 DEF HookCancelled
<1>16. ASSUME NEW d \in Doc, SendWritten(d) PROVE FileTypes'
  <2> DEFINE w == write[d]
             record == [text |-> w.text, version |-> w.version, serial |-> sends + 1,
                        pending |-> w.before, reopened |-> w.version = 1 /\ d \in closedDocs]
  <2>1. w \in Notification
    BY <1>16 DEF SendWritten, PipeTypes
  <2>2. record \in SentText
    BY <2>1 DEF Notification, SentText, PipeTypes
  <2>3. w.by = ATask \/ w.by \in Hook
    BY <2>1 DEF Notification
  <2>4. /\ closedDocs' = closedDocs \ {d} /\ texts' = [texts EXCEPT ![d] = record]
        /\ \/ w.by = ATask /\ LetGo(d, ATask) /\ UNCHANGED <<hook, awaited, openSet>>
           \/ /\ w.by # ATask /\ hook' = [hook EXCEPT ![w.by] = "watch"]
              /\ awaited' = [awaited EXCEPT ![w.by] = record]
              /\ openSet' = (IF openSet = w.by THEN NoDoc ELSE openSet) /\ UNCHANGED gate
        /\ UNCHANGED <<onDisk, handle, gateInMap, doc, read, first, crowded, everClosed>>
    BY <1>16 DEF SendWritten
  <2> HIDE DEF w, record
  <2>5. gate' \in GateType
    BY <2>4, GateLetGo
  <2>6. awaited' \in [Hook -> SentText \cup {NoDoc}] /\ texts' \in [Doc -> SentText \cup {NoDoc}]
    <3>1. texts' \in [Doc -> SentText \cup {NoDoc}]
      BY <2>2, <2>4
    <3>2. CASE w.by = ATask
      BY <2>4, <3>1, <3>2
    <3>3. CASE w.by # ATask
      BY <2>2, <2>3, <2>4, <3>1, <3>3
    <3> QED
      BY <3>1, <3>2, <3>3
  <2> QED
    BY <2>3, <2>4, <2>5, <2>6
<1>17. ASSUME NEW d \in Doc, CloseWritten(d) PROVE FileTypes'
  <2> DEFINE w == write[d]
  <2>1. w.by = ATask \/ w.by \in Hook
    BY <1>17 DEF CloseWritten, PipeTypes, Notification
  <2>2. gate' \in GateType
    BY <1>17, <2>1, GateLetGo DEF CloseWritten
  <2>3. texts' \in [Doc -> SentText \cup {NoDoc}]
    BY <1>17 DEF CloseWritten
  <2>4. hook' \in [Hook -> Holding \cup {"idle", "gate", "asked"}]
    <3>1. CASE w.by = ATask
      BY <1>17, <3>1 DEF CloseWritten
    <3>2. CASE w.by # ATask
      BY <1>17, <2>1, <3>2 DEF CloseWritten
    <3> QED
      BY <3>1, <3>2
  <2>5. crowded' \in BOOLEAN
    BY <1>17, Zenon DEF CloseWritten
  <2>6. gateInMap' = gateInMap
    BY <1>17 DEF CloseWritten, ForgetsGate
  <2> QED
    BY <1>17, <2>2, <2>3, <2>4, <2>5, <2>6 DEF CloseWritten
<1>18. ASSUME NEW d \in Doc, DocEdit(d) PROVE FileTypes'
  BY <1>18 DEF DocEdit
<1>19. CASE ServerTakesIn \/ NotesPublication \/ UNCHANGED docVars
  BY <1>19 DEF ServerTakesIn, NotesPublication, docVars
<1> QED
  BY <1>1, <1>2, <1>3, <1>4, <1>5, <1>6, <1>8, <1>9, <1>13, <1>14, <1>15, <1>16, <1>17, <1>18, <1>19
     DEF DocNext, HookStep

LEMMA PipeTypesStep == AllTypes /\ [DocNext]_docVars => PipeTypes'
<1> SUFFICES ASSUME AllTypes, [DocNext]_docVars PROVE PipeTypes'
  OBVIOUS
<1> USE DocumentsAssumption DEF AllTypes, FileTypes, PipeTypes, Steps, Leaves, Holding, Waiting,
     fileVars, gateVars, hookVars, pipeVars, newsVars, pastVars
<1>b. \A h \in Hook : hook[h] # "idle" => doc[h] \in Doc
  OBVIOUS
<1>1. ASSUME NEW h \in Hook, HookBegins(h) \/ HookEnters(h) \/ HookPlaces(h) \/ HasRoom(h) \/ FindsNone(h) PROVE PipeTypes'
  BY <1>1 DEF HookBegins, HookEnters, HookPlaces, HasRoom, FindsNone
<1>3. ASSUME NEW h \in Hook, HookReads(h) PROVE PipeTypes'
  <2>1. IsCurrent(doc[h], onDisk[doc[h]]) /\ texts[doc[h]].pending # NoDoc => texts[doc[h]].pending \in Nat
    BY <1>3, <1>b DEF HookReads, IsCurrent, Known, SentText
  <2> QED
    BY <1>3, <1>b, <2>1 DEF HookReads
<1>6. ASSUME NEW h \in Hook, Evicts(h) PROVE PipeTypes'
  <2>1. PICK i \in 1..Len(lru) : Closes(h, lru[i])
    BY <1>6 DEF Evicts
  <2>2. lru[i] \in Doc
    BY ElementOfSeq
  <2>3. [kind |-> "close", by |-> h, version |-> 0, text |-> 0, before |-> 0] \in Notification
    BY DEF Notification
  <2> QED
    BY <2>1, <2>2, <2>3 DEF Closes
<1>8. ASSUME NEW h \in Hook, HookSends(h) PROVE PipeTypes'
  <2> DEFINE d == doc[h]
             version == IF openSet # h /\ Known(d) THEN texts[d].version + 1 ELSE 1
             note == [kind |-> IF version > 1 /\ ChangeSync THEN "change" ELSE "open",
                      by |-> h, version |-> version, text |-> read[h], before |-> published[d].count]
  <2>1. d \in Doc
    BY <1>8, <1>b DEF HookSends
  <2>2. version \in Nat
    BY <2>1 DEF Known, SentText
  <2>3. published[d].count \in Nat
    BY <2>1
  <2>4. note \in Notification
    BY <2>2, <2>3 DEF Notification
  <2>5. write' = [write EXCEPT ![d] = note] /\ before' = [before EXCEPT ![h] = published[d].count]
        /\ UNCHANGED <<piped, sends, taken, published, armed, awake>>
    BY <1>8 DEF HookSends
  <2> QED
    BY <2>1, <2>3, <2>4, <2>5
<1>9. ASSUME NEW h \in Hook, WaitRegisters(h) \/ WaitLooks(h) \/ WaitSleeps(h) \/ WaitWakes(h) \/ WaitSettles(h) PROVE PipeTypes'
  BY <1>9 DEF WaitRegisters, WaitLooks, WaitSleeps, WaitWakes, WaitSettles
<1>14. ASSUME NEW h \in Hook, HookEnds(h) PROVE PipeTypes'
  BY <1>14 DEF HookEnds
<1>15. ASSUME NEW h \in Hook, HookCancelled(h) PROVE PipeTypes'
  <2>1. \A d \in Doc : write[d] # NoDoc => [write[d] EXCEPT !.by = ATask] \in Notification
    <3> SUFFICES ASSUME NEW d \in Doc, write[d] \in Notification PROVE [write[d] EXCEPT !.by = ATask] \in Notification
      OBVIOUS
    <3> QED
      BY DEF Notification
  <2>2. write' \in [Doc -> Notification \cup {NoDoc}]
    BY <1>15, <2>1 DEF HookCancelled
  <2> QED
    BY <1>15, <2>2 DEF HookCancelled
<1>16. ASSUME NEW d \in Doc, SendWritten(d) \/ CloseWritten(d) PROVE PipeTypes'
  <2>1. write[d] \in Notification /\ Pipes(d, write[d]) /\ UNCHANGED <<taken, before, published, armed, awake>>
    BY <1>16 DEF SendWritten, CloseWritten
  <2>2. [version |-> write[d].version, text |-> write[d].text] \in Piped
    BY <2>1 DEF Notification, Piped
  <2>3. piped' \in [Doc -> Piped \cup {NoDoc}]
    BY <2>1, <2>2 DEF Pipes
  <2> QED
    BY <2>1, <2>3 DEF Pipes
<1>18. ASSUME NEW d \in Doc, DocEdit(d) PROVE PipeTypes'
  BY <1>18 DEF DocEdit
<1>19. CASE ServerTakesIn
  <2>1. Head(inFlight) \in Message
    BY <1>19, HeadTailProperties DEF ServerTakesIn, SerialInv
  <2>2. taken' \in Nat
    BY <1>19, <2>1 DEF ServerTakesIn, Message
  <2> QED
    BY <1>19, <2>2 DEF ServerTakesIn
<1>20. CASE NotesPublication
  <2> DEFINE m == Head(news)
  <2>1. m \in News
    BY <1>20, HeadTailProperties DEF NotesPublication, SerialInv
  <2>2. m.doc \in Doc /\ m.version \in Nat \cup {NoDoc}
    BY <2>1 DEF News
  <2>3. published[m.doc].count + 1 \in Nat
    BY <2>2
  <2>4. published' = [published EXCEPT ![m.doc] = [count |-> @.count + 1, version |-> m.version]]
        /\ awake' = awake \cup armed /\ armed' = {} /\ UNCHANGED <<write, piped, sends, taken, before>>
    BY <1>20 DEF NotesPublication
  <2> HIDE DEF m
  <2> QED
    BY <2>2, <2>3, <2>4
<1>21. CASE UNCHANGED docVars
  BY <1>21 DEF docVars
<1> QED
  BY <1>1, <1>3, <1>6, <1>8, <1>9, <1>14, <1>15, <1>16, <1>18, <1>19, <1>20, <1>21
     DEF DocNext, HookStep

-----------------------------------------------------------------------------
(* The order of use and of the sends.                                      *)
\* The order of use has every open file once, and no other.
LEMMA LruStep ==
  ASSUME AllTypes, LruInv, [DocNext]_docVars PROVE LruInv'
<1> USE DocumentsAssumption DEF Known
<1>b. \A h \in Hook : hook[h] # "idle" => doc[h] \in Doc
  BY DEF AllTypes, FileTypes
<1>t. texts \in [Doc -> SentText \cup {NoDoc}]
  BY DEF AllTypes, FileTypes
<1>1. ASSUME UNCHANGED <<texts, lru>> PROVE LruInv'
  BY <1>1 DEF LruInv
<1>2. ASSUME NEW d \in Doc, lru' = Append(RemoveFirst(lru, d), d),
             \A e \in Doc : Known(e)' <=> Known(e) \/ e = d
      PROVE LruInv'
  <2>1. /\ RemoveFirst(lru, d) \in Seq(Doc) /\ Distinct(RemoveFirst(lru, d))
        /\ \A x : In(x, RemoveFirst(lru, d)) <=> In(x, lru) /\ x # d
    BY RemoveDistinct DEF LruInv
  <2> DEFINE s == RemoveFirst(lru, d)
  <2> HIDE DEF s
  <2>2. /\ Append(s, d) \in Seq(Doc) /\ Distinct(Append(s, d))
        /\ \A x : In(x, Append(s, d)) <=> In(x, s) \/ x = d
    BY <2>1, AppendDistinct DEF s
  <2>3. lru' = Append(s, d)
    BY <1>2 DEF s
  <2>4. \A x : In(x, s) <=> In(x, lru) /\ x # d
    BY <2>1 DEF s
  <2> QED
    BY <1>2, <2>2, <2>3, <2>4 DEF LruInv
<1>3. ASSUME NEW h \in Hook, HookEnters(h) PROVE LruInv'
  <2>1. doc[h] \in Doc /\ texts' = texts /\ lru' = Touched(doc[h])
    BY <1>3, <1>b DEF HookEnters
  <2> QED
    BY <1>1, <1>2, <2>1 DEF Touched
<1>4. ASSUME NEW h \in Hook, WaitSettles(h) PROVE LruInv'
  <2>1. lru' = lru /\ \A d \in Doc : Known(d)' <=> Known(d)
    <3>1. texts' = texts \/ (texts[doc[h]] # NoDoc /\ texts' = [texts EXCEPT ![doc[h]].pending = NoDoc])
      <4>1. texts' = IF texts[doc[h]] # NoDoc /\ texts[doc[h]].version = awaited[h].version
                       THEN [texts EXCEPT ![doc[h]].pending = NoDoc] ELSE texts
        BY <1>4 DEF WaitSettles
      <4> QED
        BY <4>1, Zenon
    <3>2. doc[h] \in Doc
      BY <1>4, <1>b DEF WaitSettles
    <3>3. ASSUME texts[doc[h]] # NoDoc, texts' = [texts EXCEPT ![doc[h]].pending = NoDoc]
          PROVE  \A d \in Doc : texts'[d] # NoDoc <=> texts[d] # NoDoc
      <4>1. \A d \in Doc : d # doc[h] => texts'[d] = texts[d]
        BY <3>2, <3>3, <1>t
      <4>2. texts'[doc[h]] = [texts[doc[h]] EXCEPT !.pending = NoDoc]
        BY <3>2, <3>3, <1>t
      <4>3. texts'[doc[h]] \in SentText
        BY <3>2, <3>3, <4>2, <1>t DEF SentText
      <4> QED
        BY <4>1, <4>3, <3>2, <3>3
    <3> QED
      BY <1>4, <3>1, <3>3 DEF WaitSettles
  <2> QED
    BY <2>1 DEF LruInv
<1>5. ASSUME NEW d \in Doc, SendWritten(d) PROVE LruInv'
  <2>1. lru' = Append(RemoveFirst(lru, d), d)
    BY <1>5 DEF SendWritten
  <2>2. \A e \in Doc : e # d => texts'[e] = texts[e]
    BY <1>5, <1>t DEF SendWritten
  <2>3. texts'[d] # NoDoc
    <3> DEFINE w == write[d]
             record == [text |-> w.text, version |-> w.version, serial |-> sends + 1,
                        pending |-> w.before, reopened |-> w.version = 1 /\ d \in closedDocs]
    <3>1. w \in Notification
      BY <1>5 DEF SendWritten, AllTypes, PipeTypes
    <3>2. record \in SentText
      BY <3>1 DEF Notification, SentText, PipeTypes, AllTypes
    <3>3. texts' = [texts EXCEPT ![d] = record]
      BY <1>5 DEF SendWritten
    <3> QED
      BY <3>2, <3>3, <1>t
  <2> QED
    BY <1>2, <2>1, <2>2, <2>3
<1>6. ASSUME NEW d \in Doc, CloseWritten(d) PROVE LruInv'
  <2>1. lru' = RemoveFirst(lru, d) /\ texts' = [texts EXCEPT ![d] = NoDoc]
    BY <1>6 DEF CloseWritten
  <2>2. /\ RemoveFirst(lru, d) \in Seq(Doc) /\ Distinct(RemoveFirst(lru, d))
        /\ \A x : In(x, RemoveFirst(lru, d)) <=> In(x, lru) /\ x # d
    BY RemoveDistinct DEF LruInv
  <2>3. \A e \in Doc : Known(e)' <=> Known(e) /\ e # d
    BY <2>1, <1>t
  <2> DEFINE s == RemoveFirst(lru, d)
  <2> HIDE DEF s
  <2>4. s \in Seq(Doc) /\ Distinct(s) /\ \A x : In(x, s) <=> In(x, lru) /\ x # d
    BY <2>2 DEF s
  <2>5. lru' = s
    BY <2>1 DEF s
  <2> QED
    BY <2>3, <2>4, <2>5 DEF LruInv
<1>7. ASSUME NEW h \in Hook, HookStep(h), ~HookEnters(h), ~WaitSettles(h) PROVE UNCHANGED <<texts, lru>>
  BY <1>7 DEF HookStep, HookBegins, HookReads, HookPlaces, HasRoom, Evicts, Closes, FindsNone, HookSends,
     WaitRegisters, WaitLooks, WaitSleeps, WaitWakes, HookEnds, HookCancelled, fileVars
<1>8. ASSUME NEW d \in Doc, DocEdit(d) PROVE UNCHANGED <<texts, lru>>
  BY <1>8 DEF DocEdit, fileVars
<1>9. ServerTakesIn \/ NotesPublication \/ UNCHANGED docVars => UNCHANGED <<texts, lru>>
  BY DEF ServerTakesIn, NotesPublication, docVars, fileVars
<1> QED
  BY <1>1, <1>3, <1>4, <1>5, <1>6, <1>7, <1>8, <1>9 DEF DocNext

\* The server takes the sends in order: what is on its way are the serials after the last one taken.
LEMMA SerialStep ==
  ASSUME AllTypes, SerialInv, [DocNext]_docVars PROVE SerialInv'
<1> USE DEF SerialInv
<1>0. Len(inFlight) \in Nat /\ Len(news) \in Nat /\ sends \in Nat /\ taken \in Nat
  BY LenProperties DEF AllTypes, PipeTypes
<1>1. ASSUME UNCHANGED <<inFlight, news, sends, taken>> PROVE SerialInv'
  BY <1>1
<1>2. ASSUME NEW d \in Doc, write[d] # NoDoc, Pipes(d, write[d]), UNCHANGED <<news, taken>> PROVE SerialInv'
  <2> DEFINE m == [doc |-> d, kind |-> write[d].kind, version |-> write[d].version, serial |-> sends + 1]
  <2>1. m \in Message /\ m.serial = sends + 1
    BY <1>0, <1>2 DEF AllTypes, PipeTypes, Notification, Message
  <2>2. inFlight' = Append(inFlight, m) /\ sends' = sends + 1
    BY <1>2 DEF Pipes
  <2> HIDE DEF m
  <2>3. /\ inFlight' \in Seq(Message) /\ Len(inFlight') = Len(inFlight) + 1
        /\ \A i \in 1..Len(inFlight) : inFlight'[i] = inFlight[i]
        /\ inFlight'[Len(inFlight) + 1] = m
    BY <2>1, <2>2, AppendProperties
  <2>4. ASSUME NEW i \in 1..Len(inFlight') PROVE inFlight'[i].serial = taken' + i
    <3>1. CASE i = Len(inFlight) + 1
      BY <1>0, <1>2, <2>1, <2>3, <3>1
    <3>2. CASE i \in 1..Len(inFlight)
      BY <1>2, <2>3, <3>2
    <3> QED
      BY <1>0, <2>3, <3>1, <3>2
  <2>5. sends' = taken' + Len(inFlight')
    BY <1>0, <1>2, <2>2, <2>3
  <2> QED
    BY <1>2, <2>3, <2>4, <2>5
<1>3. CASE ServerTakesIn
  <2>1. /\ inFlight # <<>> /\ inFlight' = Tail(inFlight) /\ taken' = Head(inFlight).serial /\ sends' = sends
        /\ news' = Append(news, [doc |-> Head(inFlight).doc,
                                 version |-> IF Head(inFlight).kind = "close" THEN NoDoc ELSE Head(inFlight).version])
    BY <1>3 DEF ServerTakesIn
  <2>2. /\ Head(inFlight) \in Message /\ Tail(inFlight) \in Seq(Message) /\ Len(Tail(inFlight)) = Len(inFlight) - 1
        /\ \A i \in 1..Len(Tail(inFlight)) : Tail(inFlight)[i] = inFlight[i + 1]
        /\ Head(inFlight) = inFlight[1] /\ Len(inFlight) > 0
    BY <1>0, <2>1, HeadTailProperties, EmptySeq, LenProperties
  <2>3. [doc |-> Head(inFlight).doc,
         version |-> IF Head(inFlight).kind = "close" THEN NoDoc ELSE Head(inFlight).version] \in News
    BY <2>2 DEF Message, News
  <2>4. news' \in Seq(News)
    BY <2>1, <2>3, AppendProperties
  <2>5. Head(inFlight).serial = taken + 1
    BY <1>0, <2>2
  <2>6. sends' = taken' + Len(inFlight')
    BY <1>0, <2>1, <2>2, <2>5
  <2>7. ASSUME NEW i \in 1..Len(inFlight') PROVE inFlight'[i].serial = taken' + i
    <3>0. i \in Nat
      BY <1>0, <2>1, <2>2
    <3>1. inFlight'[i] = inFlight[i + 1] /\ i + 1 \in 1..Len(inFlight)
      BY <1>0, <2>1, <2>2
    <3>2. inFlight[i + 1].serial = taken + (i + 1)
      BY <3>1
    <3> QED
      <4>1. taken' = taken + 1
        BY <2>1, <2>5
      <4> QED
        BY <1>0, <3>0, <3>1, <3>2, <4>1
  <2> QED
    BY <2>1, <2>2, <2>4, <2>6, <2>7
<1>4. CASE NotesPublication
  <2>1. news' = Tail(news) /\ news # <<>> /\ UNCHANGED <<inFlight, sends, taken>>
    BY <1>4 DEF NotesPublication, pipeVars
  <2> QED
    BY <2>1, HeadTailProperties
<1>7. ASSUME NEW h \in Hook, HookStep(h) PROVE UNCHANGED <<inFlight, news, sends, taken>>
  BY <1>7 DEF HookStep, HookBegins, HookEnters, HookReads, HookPlaces, HasRoom, Evicts, Closes, FindsNone, HookSends,
     WaitRegisters, WaitLooks, WaitSleeps, WaitWakes, WaitSettles, HookEnds, HookCancelled, pipeVars, newsVars
<1>8. ASSUME NEW d \in Doc, DocEdit(d) PROVE UNCHANGED <<inFlight, news, sends, taken>>
  BY <1>8 DEF DocEdit, pipeVars, newsVars
<1>9. ASSUME NEW d \in Doc, SendWritten(d) \/ CloseWritten(d)
      PROVE  write[d] # NoDoc /\ Pipes(d, write[d]) /\ UNCHANGED <<news, taken>>
  BY <1>9 DEF SendWritten, CloseWritten, newsVars
<1>10. CASE UNCHANGED docVars
  BY <1>1, <1>10 DEF docVars, pipeVars, newsVars
<1> QED
  BY <1>1, <1>2, <1>3, <1>4, <1>7, <1>8, <1>9, <1>10 DEF DocNext

-----------------------------------------------------------------------------
(* The gates.                                                              *)
\* What the steps do to the gates, seen by who holds them.
LEMMA EntersGate ==
  ASSUME AllTypes, NEW h \in Hook, HookEnters(h)
  PROVE  /\ doc[h] \in Doc /\ Holder(doc[h]) = NoDoc
         /\ \A d \in Doc : Holder(d)' = IF d = doc[h] THEN h ELSE Holder(d)
<1>1. doc[h] \in Doc /\ handle[h] = 0
  BY DEF HookEnters, AllTypes, FileTypes
<1>2. MyGate(h) = NoDoc /\ gate' = [gate EXCEPT ![doc[h]][0] = h]
  BY <1>1 DEF HookEnters
<1> QED
  BY <1>1, <1>2, GateTaken, MyGateIs DEF AllTypes, Holder

LEMMA GateLet ==
  ASSUME AllTypes, NEW h \in Hook, doc[h] \in Doc, Lets(h)
  PROVE  \A d \in Doc : Holder(d)' = IF d = doc[h] THEN NoDoc ELSE Holder(d)
<1>1. gate' = [gate EXCEPT ![doc[h]][0] = NoDoc]
  BY MyGateIs DEF AllTypes
<1>2. \A e \in Doc : [gate EXCEPT ![doc[h]][0] = NoDoc][e][0] = IF e = doc[h] THEN NoDoc ELSE gate[e][0]
  BY GateTaken DEF AllTypes
<1> QED
  BY <1>1, <1>2 DEF Holder

LEMMA ClosesGate ==
  ASSUME AllTypes, NEW h \in Hook, Evicts(h)
  PROVE  \E v \in Doc : /\ In(v, lru) /\ Holder(v) = NoDoc /\ Closes(h, v)
                        /\ \A d \in Doc : Holder(d)' = IF d = v THEN h ELSE Holder(d)
<1>1. PICK i \in 1..Len(lru) : Free(lru[i]) /\ Closes(h, lru[i])
  BY DEF Evicts
<1>2. lru[i] \in Doc /\ In(lru[i], lru)
  BY ElementOfSeq DEF AllTypes, In
<1>3. gateInMap[lru[i]] = 0
  BY <1>2 DEF AllTypes, FileTypes
<1>4. gate' = [gate EXCEPT ![lru[i]][0] = h] /\ Holder(lru[i]) = NoDoc
  BY <1>1, <1>3 DEF Closes, Free, Holder
<1>5. \A d \in Doc : Holder(d)' = IF d = lru[i] THEN h ELSE Holder(d)
  BY <1>2, <1>4, GateTaken DEF AllTypes, Holder
<1> QED
  BY <1>1, <1>2, <1>4, <1>5

LEMMA WrittenGate ==
  ASSUME AllTypes, NEW d \in Doc, NEW x \in Hook \cup {ATask}, LetGo(d, x)
  PROVE  \A e \in Doc : Holder(e)' = IF e = d /\ Holder(e) = x THEN NoDoc ELSE Holder(e)
  BY GateLetGo DEF AllTypes, Holder

LEMMA CancelledGate ==
  ASSUME AllTypes, NEW h \in Hook, HookCancelled(h)
  PROVE  \A d \in Doc : Holder(d)' = IF Holder(d) # h THEN Holder(d)
                                     ELSE IF write[d] # NoDoc /\ write[d].by = h THEN ATask ELSE NoDoc
  BY DEF HookCancelled, Holder

\* One holder for each gate, who is at work on the file, closes it for room, or writes for a hook that is gone.
LEMMA GateStep ==
  ASSUME AllTypes, GateInv, LruInv, [DocNext]_docVars PROVE GateInv'
<1> USE DocumentsAssumption DEF GateInv, Holding, Waiting, Steps, Closing, Sending
<1>t. /\ hook \in [Hook -> Holding \cup {"idle", "gate", "asked"}] /\ doc \in [Hook -> Doc \cup {NoDoc}]
      /\ write \in [Doc -> Notification \cup {NoDoc}]
  BY DEF AllTypes, FileTypes, PipeTypes
<1>w. \A d \in Doc : write[d] # NoDoc => write[d] \in Notification
  BY <1>t
<1>b. \A d \in Doc : write[d] # NoDoc => write[d].by \in Hook \cup {ATask}
  BY <1>w DEF Notification
<1>1. ASSUME NEW h \in Hook, HookBegins(h) PROVE GateInv'
  <2>1. PICK d \in Doc : doc' = [doc EXCEPT ![h] = d]
    BY <1>1 DEF HookBegins
  <2>2. hook[h] = "idle" /\ hook' = [hook EXCEPT ![h] = "gate"] /\ UNCHANGED <<gate, write>>
    BY <1>1 DEF HookBegins, pipeVars
  <2>3. \A e \in Doc : Holder(e)' = Holder(e)
    BY <2>2 DEF Holder
  <2> QED
    BY <1>t, <1>b, <2>1, <2>2, <2>3
<1>2. ASSUME NEW h \in Hook, HookEnters(h) PROVE GateInv'
  <2>1. hook[h] = "gate" /\ hook' = [hook EXCEPT ![h] = "read"] /\ UNCHANGED <<doc, write>>
    BY <1>2 DEF HookEnters, pipeVars
  <2> QED
    BY <1>t, <1>b, <1>2, <2>1, EntersGate
<1>3. ASSUME NEW h \in Hook, HookReads(h) PROVE GateInv'
  <2>0. hook[h] = "read" /\ doc[h] \in Doc /\ UNCHANGED <<doc, write>>
    BY <1>3, <1>t DEF HookReads, pipeVars
  <2>1. CASE /\ hook' \in {[hook EXCEPT ![h] = p] : p \in {"send", "place", "watch"}} /\ gate' = gate
    <3>1. \A e \in Doc : Holder(e)' = Holder(e)
      BY <2>1 DEF Holder
    <3>2. PICK p \in {"send", "place", "watch"} : hook' = [hook EXCEPT ![h] = p]
      BY <2>1
    <3> QED
      BY <1>t, <1>b, <2>0, <3>1, <3>2
  <2>2. CASE hook' = [hook EXCEPT ![h] = "asked"] /\ Lets(h)
    BY <1>t, <1>b, <2>0, <2>2, GateLet
  <2> QED
    BY <1>3, <2>1, <2>2 DEF HookReads
<1>4. ASSUME NEW h \in Hook, NEW p \in Holding, hook' = [hook EXCEPT ![h] = p], hook[h] \in Holding \ {"close", "sending"},
             p \notin {"close", "sending"}, UNCHANGED <<doc, gate, write>>
      PROVE  GateInv'
  <2>1. \A e \in Doc : Holder(e)' = Holder(e)
    BY <1>4 DEF Holder
  <2> QED
    BY <1>t, <1>b, <1>4, <2>1
<1>5. ASSUME NEW h \in Hook, HookPlaces(h) \/ HasRoom(h) \/ FindsNone(h) \/ WaitRegisters(h) \/ WaitLooks(h)
                              \/ WaitSleeps(h) \/ WaitWakes(h)
      PROVE  \E p \in Holding : /\ hook' = [hook EXCEPT ![h] = p] /\ hook[h] \in Holding \ {"close", "sending"}
                                /\ p \notin {"close", "sending"} /\ UNCHANGED <<doc, gate, write>>
  BY <1>5 DEF HookPlaces, HasRoom, FindsNone, WaitRegisters, WaitLooks, WaitSleeps, WaitWakes, gateVars, pipeVars
<1>6. ASSUME NEW h \in Hook, Evicts(h) PROVE GateInv'
  <2>1. PICK v \in Doc : /\ In(v, lru) /\ Holder(v) = NoDoc /\ Closes(h, v)
                         /\ \A d \in Doc : Holder(d)' = IF d = v THEN h ELSE Holder(d)
    BY <1>6, ClosesGate
  <2> DEFINE note == [kind |-> "close", by |-> h, version |-> 0, text |-> 0, before |-> 0]
  <2>2. note \in Notification /\ note # NoDoc
    BY DEF Notification
  <2>3. hook[h] = "evict" /\ hook' = [hook EXCEPT ![h] = "close"] /\ write' = [write EXCEPT ![v] = note] /\ doc' = doc
    BY <1>6, <2>1 DEF Evicts, Closes
  <2>4. note.kind = "close" /\ note.by = h
    OBVIOUS
  <2> HIDE DEF note
  <2>5. write[v] = NoDoc /\ doc[h] # v /\ doc[h] \in Doc
    BY <1>t, <1>b, <2>1, <2>3
  <2>6. \A d \in Doc : d # v => write[d] = NoDoc \/ write[d].by # h
    BY <1>t, <2>3
  <2> QED
    BY <1>t, <1>b, <2>1, <2>2, <2>3, <2>4, <2>5, <2>6
<1>7. ASSUME NEW h \in Hook, HookSends(h) PROVE GateInv'
  <2> DEFINE d == doc[h]
             version == IF openSet # h /\ Known(d) THEN texts[d].version + 1 ELSE 1
             note == [kind |-> IF version > 1 /\ ChangeSync THEN "change" ELSE "open",
                      by |-> h, version |-> version, text |-> read[h], before |-> published[d].count]
  <2>1. hook[h] = "send" /\ hook' = [hook EXCEPT ![h] = "sending"] /\ write' = [write EXCEPT ![d] = note]
        /\ UNCHANGED <<doc, gate>>
    BY <1>7 DEF HookSends, gateVars
  <2>2. d \in Doc /\ PipeTypes'
    BY <1>t, <2>1, <1>7, PipeTypesStep
  <2>3. note.by = h /\ note.kind # "close"
    OBVIOUS
  <2>4. note # NoDoc
    <3>1. version \in Nat /\ published[d].count \in Nat /\ read[h] \in Nat
      BY <2>2 DEF Known, SentText, AllTypes, FileTypes, PipeTypes
    <3>2. note \in Notification
      BY <3>1 DEF Notification
    <3> QED
      BY <3>2
  <2>5. \A e \in Doc : Holder(e)' = Holder(e)
    BY <2>1 DEF Holder
  <2> HIDE DEF note
  <2>6. write[d] = NoDoc
    BY <1>t, <1>b, <2>1, <2>2
  <2>7. \A e \in Doc : write[e] = NoDoc \/ write[e].by # h
    BY <1>t, <2>1
  <2> QED
    BY <1>t, <1>b, <2>1, <2>2, <2>3, <2>4, <2>5, <2>6, <2>7
<1>8. ASSUME NEW h \in Hook, WaitSettles(h) PROVE GateInv'
  <2>1. hook[h] \in Waiting /\ hook' = [hook EXCEPT ![h] = "asked"] /\ Lets(h) /\ UNCHANGED <<doc, write>>
    BY <1>8 DEF WaitSettles, pipeVars
  <2> QED
    BY <1>t, <1>b, <2>1, GateLet
<1>9. ASSUME NEW h \in Hook, HookEnds(h) PROVE GateInv'
  <2>1. /\ hook[h] = "asked" /\ hook' = [hook EXCEPT ![h] = "idle"] /\ doc' = [doc EXCEPT ![h] = NoDoc]
        /\ UNCHANGED <<gate, write>>
    BY <1>9 DEF HookEnds, Leaves, gateVars, pipeVars
  <2>2. \A e \in Doc : Holder(e)' = Holder(e)
    BY <2>1 DEF Holder
  <2> QED
    BY <1>t, <1>b, <2>1, <2>2
<1>10. ASSUME NEW h \in Hook, HookCancelled(h) PROVE GateInv'
  <2> DEFINE mine == {d \in Doc : write[d] # NoDoc /\ write[d].by = h}
  <2>1. /\ hook[h] \notin {"idle", "send", "evict", "settle", "asked"}
        /\ hook' = [hook EXCEPT ![h] = "idle"] /\ doc' = [doc EXCEPT ![h] = NoDoc]
        /\ write' = [d \in Doc |-> IF d \in mine THEN [write[d] EXCEPT !.by = ATask] ELSE write[d]]
    BY <1>10 DEF HookCancelled, Leaves
  <2>2. \A d \in Doc : /\ write'[d] = NoDoc <=> write[d] = NoDoc
                       /\ write[d] # NoDoc => /\ write'[d].kind = write[d].kind
                                              /\ write'[d].by = IF write[d].by = h THEN ATask ELSE write[d].by
    <3> SUFFICES ASSUME NEW d \in Doc
                 PROVE /\ write'[d] = NoDoc <=> write[d] = NoDoc
                       /\ write[d] # NoDoc => /\ write'[d].kind = write[d].kind
                                              /\ write'[d].by = IF write[d].by = h THEN ATask ELSE write[d].by
      OBVIOUS
    <3>1. CASE d \in mine
      <4>1. write[d] \in Notification /\ write'[d] = [write[d] EXCEPT !.by = ATask]
        BY <1>w, <2>1, <3>1
      <4>2. write'[d] \in Notification /\ write'[d].kind = write[d].kind /\ write'[d].by = ATask
        BY <4>1 DEF Notification
      <4> QED
        BY <3>1, <4>2
    <3>2. CASE d \notin mine
      BY <2>1, <3>2
    <3> QED
      BY <3>1, <3>2
  <2>3. \A d \in Doc : Holder(d)' = IF Holder(d) # h THEN Holder(d)
                                     ELSE IF write[d] # NoDoc /\ write[d].by = h THEN ATask ELSE NoDoc
    BY <1>10, CancelledGate
  <2> HIDE DEF mine
  <2>4. hook' \in [Hook -> Holding \cup {"idle", "gate", "asked"}] /\ doc' \in [Hook -> Doc \cup {NoDoc}]
    BY <1>t, <2>1
  <2>5. \A k \in Hook : /\ hook'[k] = IF k = h THEN "idle" ELSE hook[k]
                        /\ doc'[k] = IF k = h THEN NoDoc ELSE doc[k]
    BY <1>t, <2>1
  <2> QED
    BY <1>t, <1>b, <2>2, <2>3, <2>5
<1>11. ASSUME NEW d \in Doc, SendWritten(d) PROVE GateInv'
  <2>1. write[d] # NoDoc /\ write[d].kind # "close" /\ write' = [write EXCEPT ![d] = NoDoc] /\ doc' = doc
    BY <1>11 DEF SendWritten, Pipes
  <2>2. CASE write[d].by = ATask
    <3>1. LetGo(d, ATask) /\ hook' = hook
      BY <1>11, <2>2 DEF SendWritten
    <3>2. \A e \in Doc : Holder(e)' = IF e = d /\ Holder(e) = ATask THEN NoDoc ELSE Holder(e)
      BY <3>1, WrittenGate
    <3> QED
      BY <1>t, <1>b, <2>1, <2>2, <3>1, <3>2
  <2>3. CASE write[d].by # ATask
    <3>1. gate' = gate /\ hook' = [hook EXCEPT ![write[d].by] = "watch"] /\ write[d].by \in Hook
      BY <1>11, <1>b, <2>1, <2>3 DEF SendWritten
    <3>2. \A e \in Doc : Holder(e)' = Holder(e)
      BY <3>1 DEF Holder
    <3> QED
      BY <1>t, <1>b, <2>1, <2>3, <3>1, <3>2
  <2> QED
    BY <2>2, <2>3
<1>12. ASSUME NEW d \in Doc, CloseWritten(d) PROVE GateInv'
  <2>1. /\ write[d] # NoDoc /\ write[d].kind = "close" /\ write' = [write EXCEPT ![d] = NoDoc] /\ doc' = doc
        /\ LetGo(d, write[d].by)
    BY <1>12 DEF CloseWritten, Pipes
  <2>2. \A e \in Doc : Holder(e)' = IF e = d /\ Holder(e) = write[d].by THEN NoDoc ELSE Holder(e)
    BY <1>b, <2>1, WrittenGate
  <2>3. CASE write[d].by = ATask
    <3>1. hook' = hook
      BY <1>12, <2>3 DEF CloseWritten
    <3> QED
      BY <1>t, <1>b, <2>1, <2>2, <2>3, <3>1
  <2>4. CASE write[d].by # ATask
    <3>1. hook' = [hook EXCEPT ![write[d].by] = "evict"] /\ write[d].by \in Hook
      BY <1>12, <1>b, <2>1, <2>4 DEF CloseWritten
    <3> QED
      BY <1>t, <1>b, <2>1, <2>2, <2>4, <3>1
  <2> QED
    BY <2>3, <2>4
<1>13. ASSUME UNCHANGED <<hook, doc, gate, write>> PROVE GateInv'
  BY <1>13 DEF Holder
<1>14. ASSUME NEW d \in Doc, DocEdit(d) PROVE UNCHANGED <<hook, doc, gate, write>>
  BY <1>14 DEF DocEdit, hookVars, gateVars, pipeVars
<1>15. ServerTakesIn \/ NotesPublication \/ UNCHANGED docVars => UNCHANGED <<hook, doc, gate, write>>
  BY DEF ServerTakesIn, NotesPublication, docVars, hookVars, gateVars, pipeVars
<1> QED
  BY <1>1, <1>2, <1>3, <1>4, <1>5, <1>6, <1>7, <1>8, <1>9, <1>10, <1>11, <1>12, <1>13, <1>14, <1>15 DEF DocNext, HookStep

-----------------------------------------------------------------------------
(* The effects of the steps on the records and the writes.                 *)
\* The fields of the records, and of the writes.
LEMMA TextFields ==
  ASSUME AllTypes
  PROVE  /\ texts \in [Doc -> SentText \cup {NoDoc}] /\ piped \in [Doc -> Piped \cup {NoDoc}]
         /\ \A d \in Doc : Known(d) =>
              /\ texts[d] \in SentText /\ texts[d].text \in Nat /\ texts[d].version \in Nat
              /\ texts[d].serial \in Nat /\ texts[d].pending \in Nat \cup {NoDoc} /\ texts[d].reopened \in BOOLEAN
         /\ \A d \in Doc : piped[d] # NoDoc => piped[d].text \in Nat /\ piped[d].version \in Nat
         /\ \A h \in Hook : awaited[h] # NoDoc =>
              awaited[h].version \in Nat /\ awaited[h].serial \in Nat /\ awaited[h].reopened \in BOOLEAN
<1>1. \A t \in SentText : /\ t.text \in Nat /\ t.version \in Nat /\ t.serial \in Nat
                          /\ t.pending \in Nat \cup {NoDoc} /\ t.reopened \in BOOLEAN
  BY DEF SentText
<1>2. \A p \in Piped : p.text \in Nat /\ p.version \in Nat
  BY DEF Piped
<1> QED
  BY <1>1, <1>2 DEF AllTypes, FileTypes, PipeTypes, Known

LEMMA NoteFields ==
  ASSUME AllTypes
  PROVE  /\ write \in [Doc -> Notification \cup {NoDoc}]
         /\ \A d \in Doc : write[d] # NoDoc =>
              /\ write[d] \in Notification /\ write[d].kind \in {"open", "change", "close"}
              /\ write[d].by \in Hook \cup {ATask} /\ write[d].version \in Nat /\ write[d].text \in Nat
              /\ write[d].before \in Nat
<1>1. \A n \in Notification : /\ n.kind \in {"open", "change", "close"} /\ n.by \in Hook \cup {ATask}
                              /\ n.version \in Nat /\ n.text \in Nat /\ n.before \in Nat
  BY DEF Notification
<1> QED
  BY <1>1 DEF AllTypes, PipeTypes

\* What a written text leaves behind.
LEMMA SentRecord ==
  ASSUME AllTypes, NEW d \in Doc, SendWritten(d)
  PROVE  /\ Sending(d)
         /\ write'[d] = NoDoc /\ \A e \in Doc : e # d => write'[e] = write[e] /\ texts'[e] = texts[e] /\ piped'[e] = piped[e]
         /\ Known(d)' /\ texts'[d].text = write[d].text /\ texts'[d].version = write[d].version
         /\ texts'[d].serial = sends + 1 /\ texts'[d].pending = write[d].before
         /\ texts'[d].reopened = (write[d].version = 1 /\ d \in closedDocs)
         /\ piped'[d] # NoDoc /\ piped'[d].text = write[d].text /\ piped'[d].version = write[d].version
         /\ sends' = sends + 1 /\ sends < MaxSends
<1> USE DocumentsAssumption
<1> DEFINE w == write[d]
           record == [text |-> w.text, version |-> w.version, serial |-> sends + 1,
                      pending |-> w.before, reopened |-> w.version = 1 /\ d \in closedDocs]
           pipe == [version |-> w.version, text |-> w.text]
<1>1. /\ w # NoDoc /\ w.kind # "close" /\ sends < MaxSends /\ sends' = sends + 1
      /\ write' = [write EXCEPT ![d] = NoDoc] /\ texts' = [texts EXCEPT ![d] = record]
      /\ piped' = [piped EXCEPT ![d] = pipe]
  BY DEF SendWritten, Pipes
<1>2. w.version \in Nat /\ w.text \in Nat /\ w.before \in Nat /\ sends \in Nat
  BY <1>1, NoteFields DEF AllTypes, PipeTypes
<1>3. record \in SentText /\ pipe \in Piped
  BY <1>2 DEF SentText, Piped
<1>4. /\ record.text = w.text /\ record.version = w.version /\ record.serial = sends + 1
      /\ record.pending = w.before /\ record.reopened = (w.version = 1 /\ d \in closedDocs)
      /\ pipe.text = w.text /\ pipe.version = w.version
  OBVIOUS
<1>5. record # NoDoc /\ pipe # NoDoc
  BY <1>3
<1> HIDE DEF record, pipe
<1>6. write'[d] = NoDoc /\ texts'[d] = record /\ piped'[d] = pipe
      /\ \A e \in Doc : e # d => write'[e] = write[e] /\ texts'[e] = texts[e] /\ piped'[e] = piped[e]
  BY <1>1, NoteFields, TextFields
<1> HIDE DEF w
<1> QED
  BY <1>1, <1>4, <1>5, <1>6 DEF Sending, Known, w

LEMMA ClosedRecord ==
  ASSUME AllTypes, NEW d \in Doc, CloseWritten(d)
  PROVE  /\ Closing(d)
         /\ write'[d] = NoDoc /\ \A e \in Doc : e # d => write'[e] = write[e] /\ texts'[e] = texts[e] /\ piped'[e] = piped[e]
         /\ texts'[d] = NoDoc /\ piped'[d] = NoDoc
         /\ sends' = sends + 1 /\ sends < MaxSends
<1>1. /\ write[d] # NoDoc /\ write[d].kind = "close" /\ sends < MaxSends /\ sends' = sends + 1
      /\ write' = [write EXCEPT ![d] = NoDoc] /\ texts' = [texts EXCEPT ![d] = NoDoc]
      /\ piped' = [piped EXCEPT ![d] = NoDoc]
  BY DEF CloseWritten, Pipes
<1> QED
  BY <1>1, NoteFields, TextFields DEF Closing

\* A settled wait leaves the record as it was, but for what is pending.
LEMMA SettledRecord ==
  ASSUME AllTypes, NEW h \in Hook, WaitSettles(h), doc[h] \in Doc
  PROVE  \A d \in Doc : /\ Known(d)' <=> Known(d)
                        /\ Known(d) => /\ texts'[d].text = texts[d].text /\ texts'[d].version = texts[d].version
                                       /\ texts'[d].serial = texts[d].serial
                                       /\ texts'[d].reopened = texts[d].reopened
                                       /\ texts'[d].pending \in {texts[d].pending, NoDoc}
<1> USE DocumentsAssumption
<1> DEFINE d == doc[h]
<1>1. CASE texts' = texts
  BY <1>1, TextFields DEF Known
<1>2. CASE texts[d] # NoDoc /\ texts' = [texts EXCEPT ![d].pending = NoDoc]
  <2>1. texts[d] \in SentText /\ texts'[d] = [texts[d] EXCEPT !.pending = NoDoc]
        /\ \A e \in Doc : e # d => texts'[e] = texts[e]
    BY <1>2, TextFields DEF Known
  <2>2. /\ texts'[d] \in SentText /\ texts'[d].text = texts[d].text /\ texts'[d].version = texts[d].version
        /\ texts'[d].serial = texts[d].serial /\ texts'[d].reopened = texts[d].reopened
        /\ texts'[d].pending = NoDoc
    BY <2>1 DEF SentText
  <2> QED
    BY <1>2, <2>1, <2>2 DEF Known
<1>3. texts' = IF texts[d] # NoDoc /\ texts[d].version = awaited[h].version
                 THEN [texts EXCEPT ![d].pending = NoDoc] ELSE texts
  BY DEF WaitSettles, Known
<1> QED
  BY <1>1, <1>2, <1>3, Zenon

\* A write whose hook is cancelled stays as it is, with the task for its owner.
LEMMA CancelledWrite ==
  ASSUME AllTypes, NEW h \in Hook, HookCancelled(h), NEW d \in Doc
  PROVE  /\ write'[d] = NoDoc <=> write[d] = NoDoc
         /\ write[d] # NoDoc => /\ write'[d].kind = write[d].kind /\ write'[d].version = write[d].version
                                /\ write'[d].text = write[d].text /\ write'[d].before = write[d].before
                                /\ write'[d].by = IF write[d].by = h THEN ATask ELSE write[d].by
<1> USE DocumentsAssumption
<1> DEFINE mine == {e \in Doc : write[e] # NoDoc /\ write[e].by = h}
<1>1. write' = [e \in Doc |-> IF e \in mine THEN [write[e] EXCEPT !.by = ATask] ELSE write[e]]
  BY DEF HookCancelled
<1>2. CASE d \in mine
  <2>1. write[d] \in Notification /\ write'[d] = [write[d] EXCEPT !.by = ATask]
    BY <1>1, <1>2, NoteFields
  <2>2. /\ write'[d] \in Notification /\ write'[d].kind = write[d].kind /\ write'[d].by = ATask
        /\ write'[d].version = write[d].version /\ write'[d].text = write[d].text /\ write'[d].before = write[d].before
    BY <2>1 DEF Notification
  <2> QED
    BY <1>2, <2>2
<1>3. CASE d \notin mine
  BY <1>1, <1>3
<1> QED
  BY <1>2, <1>3

\* The notification of a text that is about to be sent.
LEMMA SendsNote ==
  ASSUME AllTypes, NEW h \in Hook, HookSends(h)
  PROVE  /\ hook[h] = "send" /\ doc[h] \in Doc /\ hook' = [hook EXCEPT ![h] = "sending"]
         /\ write'[doc[h]] # NoDoc /\ write'[doc[h]].by = h /\ write'[doc[h]].text = read[h]
         /\ write'[doc[h]].version = (IF openSet # h /\ Known(doc[h]) THEN texts[doc[h]].version + 1 ELSE 1)
         /\ write'[doc[h]].kind = (IF write'[doc[h]].version > 1 /\ ChangeSync THEN "change" ELSE "open")
         /\ write'[doc[h]].before = published[doc[h]].count
         /\ \A e \in Doc : e # doc[h] => write'[e] = write[e]
         /\ before' = [before EXCEPT ![h] = published[doc[h]].count] /\ sends < MaxSends
<1> USE DocumentsAssumption
<1> DEFINE d == doc[h]
           version == IF openSet # h /\ Known(d) THEN texts[d].version + 1 ELSE 1
           note == [kind |-> IF version > 1 /\ ChangeSync THEN "change" ELSE "open",
                    by |-> h, version |-> version, text |-> read[h], before |-> published[d].count]
<1>1. hook[h] = "send" /\ hook' = [hook EXCEPT ![h] = "sending"] /\ write' = [write EXCEPT ![d] = note]
      /\ before' = [before EXCEPT ![h] = published[d].count] /\ sends < MaxSends
  BY DEF HookSends, Steps
<1>2. d \in Doc
  BY <1>1 DEF AllTypes, FileTypes
<1>3. version \in Nat /\ published[d].count \in Nat /\ read[h] \in Nat
  BY <1>2, TextFields DEF AllTypes, FileTypes, PipeTypes
<1>4. note \in Notification
  BY <1>3 DEF Notification
<1>5. note # NoDoc /\ note.by = h /\ note.text = read[h] /\ note.version = version
      /\ note.kind = (IF version > 1 /\ ChangeSync THEN "change" ELSE "open") /\ note.before = published[d].count
  BY <1>4
<1> HIDE DEF note
<1>6. write'[d] = note /\ \A e \in Doc : e # d => write'[e] = write[e]
  BY <1>1, <1>2, NoteFields
<1> HIDE DEF version
<1>7. /\ write'[d] # NoDoc /\ write'[d].by = h /\ write'[d].text = read[h] /\ write'[d].version = version
      /\ write'[d].kind = (IF version > 1 /\ ChangeSync THEN "change" ELSE "open")
      /\ write'[d].before = published[d].count
  BY <1>5, <1>6
<1> QED
  BY <1>1, <1>2, <1>6, <1>7 DEF version

LEMMA ClosesNote ==
  ASSUME AllTypes, NEW h \in Hook, NEW v \in Doc, Closes(h, v)
  PROVE  /\ write'[v] # NoDoc /\ write'[v].by = h /\ write'[v].kind = "close" /\ write'[v].before = 0
         /\ \A e \in Doc : e # v => write'[e] = write[e]
<1> USE DocumentsAssumption
<1> DEFINE note == [kind |-> "close", by |-> h, version |-> 0, text |-> 0, before |-> 0]
<1>1. note \in Notification
  BY DEF Notification
<1>2. note # NoDoc /\ note.by = h /\ note.kind = "close" /\ note.before = 0
  BY <1>1
<1> HIDE DEF note
<1>3. write' = [write EXCEPT ![v] = note]
  BY DEF Closes, note
<1> QED
  BY <1>2, <1>3, NoteFields

-----------------------------------------------------------------------------
(* The open set.                                                           *)
\* The open set: whoever holds it places a file that is not open, and what is closed is open.
LEMMA PlaceStep ==
  ASSUME AllTypes, GateInv, PlaceInv, RecordInv, LruInv, [DocNext]_docVars PROVE PlaceInv'
<1> USE DocumentsAssumption DEF PlaceInv, Steps
<1>t. /\ hook \in [Hook -> Holding \cup {"idle", "gate", "asked"}] /\ doc \in [Hook -> Doc \cup {NoDoc}]
      /\ openSet \in Hook \cup {NoDoc}
      /\ \A h \in Hook : hook[h] # "idle" => doc[h] \in Doc
  BY DEF AllTypes, FileTypes
<1>h. \A h \in Hook : hook[h] \in {"read", "place", "evict", "close", "send", "sending"} => Holder(doc[h]) = h
  BY DEF GateInv, Holding
<1>o. openSet # NoDoc => Holder(doc[openSet]) = openSet /\ doc[openSet] \in Doc
  BY <1>t, <1>h
<1>w. \A d \in Doc : write[d] # NoDoc => Holder(d) = write[d].by
  BY DEF GateInv
<1>1. ASSUME NEW h \in Hook, HookBegins(h) \/ HookEnters(h) \/ HookEnds(h) PROVE PlaceInv'
  <2>1. /\ hook[h] \in {"idle", "gate", "asked"} /\ \E p \in {"idle", "gate", "read"} : hook' = [hook EXCEPT ![h] = p]
        /\ UNCHANGED <<openSet, texts, write>> /\ \A k \in Hook : k # h => doc'[k] = doc[k]
    BY <1>1, <1>t DEF HookBegins, HookEnters, HookEnds, Leaves, gateVars, pipeVars, fileVars
  <2> QED
    BY <1>t, <2>1 DEF Known, Closing, Sending
<1>2. ASSUME NEW h \in Hook, HookReads(h) PROVE PlaceInv'
  <2>1. /\ hook[h] = "read" /\ UNCHANGED <<openSet, texts, write, doc>>
        /\ \/ hook' = [hook EXCEPT ![h] = "send"] /\ Known(doc[h])
           \/ hook' = [hook EXCEPT ![h] = "place"] /\ ~Known(doc[h])
           \/ \E p \in {"watch", "asked"} : hook' = [hook EXCEPT ![h] = p]
    BY <1>2 DEF HookReads, pipeVars, fileVars
  <2> QED
    BY <1>t, <2>1 DEF Known, Closing, Sending
<1>3. ASSUME NEW h \in Hook, HookPlaces(h) PROVE PlaceInv'
  <2>1. /\ hook[h] = "place" /\ hook' = [hook EXCEPT ![h] = "evict"] /\ openSet = NoDoc /\ openSet' = h
        /\ UNCHANGED <<texts, write, doc>>
    BY <1>3 DEF HookPlaces, pipeVars, fileVars
  <2> QED
    BY <1>t, <2>1 DEF Known, Closing, Sending
<1>4. ASSUME NEW h \in Hook, HasRoom(h) \/ FindsNone(h) PROVE PlaceInv'
  <2>1. /\ hook[h] = "evict" /\ hook' = [hook EXCEPT ![h] = "send"] /\ UNCHANGED <<openSet, texts, write, doc>>
    BY <1>4 DEF HasRoom, FindsNone, pipeVars, fileVars, gateVars
  <2> QED
    BY <1>t, <2>1 DEF Known, Closing, Sending
<1>5. ASSUME NEW h \in Hook, Evicts(h) PROVE PlaceInv'
  <2>1. PICK v \in Doc : In(v, lru) /\ Holder(v) = NoDoc /\ Closes(h, v)
    BY <1>5, ClosesGate
  <2>2. hook[h] = "evict" /\ hook' = [hook EXCEPT ![h] = "close"] /\ UNCHANGED <<openSet, texts, doc>> /\ Known(v)
    BY <1>5, <2>1 DEF Evicts, Closes, fileVars, LruInv
  <2>3. /\ write'[v] # NoDoc /\ write'[v].by = h /\ write'[v].kind = "close" /\ write'[v].before = 0
        /\ \A e \in Doc : e # v => write'[e] = write[e]
    BY <2>1, ClosesNote
  <2> QED
    BY <1>t, <2>2, <2>3 DEF Known, Closing, Sending
<1>6. ASSUME NEW h \in Hook, HookSends(h) PROVE PlaceInv'
  <2>1. UNCHANGED <<openSet, texts, doc>>
    BY <1>6 DEF HookSends, gateVars, fileVars
  <2> QED
    BY <1>6, <1>t, <2>1, SendsNote DEF Known, Closing, Sending
<1>7. ASSUME NEW h \in Hook, WaitRegisters(h) \/ WaitLooks(h) \/ WaitSleeps(h) \/ WaitWakes(h) PROVE PlaceInv'
  <2>1. hook[h] \in Waiting /\ (\E p \in Waiting : hook' = [hook EXCEPT ![h] = p]) /\ UNCHANGED <<openSet, texts, write, doc>>
    BY <1>7 DEF WaitRegisters, WaitLooks, WaitSleeps, WaitWakes, Waiting, gateVars, pipeVars, fileVars
  <2> QED
    BY <1>t, <2>1 DEF Known, Closing, Sending, Waiting
<1>8. ASSUME NEW h \in Hook, WaitSettles(h) PROVE PlaceInv'
  <2>1. hook[h] \in Waiting /\ hook' = [hook EXCEPT ![h] = "asked"] /\ UNCHANGED <<openSet, write, doc>>
    BY <1>8 DEF WaitSettles, Waiting, pipeVars
  <2>2. doc[h] \in Doc
    BY <1>t, <2>1 DEF Waiting
  <2>3. \A d \in Doc : (Known(d)' <=> Known(d)) /\ (Known(d) => texts'[d].version = texts[d].version)
    BY <1>8, <2>2, SettledRecord
  <2> QED
    BY <1>t, <2>1, <2>3 DEF Closing, Sending, Waiting
<1>9. ASSUME NEW h \in Hook, HookCancelled(h) PROVE PlaceInv'
  <2>1. /\ hook' = [hook EXCEPT ![h] = "idle"] /\ doc' = [doc EXCEPT ![h] = NoDoc] /\ texts' = texts
        /\ openSet' = IF openSet = h THEN NoDoc ELSE openSet
    BY <1>9 DEF HookCancelled, Leaves, fileVars
  <2>2. \A d \in Doc : /\ write'[d] = NoDoc <=> write[d] = NoDoc
                       /\ write[d] # NoDoc => write'[d].kind = write[d].kind /\ write'[d].version = write[d].version
    BY <1>9, CancelledWrite
  <2> QED
    BY <1>t, <2>1, <2>2 DEF Known, Closing, Sending
<1>10. ASSUME NEW d \in Doc, SendWritten(d) PROVE PlaceInv'
  <2>1. /\ Sending(d) /\ write'[d] = NoDoc
        /\ \A e \in Doc : e # d => write'[e] = write[e] /\ texts'[e] = texts[e]
        /\ Known(d)'
    BY <1>10, SentRecord
  <2>2. write[d].by \in Hook \cup {ATask} /\ Holder(d) = write[d].by
    BY <2>1, <1>w, NoteFields DEF Sending
  <2>3. doc' = doc
    BY <1>10 DEF SendWritten
  <2>4. \A h \in Hook : hook[h] \in {"read", "place", "evict", "close", "send", "sending"} /\ doc[h] = d => h = write[d].by
    BY <1>h, <2>2
  <2>5. CASE write[d].by = ATask
    <3>1. UNCHANGED <<hook, openSet>>
      BY <1>10, <2>5 DEF SendWritten
    <3> QED
      BY <1>t, <1>o, <2>1, <2>2, <2>3, <2>4, <2>5, <3>1 DEF Known, Closing, Sending
  <2>6. CASE write[d].by # ATask
    <3>1. hook' = [hook EXCEPT ![write[d].by] = "watch"] /\ openSet' = (IF openSet = write[d].by THEN NoDoc ELSE openSet)
      BY <1>10, <2>6 DEF SendWritten
    <3>2. hook[write[d].by] = "sending" /\ doc[write[d].by] = d
      BY <2>1, <2>2, <2>6 DEF GateInv
    <3> QED
      BY <1>t, <1>o, <2>1, <2>2, <2>3, <2>4, <2>6, <3>1, <3>2 DEF Known, Closing, Sending
  <2> QED
    BY <2>5, <2>6
<1>11. ASSUME NEW d \in Doc, CloseWritten(d) PROVE PlaceInv'
  <2>1. /\ Closing(d) /\ write'[d] = NoDoc /\ texts'[d] = NoDoc
        /\ \A e \in Doc : e # d => write'[e] = write[e] /\ texts'[e] = texts[e]
    BY <1>11, ClosedRecord
  <2>2. write[d].by \in Hook \cup {ATask} /\ Holder(d) = write[d].by /\ Known(d)
    BY <2>1, <1>w, NoteFields DEF Closing
  <2>3. UNCHANGED <<doc, openSet>>
    BY <1>11 DEF CloseWritten
  <2>4. \A h \in Hook : write[d].by = h => hook[h] = "close" /\ doc[h] # d
    BY <2>1 DEF GateInv
  <2>5. \A h \in Hook : hook[h] \in {"read", "place", "evict", "close", "send", "sending"} => doc[h] # d
    BY <1>h, <2>2, <2>4
  <2>6. CASE write[d].by = ATask
    <3>1. hook' = hook
      BY <1>11, <2>6 DEF CloseWritten
    <3> QED
      BY <1>t, <1>o, <2>1, <2>2, <2>3, <2>5, <3>1 DEF Known, Closing, Sending
  <2>7. CASE write[d].by # ATask
    <3>1. hook' = [hook EXCEPT ![write[d].by] = "evict"]
      BY <1>11, <2>7 DEF CloseWritten
    <3> QED
      BY <1>t, <1>o, <2>1, <2>2, <2>3, <2>4, <2>5, <2>7, <3>1 DEF Known, Closing, Sending
  <2> QED
    BY <2>6, <2>7
<1>12. ASSUME UNCHANGED <<hook, doc, openSet, texts, write>> PROVE PlaceInv'
  BY <1>12 DEF Known, Closing, Sending
<1>13. ASSUME NEW d \in Doc, DocEdit(d) PROVE UNCHANGED <<hook, doc, openSet, texts, write>>
  BY <1>13 DEF DocEdit, hookVars, gateVars, pipeVars, fileVars
<1>14. ServerTakesIn \/ NotesPublication \/ UNCHANGED docVars => UNCHANGED <<hook, doc, openSet, texts, write>>
  BY DEF ServerTakesIn, NotesPublication, docVars, hookVars, gateVars, pipeVars, fileVars
<1> QED
  BY <1>1, <1>2, <1>3, <1>4, <1>5, <1>6, <1>7, <1>8, <1>9, <1>10, <1>11, <1>12, <1>13, <1>14 DEF DocNext, HookStep

-----------------------------------------------------------------------------
(* Records and counts.                                                     *)
\* The record and the pipe agree, whoever makes the write.
LEMMA RecordStep ==
  ASSUME AllTypes, GateInv, PlaceInv, RecordInv, [DocNext]_docVars PROVE RecordInv'
<1> USE DocumentsAssumption DEF RecordInv, Open
<1>t. \A h \in Hook : hook[h] # "idle" => doc[h] \in Doc
  BY DEF AllTypes, FileTypes
<1>1. ASSUME NEW d \in Doc, SendWritten(d) PROVE RecordInv'
  <2>1. Sending(d)
    BY <1>1, SentRecord
  <2>2. write[d].version > 0
    BY <2>1, TextFields DEF PlaceInv
  <2> QED
    BY <1>1, <2>2, SentRecord DEF Known
<1>2. ASSUME NEW d \in Doc, CloseWritten(d) PROVE RecordInv'
  BY <1>2, ClosedRecord DEF Known
<1>3. ASSUME NEW h \in Hook, WaitSettles(h) PROVE RecordInv'
  <2>1. doc[h] \in Doc /\ piped' = piped
    BY <1>3, <1>t DEF WaitSettles, pipeVars
  <2> QED
    BY <1>3, <2>1, SettledRecord
<1>4. ASSUME UNCHANGED <<texts, piped>> PROVE RecordInv'
  BY <1>4 DEF Known
<1>5. ASSUME NEW h \in Hook, HookStep(h), ~WaitSettles(h) PROVE UNCHANGED <<texts, piped>>
  BY <1>5 DEF HookStep, HookBegins, HookEnters, HookReads, HookPlaces, HasRoom, Evicts, Closes, FindsNone, HookSends,
     WaitRegisters, WaitLooks, WaitSleeps, WaitWakes, HookEnds, HookCancelled, fileVars, pipeVars
<1>6. ASSUME NEW d \in Doc, DocEdit(d) PROVE UNCHANGED <<texts, piped>>
  BY <1>6 DEF DocEdit, fileVars, pipeVars
<1>7. ServerTakesIn \/ NotesPublication \/ UNCHANGED docVars => UNCHANGED <<texts, piped>>
  BY DEF ServerTakesIn, NotesPublication, docVars, fileVars, pipeVars
<1> QED
  BY <1>1, <1>2, <1>3, <1>4, <1>5, <1>6, <1>7 DEF DocNext

\* Versions, serials and readings stay within the number of sends.
LEMMA CountStep ==
  ASSUME AllTypes, GateInv, PlaceInv, RecordInv, CountInv, [DocNext]_docVars PROVE CountInv'
<1> USE DocumentsAssumption DEF CountInv, Open
<1>t. /\ sends \in Nat /\ Len(inFlight) \in Nat /\ Len(news) \in Nat
      /\ \A d \in Doc : published[d].count \in Nat
      /\ \A h \in Hook : hook[h] # "idle" => doc[h] \in Doc
  BY LenProperties DEF AllTypes, FileTypes, PipeTypes, SerialInv
<1>1. ASSUME NEW d \in Doc, SendWritten(d) PROVE CountInv'
  <2>1. UNCHANGED <<published, news>> /\ Len(inFlight') = Len(inFlight) + 1
    <3>1. \E m : inFlight' = Append(inFlight, m)
      BY <1>1 DEF SendWritten, Pipes
    <3> QED
      BY <1>1, <3>1 DEF SendWritten, newsVars, AllTypes, SerialInv
  <2>2. Sending(d) /\ write[d].version <= sends + 1
    BY <1>1, <1>t, SentRecord, TextFields DEF PlaceInv
  <2>3. write[d].version \in Nat /\ write[d].before \in Nat /\ write[d].before <= sends
    BY <2>2, NoteFields DEF Sending
  <2>4. sends' = sends + 1 /\ sends < MaxSends
    BY <1>1, SentRecord
  <2>5. \A e \in Doc : published'[e].count + Len(news') + Len(inFlight') <= sends'
    BY <1>t, <2>1, <2>4
  <2>6. \A e \in Doc : write'[e] # NoDoc => write'[e].before <= sends'
    BY <1>1, <1>t, <2>4, SentRecord, NoteFields
  <2>7. ASSUME NEW e \in Doc, Known(e)'
        PROVE  /\ texts'[e].version <= sends' /\ texts'[e].serial \in 1..sends'
               /\ texts'[e].pending # NoDoc => texts'[e].pending <= sends'
    <3>1. CASE e = d
      BY <1>1, <1>t, <2>2, <2>3, <2>4, <3>1, SentRecord
    <3>2. CASE e # d
      <4>1. texts'[e] = texts[e] /\ Known(e)
        BY <1>1, <2>7, <3>2, SentRecord DEF Known
      <4> QED
        BY <1>t, <2>4, <4>1, TextFields
    <3> QED
      BY <3>1, <3>2
  <2> QED
    BY <1>t, <2>4, <2>5, <2>6, <2>7
<1>2. ASSUME NEW d \in Doc, CloseWritten(d) PROVE CountInv'
  <2>1. UNCHANGED <<published, news>> /\ Len(inFlight') = Len(inFlight) + 1
    <3>1. \E m : inFlight' = Append(inFlight, m)
      BY <1>2 DEF CloseWritten, Pipes
    <3> QED
      BY <1>2, <3>1 DEF CloseWritten, newsVars, AllTypes, SerialInv
  <2>4. sends' = sends + 1 /\ sends < MaxSends
    BY <1>2, ClosedRecord
  <2>5. \A e \in Doc : published'[e].count + Len(news') + Len(inFlight') <= sends'
    BY <1>t, <2>1, <2>4
  <2>6. \A e \in Doc : write'[e] # NoDoc => write'[e].before <= sends'
    BY <1>2, <1>t, <2>4, ClosedRecord, NoteFields
  <2>7. ASSUME NEW e \in Doc, Known(e)'
        PROVE  /\ texts'[e].version <= sends' /\ texts'[e].serial \in 1..sends'
               /\ texts'[e].pending # NoDoc => texts'[e].pending <= sends'
    <3>1. texts'[e] = texts[e] /\ Known(e)
      BY <1>2, <2>7, ClosedRecord DEF Known
    <3> QED
      BY <1>t, <2>4, <3>1, TextFields
  <2> QED
    BY <1>t, <2>4, <2>5, <2>6, <2>7
<1>3. ASSUME NEW h \in Hook, WaitSettles(h) PROVE CountInv'
  <2>1. doc[h] \in Doc /\ UNCHANGED <<sends, inFlight, news, write, published>>
    BY <1>3, <1>t DEF WaitSettles, pipeVars
  <2> QED
    BY <1>3, <2>1, SettledRecord, TextFields
<1>4. ASSUME NEW h \in Hook, HookSends(h) PROVE CountInv'
  <2>1. UNCHANGED <<sends, inFlight, news, published, texts>>
    BY <1>4 DEF HookSends, newsVars, fileVars
  <2>2. doc[h] \in Doc /\ published[doc[h]].count <= sends
    BY <1>4, <1>t, SendsNote
  <2> QED
    BY <1>4, <2>1, <2>2, SendsNote DEF Known
<1>5. ASSUME NEW h \in Hook, HookCancelled(h) PROVE CountInv'
  <2>1. UNCHANGED <<sends, inFlight, news, published, texts>>
    BY <1>5 DEF HookCancelled, fileVars
  <2> QED
    BY <1>5, <2>1, CancelledWrite DEF Known
<1>6. ASSUME NEW h \in Hook, Evicts(h) PROVE CountInv'
  <2>1. PICK v \in Doc : Closes(h, v)
    BY <1>6, ClosesGate
  <2>2. UNCHANGED <<sends, inFlight, news, published, texts>>
    BY <2>1 DEF Closes, fileVars, newsVars
  <2> QED
    BY <1>t, <2>1, <2>2, ClosesNote DEF Known
<1>7. CASE ServerTakesIn
  <2>1. /\ Len(inFlight') = Len(inFlight) - 1 /\ Len(news') = Len(news) + 1
        /\ UNCHANGED <<sends, published, texts, write>>
    <3>1. inFlight # <<>> /\ inFlight' = Tail(inFlight) /\ \E m : news' = Append(news, m)
      BY <1>7 DEF ServerTakesIn
    <3>2. Len(inFlight') = Len(inFlight) - 1 /\ Len(news') = Len(news) + 1
      BY <3>1, HeadTailProperties DEF AllTypes, SerialInv
    <3> QED
      BY <1>7, <3>2 DEF ServerTakesIn, fileVars
  <2> QED
    BY <1>t, <2>1 DEF Known
<1>8. CASE NotesPublication
  <2> DEFINE m == Head(news)
  <2>1. m.doc \in Doc /\ Len(news') = Len(news) - 1
    <3>1. m \in News /\ Len(Tail(news)) = Len(news) - 1
      BY <1>8, HeadTailProperties DEF NotesPublication, AllTypes, SerialInv
    <3> QED
      BY <1>8, <3>1 DEF NotesPublication, News
  <2>2. /\ published' = [published EXCEPT ![m.doc] = [count |-> @.count + 1, version |-> m.version]]
        /\ UNCHANGED <<sends, inFlight, texts, write>>
    BY <1>8 DEF NotesPublication, pipeVars, fileVars
  <2> HIDE DEF m
  <2>3. \A d \in Doc : published'[d].count = IF d = m.doc THEN published[d].count + 1 ELSE published[d].count
    BY <2>1, <2>2 DEF AllTypes, PipeTypes
  <2>4. Len(news') = Len(news) - 1 /\ Len(inFlight') = Len(inFlight) /\ sends' = sends
    BY <2>1, <2>2
  <2>5. \A d \in Doc : published'[d].count + Len(news') + Len(inFlight') <= sends'
    BY <1>t, <2>3, <2>4
  <2> QED
    BY <2>2, <2>5 DEF Known
<1>9. ASSUME UNCHANGED <<sends, inFlight, news, published, texts, write>> PROVE CountInv'
  BY <1>9 DEF Known
<1>10. ASSUME NEW h \in Hook, HookStep(h), ~WaitSettles(h), ~HookSends(h), ~HookCancelled(h), ~Evicts(h)
       PROVE UNCHANGED <<sends, inFlight, news, published, texts, write>>
  BY <1>10 DEF HookStep, HookBegins, HookEnters, HookReads, HookPlaces, HasRoom, FindsNone,
     WaitRegisters, WaitLooks, WaitSleeps, WaitWakes, HookEnds, fileVars, pipeVars, newsVars
<1>11. ASSUME NEW d \in Doc, DocEdit(d) PROVE UNCHANGED <<sends, inFlight, news, published, texts, write>>
  BY <1>11 DEF DocEdit, fileVars, pipeVars, newsVars
<1>12. CASE UNCHANGED docVars
  BY <1>9, <1>12 DEF docVars, fileVars, pipeVars, newsVars
<1> QED
  BY <1>1, <1>2, <1>3, <1>4, <1>5, <1>6, <1>7, <1>8, <1>9, <1>10, <1>11, <1>12 DEF DocNext

-----------------------------------------------------------------------------
(* The texts.                                                              *)
\* No text goes backwards: from the disk to a hook, to a write, to the record, to the request.
LEMMA TextStep ==
  ASSUME AllTypes, AllTypes', GateInv, PlaceInv, RecordInv, TextInv, RequestInv, LruInv, [DocNext]_docVars
  PROVE  TextInv' /\ RequestInv'
<1> USE DocumentsAssumption DEF TextInv, RequestInv, Steps
<1>t. /\ hook \in [Hook -> Holding \cup {"idle", "gate", "asked"}] /\ doc \in [Hook -> Doc \cup {NoDoc}]
      /\ \A h \in Hook : hook[h] # "idle" => doc[h] \in Doc
      /\ onDisk \in [Doc -> Nat] /\ first \in [Hook -> Nat] /\ read \in [Hook -> Nat] /\ MaxText \in Nat
  BY DEF AllTypes, FileTypes
<1>h. \A h \in Hook : hook[h] \in Holding => Holder(doc[h]) = h
  BY DEF GateInv
<1>w. \A d \in Doc : write[d] # NoDoc => Holder(d) = write[d].by
  BY DEF GateInv
<1>1. ASSUME NEW h \in Hook, HookBegins(h) PROVE TextInv' /\ RequestInv'
  <2>1. PICK d \in Doc : doc' = [doc EXCEPT ![h] = d] /\ first' = [first EXCEPT ![h] = onDisk[d]]
    BY <1>1 DEF HookBegins
  <2>2. hook[h] = "idle" /\ hook' = [hook EXCEPT ![h] = "gate"] /\ UNCHANGED <<onDisk, texts, write, read>>
    BY <1>1 DEF HookBegins, fileVars, pipeVars
  <2> QED
    BY <1>t, <2>1, <2>2 DEF Known, Sending, Waiting
<1>2. ASSUME NEW h \in Hook, HookReads(h) PROVE TextInv' /\ RequestInv'
  <2> DEFINE d == doc[h]
  <2>1. /\ hook[h] = "read" /\ UNCHANGED <<onDisk, texts, write, doc, first>> /\ read' = [read EXCEPT ![h] = onDisk[d]]
        /\ \/ \E p \in {"send", "place"} : hook' = [hook EXCEPT ![h] = p]
           \/ /\ Known(d) /\ texts[d].text = onDisk[d]
              /\ \E p \in {"watch", "asked"} : hook' = [hook EXCEPT ![h] = p]
    BY <1>2 DEF HookReads, IsCurrent, fileVars, pipeVars, pastVars
  <2>2. d \in Doc /\ Holder(d) = h /\ ~Sending(d)
    BY <1>t, <1>h, <1>w, <2>1 DEF GateInv, Holding, Sending
  <2>3. \A k \in Hook : hook[k] \in Holding /\ doc[k] = d => k = h
    BY <1>h, <2>2
  <2>4. TextInv'
    BY <1>t, <2>1, <2>2 DEF Known, Sending, Waiting
  <2>5. RequestInv'
    BY <1>t, <2>1, <2>2, <2>3 DEF Known, Sending, Waiting, Holding
  <2> QED
    BY <2>4, <2>5
<1>3. ASSUME NEW h \in Hook, HookSends(h) PROVE TextInv' /\ RequestInv'
  <2>1. UNCHANGED <<onDisk, texts, doc, first, read>>
    BY <1>3 DEF HookSends, fileVars, pastVars
  <2>2. read[h] \in Nat /\ first[h] <= read[h] /\ read[h] <= onDisk[doc[h]]
    BY <1>3, <1>t, SendsNote
  <2>5. \A k \in Hook : hook[k] \in Holding /\ doc[k] = doc[h] => k = h
    BY <1>3, <1>h, SendsNote DEF Holding
  <2>6. hook' = [hook EXCEPT ![h] = "sending"] /\ doc[h] \in Doc /\ write'[doc[h]].text = read[h]
        /\ \A e \in Doc : e # doc[h] => write'[e] = write[e]
    BY <1>3, SendsNote
  <2>3. TextInv'
    BY <1>t, <2>1, <2>2, <2>5, <2>6, NoteFields DEF Known, Sending, Waiting, Holding
  <2>4. RequestInv'
    BY <1>3, <1>t, <2>1, <2>2, SendsNote, NoteFields DEF Known, Sending, Waiting
  <2> QED
    BY <2>3, <2>4
<1>4. ASSUME NEW h \in Hook, Evicts(h) PROVE TextInv' /\ RequestInv'
  <2>1. PICK v \in Doc : Closes(h, v) /\ Holder(v) = NoDoc
    BY <1>4, ClosesGate
  <2>2. hook[h] = "evict" /\ hook' = [hook EXCEPT ![h] = "close"] /\ UNCHANGED <<onDisk, texts, doc, first, read>>
    BY <1>4, <2>1 DEF Evicts, Closes, fileVars, pastVars
  <2>3. \A k \in Hook : hook[k] \in Holding => doc[k] # v
    BY <1>h, <2>1
  <2>4. /\ write'[v] # NoDoc /\ write'[v].kind = "close" /\ \A e \in Doc : e # v => write'[e] = write[e]
    BY <2>1, ClosesNote
  <2>5. TextInv'
    BY <1>t, <2>2, <2>3, <2>4 DEF Known, Sending, Waiting, Holding
  <2>6. RequestInv'
    BY <1>t, <2>2, <2>3, <2>4 DEF Known, Sending
  <2> QED
    BY <2>5, <2>6
<1>5. ASSUME NEW h \in Hook, WaitSettles(h) PROVE TextInv' /\ RequestInv'
  <2>1. hook[h] \in Waiting /\ hook' = [hook EXCEPT ![h] = "asked"] /\ UNCHANGED <<onDisk, doc, first, read, write>>
    BY <1>5 DEF WaitSettles, Waiting, pastVars, pipeVars
  <2>2. doc[h] \in Doc /\ Holder(doc[h]) = h /\ ~Sending(doc[h])
    BY <1>t, <1>h, <1>w, <2>1 DEF GateInv, Holding, Sending, Waiting
  <2>3. \A k \in Hook : hook[k] \in Holding /\ doc[k] = doc[h] => k = h
    BY <1>h, <2>2
  <2>4. TextInv'
    BY <1>5, <1>t, <2>1, <2>2, SettledRecord DEF Sending, Waiting
  <2>5. RequestInv'
    BY <1>5, <1>t, <2>1, <2>2, <2>3, SettledRecord DEF Sending, Waiting, Holding
  <2> QED
    BY <2>4, <2>5
<1>6. ASSUME NEW h \in Hook, HookEnds(h) \/ HookCancelled(h) PROVE TextInv' /\ RequestInv'
  <2>1. /\ hook' = [hook EXCEPT ![h] = "idle"] /\ doc' = [doc EXCEPT ![h] = NoDoc] /\ texts' = texts
        /\ read' = [read EXCEPT ![h] = 0] /\ first' = [first EXCEPT ![h] = 0] /\ onDisk' = onDisk
    BY <1>6 DEF HookEnds, HookCancelled, Leaves, fileVars
  <2>2. \A d \in Doc : (Sending(d)' <=> Sending(d)) /\ (Sending(d) => write'[d].text = write[d].text)
    <3>1. CASE HookEnds(h)
      BY <3>1 DEF HookEnds, pipeVars, Sending
    <3>2. CASE HookCancelled(h)
      BY <3>2, CancelledWrite DEF Sending
    <3> QED
      BY <1>6, <3>1, <3>2
  <2>5. \A k \in Hook : hook[k] = "sending" => Sending(doc[k])
    BY DEF GateInv
  <2>3. TextInv'
    BY <1>t, <2>1, <2>2, <2>5 DEF Known, Waiting
  <2>4. RequestInv'
    BY <1>t, <2>1, <2>2 DEF Known
  <2> QED
    BY <2>3, <2>4
<1>7. ASSUME NEW d \in Doc, SendWritten(d) PROVE TextInv' /\ RequestInv'
  <2> DEFINE by == write[d].by
  <2>1. UNCHANGED <<onDisk, doc, first, read>>
    BY <1>7 DEF SendWritten, pastVars
  <2>2. /\ Sending(d) /\ write'[d] = NoDoc
        /\ \A e \in Doc : e # d => write'[e] = write[e] /\ texts'[e] = texts[e]
        /\ Known(d)' /\ texts'[d].text = write[d].text
    BY <1>7, SentRecord
  <2>3. by \in Hook \cup {ATask} /\ Holder(d) = by /\ write[d].text \in Nat
    BY <2>2, <1>w, NoteFields DEF Sending
  <2>4. \A k \in Hook : hook[k] \in Holding /\ doc[k] = d => k = by
    BY <1>h, <2>3
  <2>5. CASE by = ATask
    <3>1. hook' = hook
      BY <1>7, <2>5 DEF SendWritten
    <3>2. \A k \in Hook : hook[k] \in Holding => doc[k] # d
      BY <2>4, <2>5
    <3>3. TextInv'
      BY <1>t, <2>1, <2>2, <2>3, <3>1, <3>2 DEF Known, Sending, Holding, Waiting
    <3>4. RequestInv'
      BY <1>t, <2>1, <2>2, <2>3, <3>1 DEF Known, Sending
    <3> QED
      BY <3>3, <3>4
  <2>6. CASE by # ATask
    <3>1. hook' = [hook EXCEPT ![by] = "watch"] /\ by \in Hook
      BY <1>7, <2>3, <2>6 DEF SendWritten
    <3>2. hook[by] = "sending" /\ doc[by] = d /\ write[d].text = read[by] /\ read[by] >= first[by]
      BY <1>t, <2>2, <3>1 DEF GateInv
    <3>3. TextInv'
      BY <1>t, <2>1, <2>2, <2>3, <2>4, <3>1, <3>2 DEF Known, Sending, Holding, Waiting
    <3>4. RequestInv'
      BY <1>t, <2>1, <2>2, <2>3, <2>4, <3>1, <3>2 DEF Known, Sending, Holding
    <3> QED
      BY <3>3, <3>4
  <2> QED
    BY <2>5, <2>6
<1>8. ASSUME NEW d \in Doc, CloseWritten(d) PROVE TextInv' /\ RequestInv'
  <2> DEFINE by == write[d].by
  <2>1. UNCHANGED <<onDisk, doc, first, read>>
    BY <1>8 DEF CloseWritten, pastVars
  <2>2. /\ Closing(d) /\ write'[d] = NoDoc /\ ~Known(d)'
        /\ \A e \in Doc : e # d => write'[e] = write[e] /\ texts'[e] = texts[e]
    BY <1>8, ClosedRecord DEF Known
  <2>3. by \in Hook \cup {ATask} /\ Holder(d) = by /\ \A k \in Hook : by = k => hook[k] = "close" /\ doc[k] # d
    BY <2>2, <1>w, NoteFields DEF Closing, GateInv
  <2>4. \A k \in Hook : hook[k] \in Holding => doc[k] # d
    BY <1>h, <2>3
  <2>5. hook' = hook \/ (by \in Hook /\ hook' = [hook EXCEPT ![by] = "evict"])
    <3>1. CASE by = ATask
      BY <1>8, <3>1 DEF CloseWritten
    <3>2. CASE by # ATask
      BY <1>8, <2>3, <3>2 DEF CloseWritten
    <3> QED
      BY <3>1, <3>2
  <2>6. TextInv'
    BY <1>t, <2>1, <2>2, <2>3, <2>4, <2>5 DEF Known, Sending, Holding, Waiting
  <2>7. RequestInv'
    BY <1>t, <2>1, <2>2, <2>3, <2>4, <2>5 DEF Known, Sending, Holding
  <2> QED
    BY <2>6, <2>7
<1>9. ASSUME NEW d \in Doc, DocEdit(d) PROVE TextInv' /\ RequestInv'
  <2>1. /\ onDisk[d] < MaxText /\ onDisk' = [onDisk EXCEPT ![d] = @ + 1]
        /\ UNCHANGED <<texts, hook, doc, first, read, write>>
    BY <1>9 DEF DocEdit, fileVars, hookVars, pipeVars, pastVars
  <2>2. \A e \in Doc : onDisk'[e] >= onDisk[e] /\ onDisk'[e] \in Nat /\ onDisk'[e] <= MaxText
    BY <1>t, <2>1
  <2>3. RequestInv'
    BY <2>1 DEF Known, Sending
  <2>4. TextInv'
    BY <1>t, <2>1, <2>2, TextFields, NoteFields DEF Known, Sending, Waiting
  <2> QED
    BY <2>3, <2>4
<1>10. ASSUME NEW h \in Hook, HookEnters(h) \/ HookPlaces(h) \/ HasRoom(h) \/ FindsNone(h) \/ WaitRegisters(h)
                \/ WaitLooks(h) \/ WaitSleeps(h) \/ WaitWakes(h) PROVE TextInv' /\ RequestInv'
  <2>1. /\ UNCHANGED <<onDisk, texts, doc, first, read, write>>
        /\ \/ hook[h] = "gate" /\ hook' = [hook EXCEPT ![h] = "read"]
           \/ hook[h] \in {"place", "evict"} /\ \E p \in {"evict", "send"} : hook' = [hook EXCEPT ![h] = p]
           \/ hook[h] \in Waiting /\ \E p \in Waiting : hook' = [hook EXCEPT ![h] = p]
    BY <1>10 DEF HookEnters, HookPlaces, HasRoom, FindsNone, WaitRegisters, WaitLooks, WaitSleeps, WaitWakes, Waiting,
       fileVars, pipeVars, pastVars
  <2>2. TextInv'
    BY <1>t, <2>1 DEF Known, Sending, Waiting
  <2>3. RequestInv'
    BY <1>t, <2>1 DEF Known, Sending, Waiting
  <2> QED
    BY <2>2, <2>3
<1>11. ServerTakesIn \/ NotesPublication \/ UNCHANGED docVars => TextInv' /\ RequestInv'
  <2>1. ServerTakesIn \/ NotesPublication \/ UNCHANGED docVars =>
          UNCHANGED <<onDisk, texts, hook, doc, first, read, write>>
    BY DEF ServerTakesIn, NotesPublication, docVars, fileVars, hookVars, pipeVars, pastVars
  <2> QED
    BY <2>1 DEF Known, Sending
<1> QED
  BY <1>1, <1>2, <1>3, <1>4, <1>5, <1>6, <1>7, <1>8, <1>9, <1>10, <1>11 DEF DocNext, HookStep

-----------------------------------------------------------------------------
(* The waits.                                                              *)
\* A wait that a step leaves alone, and whose text stays as it is.
LEMMA Unmoved ==
  ASSUME AllTypes, NEW h \in Hook, AwaitsLast(h), WakesUp(h),
         hook'[h] = hook[h], doc'[h] = doc[h], before'[h] = before[h], awaited'[h] = awaited[h],
         h \in armed \cup awake => h \in armed' \cup awake', h \in awake => h \in awake',
         hook[h] \in Waiting =>
           /\ Known(doc[h]) => /\ texts'[doc[h]] # NoDoc /\ texts'[doc[h]].version = texts[doc[h]].version
                               /\ texts'[doc[h]].serial = texts[doc[h]].serial
                               /\ texts'[doc[h]].reopened = texts[doc[h]].reopened
           /\ published'[doc[h]] = published[doc[h]] \/ (h \in armed => h \in awake')
  PROVE  AwaitsLast(h)' /\ WakesUp(h)'
<1>1. AwaitsLast(h)'
  BY DEF AwaitsLast, Known
<1>2. WakesUp(h)'
  BY DEF WakesUp, Answers, Waiting
<1> QED
  BY <1>1, <1>2

\* A hook that waits awaits the last text of its file, and is registered or woken before it can miss its answer.
LEMMA AwaitStep ==
  ASSUME AllTypes, AllTypes', GateInv, PlaceInv, RecordInv, AwaitInv, [DocNext]_docVars
  PROVE  AwaitInv'
<1> USE DocumentsAssumption DEF Steps
<1>t. /\ hook \in [Hook -> Holding \cup {"idle", "gate", "asked"}] /\ doc \in [Hook -> Doc \cup {NoDoc}]
      /\ \A h \in Hook : hook[h] # "idle" => doc[h] \in Doc
      /\ awaited \in [Hook -> SentText \cup {NoDoc}] /\ before \in [Hook -> Nat]
      /\ published \in [Doc -> [count : Nat, version : Nat \cup {NoDoc}]] /\ armed \subseteq Hook /\ awake \subseteq Hook
  BY DEF AllTypes, FileTypes, PipeTypes
<1>h. \A h \in Hook : hook[h] \in Holding => Holder(doc[h]) = h
  BY DEF GateInv
<1>w. \A d \in Doc : write[d] # NoDoc => Holder(d) = write[d].by
  BY DEF GateInv
<1>i. \A h \in Hook : AwaitsLast(h) /\ WakesUp(h)
  BY DEF AwaitInv
\* A step of one hook that neither sends nor closes leaves the other waits alone.
<1>0. ASSUME NEW h \in Hook, HookStep(h), NEW k \in Hook, k # h PROVE AwaitsLast(k)' /\ WakesUp(k)'
  <2>1. /\ hook'[k] = hook[k] /\ doc'[k] = doc[k] /\ before'[k] = before[k] /\ awaited'[k] = awaited[k]
        /\ (k \in armed => k \in armed') /\ (k \in awake => k \in awake') /\ published' = published
    BY <1>t, <1>0 DEF HookStep, HookBegins, HookEnters, HookReads, HookPlaces, HasRoom, Evicts, Closes, FindsNone, HookSends,
       WaitRegisters, WaitLooks, WaitSleeps, WaitWakes, WaitSettles, HookEnds, HookCancelled, Leaves, hookVars, newsVars
  <2>2. hook[k] \in Waiting /\ Known(doc[k]) =>
          /\ texts'[doc[k]] # NoDoc /\ texts'[doc[k]].version = texts[doc[k]].version
          /\ texts'[doc[k]].serial = texts[doc[k]].serial /\ texts'[doc[k]].reopened = texts[doc[k]].reopened
    <3> SUFFICES ASSUME hook[k] \in Waiting, Known(doc[k])
                 PROVE  /\ texts'[doc[k]] # NoDoc /\ texts'[doc[k]].version = texts[doc[k]].version
                        /\ texts'[doc[k]].serial = texts[doc[k]].serial
                        /\ texts'[doc[k]].reopened = texts[doc[k]].reopened
      OBVIOUS
    <3>1. CASE WaitSettles(h)
      <4>1. doc[h] \in Doc
        BY <1>t, <3>1 DEF WaitSettles
      <4>2. doc[k] \in Doc
        BY <1>t DEF Waiting
      <4> QED
        BY <3>1, <4>1, <4>2, SettledRecord DEF Known
    <3>2. CASE ~WaitSettles(h)
      <4>1. texts' = texts
        BY <1>0, <3>2 DEF HookStep, HookBegins, HookEnters, HookReads, HookPlaces, HasRoom, Evicts, Closes, FindsNone,
           HookSends, WaitRegisters, WaitLooks, WaitSleeps, WaitWakes, HookEnds, HookCancelled, fileVars
      <4> QED
        BY <4>1 DEF Known
    <3> QED
      BY <3>1, <3>2
  <2> QED
    BY <1>i, <2>1, <2>2, Unmoved
<1>1. ASSUME NEW h \in Hook, HookStep(h) PROVE AwaitsLast(h)' /\ WakesUp(h)'
  <2>1. CASE HookReads(h)
    <3> DEFINE d == doc[h]
    <3>1. d \in Doc /\ texts' = texts /\ doc' = doc
      BY <1>t, <2>1 DEF HookReads, fileVars
    <3>2. CASE hook' = [hook EXCEPT ![h] = "watch"] /\ Known(d) /\ awaited' = [awaited EXCEPT ![h] = texts[d]]
      <4>1. hook'[h] = "watch" /\ awaited'[h] = texts[d]
        BY <1>t, <3>2
      <4> QED
        BY <3>1, <3>2, <4>1 DEF AwaitsLast, WakesUp, Known
    <3>3. CASE hook'[h] \notin Waiting
      BY <3>3 DEF AwaitsLast, WakesUp, Waiting
    <3> QED
      BY <1>t, <2>1, <3>2, <3>3 DEF HookReads, IsCurrent, Waiting
  <2>2. CASE WaitRegisters(h) \/ WaitLooks(h) \/ WaitSleeps(h) \/ WaitWakes(h)
    <3>1. /\ hook[h] \in Waiting /\ hook'[h] \in Waiting
          /\ UNCHANGED <<texts, doc, awaited, before, published>>
      BY <1>t, <2>2 DEF WaitRegisters, WaitLooks, WaitSleeps, WaitWakes, Waiting, fileVars, hookVars, newsVars
    <3>2. AwaitsLast(h)'
      BY <1>i, <3>1 DEF AwaitsLast, Known
    <3>3. CASE WaitRegisters(h)
      <4>1. hook'[h] = "look" /\ h \in armed'
        BY <1>t, <3>3 DEF WaitRegisters
      <4> QED
        BY <3>2, <4>1 DEF WakesUp
    <3>4. CASE WaitLooks(h)
      <4>1. /\ hook[h] = "look" /\ hook'[h] = (IF Answers(h) THEN "settle" ELSE "poll") /\ UNCHANGED <<armed, awake>>
        BY <1>t, <3>4 DEF WaitLooks, newsVars
      <4> QED
        BY <1>i, <3>1, <3>2, <4>1 DEF WakesUp, Answers
    <3>5. CASE WaitSleeps(h)
      <4>1. hook[h] = "poll" /\ hook'[h] = "sleep" /\ armed' = armed \cup {h} /\ awake' = awake
        BY <1>t, <3>5 DEF WaitSleeps
      <4> QED
        BY <1>i, <3>1, <3>2, <4>1 DEF WakesUp, Answers
    <3>6. CASE WaitWakes(h)
      <4>1. hook'[h] = "watch"
        BY <1>t, <3>6 DEF WaitWakes
      <4> QED
        BY <3>2, <4>1 DEF WakesUp
    <3> QED
      BY <2>2, <3>3, <3>4, <3>5, <3>6
  <2>3. ASSUME hook'[h] \notin Waiting PROVE AwaitsLast(h)' /\ WakesUp(h)'
    BY <2>3 DEF AwaitsLast, WakesUp, Waiting
  <2>4. HookStep(h) => HookReads(h) \/ WaitRegisters(h) \/ WaitLooks(h) \/ WaitSleeps(h) \/ WaitWakes(h)
                       \/ hook'[h] \notin Waiting
    BY <1>t DEF HookStep, HookBegins, HookEnters, HookPlaces, HasRoom, Evicts, Closes, FindsNone, HookSends,
       WaitSettles, HookEnds, HookCancelled, Leaves, Waiting
  <2> QED
    BY <1>1, <2>1, <2>2, <2>3, <2>4
<1>2. ASSUME NEW d \in Doc, SendWritten(d), NEW k \in Hook PROVE AwaitsLast(k)' /\ WakesUp(k)'
  <2>1. /\ Sending(d) /\ Known(d)' /\ \A e \in Doc : e # d => texts'[e] = texts[e]
    BY <1>2, SentRecord
  <2>2. write[d].by \in Hook \cup {ATask} /\ Holder(d) = write[d].by
    BY <1>w, <2>1, NoteFields DEF Sending
  <2>3. UNCHANGED <<doc, before, published, armed, awake>>
    BY <1>2 DEF SendWritten, newsVars
  <2>4. CASE k = write[d].by
    <3>1. hook'[k] = "watch" /\ awaited'[k] = texts'[d] /\ doc[k] = d
      <4>1. k # ATask /\ hook[k] = "sending" /\ doc[k] = d
        BY <2>1, <2>4 DEF GateInv
      <4>2. /\ hook' = [hook EXCEPT ![k] = "watch"]
            /\ \E r : awaited' = [awaited EXCEPT ![k] = r] /\ texts' = [texts EXCEPT ![d] = r]
        BY <1>2, <2>4, <4>1 DEF SendWritten
      <4> QED
        BY <1>t, <4>1, <4>2, TextFields
    <3> QED
      BY <2>1, <2>3, <3>1 DEF AwaitsLast, WakesUp, Known
  <2>5. CASE k # write[d].by
    <3>1. hook[k] \in Waiting => doc[k] # d
      BY <1>h, <2>2, <2>5 DEF Holding
    <3>2. hook'[k] = hook[k] /\ awaited'[k] = awaited[k]
      <4>1. CASE write[d].by = ATask
        BY <1>2, <4>1 DEF SendWritten
      <4>2. CASE write[d].by # ATask
        BY <1>t, <1>2, <2>2, <2>5, <4>2 DEF SendWritten
      <4> QED
        BY <4>1, <4>2
    <3>3. hook[k] \in Waiting => texts'[doc[k]] = texts[doc[k]]
      BY <1>t, <2>1, <3>1 DEF Waiting
    <3> QED
      BY <1>i, <2>3, <3>2, <3>3, Unmoved DEF Known
  <2> QED
    BY <2>4, <2>5
<1>3. ASSUME NEW d \in Doc, CloseWritten(d), NEW k \in Hook PROVE AwaitsLast(k)' /\ WakesUp(k)'
  <2>1. /\ Closing(d) /\ \A e \in Doc : e # d => texts'[e] = texts[e]
    BY <1>3, ClosedRecord
  <2>2. write[d].by \in Hook \cup {ATask} /\ Holder(d) = write[d].by
    BY <1>w, <2>1, NoteFields DEF Closing
  <2>3. UNCHANGED <<doc, before, awaited, published, armed, awake>>
    BY <1>3 DEF CloseWritten, newsVars
  <2>4. CASE k = write[d].by
    <3>1. hook'[k] = "evict"
      BY <1>t, <1>3, <2>4 DEF CloseWritten
    <3> QED
      BY <3>1 DEF AwaitsLast, WakesUp, Waiting
  <2>5. CASE k # write[d].by
    <3>1. hook[k] \in Waiting => doc[k] # d
      BY <1>h, <2>2, <2>5 DEF Holding
    <3>2. hook'[k] = hook[k]
      <4>1. CASE write[d].by = ATask
        BY <1>3, <4>1 DEF CloseWritten
      <4>2. CASE write[d].by # ATask
        BY <1>t, <1>3, <2>2, <2>5, <4>2 DEF CloseWritten
      <4> QED
        BY <4>1, <4>2
    <3>3. hook[k] \in Waiting => texts'[doc[k]] = texts[doc[k]]
      BY <1>t, <2>1, <3>1 DEF Waiting
    <3> QED
      BY <1>i, <2>3, <3>2, <3>3, Unmoved DEF Known
  <2> QED
    BY <2>4, <2>5
<1>4. ASSUME NotesPublication, NEW k \in Hook PROVE AwaitsLast(k)' /\ WakesUp(k)'
  <2>1. UNCHANGED <<hook, doc, before, awaited, texts>> /\ awake' = awake \cup armed
    BY <1>4 DEF NotesPublication, hookVars, fileVars
  <2> QED
    BY <1>i, <2>1, Unmoved DEF Known
<1>5. ASSUME UNCHANGED <<hook, doc, before, awaited, texts, published, armed, awake>>, NEW k \in Hook
      PROVE AwaitsLast(k)' /\ WakesUp(k)'
  BY <1>i, <1>5, Unmoved DEF Known
<1>6. ASSUME NEW d \in Doc, DocEdit(d) PROVE UNCHANGED <<hook, doc, before, awaited, texts, published, armed, awake>>
  BY <1>6 DEF DocEdit, fileVars, hookVars, newsVars
<1>7. ServerTakesIn \/ UNCHANGED docVars => UNCHANGED <<hook, doc, before, awaited, texts, published, armed, awake>>
  BY DEF ServerTakesIn, docVars, fileVars, hookVars, newsVars
<1> QED
  BY <1>0, <1>1, <1>2, <1>3, <1>4, <1>5, <1>6, <1>7 DEF DocNext, AwaitInv

-----------------------------------------------------------------------------
(* Closed files and versions.                                              *)
\* Only the writes change which texts are recorded, and what of them counts.
LEMMA TextsKept ==
  ASSUME AllTypes, [DocNext]_docVars, \A d \in Doc : ~SendWritten(d) /\ ~CloseWritten(d)
  PROVE  /\ closedDocs' = closedDocs /\ everClosed' = everClosed
         /\ \A d \in Doc : /\ Known(d)' <=> Known(d)
                           /\ Known(d) => /\ texts'[d].version = texts[d].version /\ texts'[d].serial = texts[d].serial
                                          /\ texts'[d].reopened = texts[d].reopened
<1> DEFINE Goal == /\ closedDocs' = closedDocs /\ everClosed' = everClosed
         /\ \A d \in Doc : /\ Known(d)' <=> Known(d)
                           /\ Known(d) => /\ texts'[d].version = texts[d].version /\ texts'[d].serial = texts[d].serial
                                          /\ texts'[d].reopened = texts[d].reopened
<1>t. \A h \in Hook : hook[h] # "idle" => doc[h] \in Doc
  BY DEF AllTypes, FileTypes
<1>1. UNCHANGED <<texts, closedDocs, everClosed>> => Goal
  BY DEF Known
<1>2. ASSUME NEW h \in Hook, WaitSettles(h) PROVE Goal
  <2>1. doc[h] \in Doc /\ UNCHANGED <<closedDocs, everClosed>>
    BY <1>2, <1>t DEF WaitSettles, pastVars
  <2> QED
    BY <1>2, <2>1, SettledRecord
<1>3. ASSUME NEW h \in Hook, HookStep(h), ~WaitSettles(h) PROVE UNCHANGED <<texts, closedDocs, everClosed>>
  BY <1>3 DEF HookStep, HookBegins, HookEnters, HookReads, HookPlaces, HasRoom, Evicts, Closes, FindsNone, HookSends,
     WaitRegisters, WaitLooks, WaitSleeps, WaitWakes, HookEnds, HookCancelled, fileVars, pastVars
<1>4. ASSUME NEW d \in Doc, DocEdit(d) PROVE UNCHANGED <<texts, closedDocs, everClosed>>
  BY <1>4 DEF DocEdit, fileVars, pastVars
<1>5. ServerTakesIn \/ NotesPublication \/ UNCHANGED docVars => UNCHANGED <<texts, closedDocs, everClosed>>
  BY DEF ServerTakesIn, NotesPublication, docVars, fileVars, pastVars
<1>6. Goal
  <2> HIDE DEF Goal
  <2> QED
    BY <1>1, <1>2, <1>3, <1>4, <1>5 DEF DocNext
<1> QED
  BY <1>6

\* A file that was closed is open again with a later version, or with a first one that is marked as reopened.
LEMMA ClosedStep ==
  ASSUME AllTypes, GateInv, PlaceInv, RecordInv, ClosedInv, [DocNext]_docVars PROVE ClosedInv'
<1> USE DEF ClosedInv, Open
<1>1. ASSUME NEW d \in Doc, SendWritten(d) PROVE ClosedInv'
  <2>1. /\ closedDocs' = closedDocs \ {d} /\ everClosed' = everClosed
    BY <1>1 DEF SendWritten, pastVars
  <2>2. Known(d) => write[d].version > 1
    BY <1>1, SentRecord, TextFields DEF PlaceInv, RecordInv
  <2>3. ~Known(d) /\ d \in everClosed => d \in closedDocs
    OBVIOUS
  <2>4. \A e \in Doc : e # d => texts'[e] = texts[e] /\ (Known(e)' <=> Known(e))
    BY <1>1, SentRecord DEF Known
  <2>5. Known(d)' /\ (texts'[d].version = 1 /\ d \in everClosed => texts'[d].reopened)
    <3>1. texts'[d].version = write[d].version /\ texts'[d].reopened = (write[d].version = 1 /\ d \in closedDocs) /\ Known(d)'
      BY <1>1, SentRecord, Zenon
    <3>2. write[d].version = 1 /\ d \in everClosed => d \in closedDocs
      BY <2>2, <2>3
    <3> QED
      BY <3>1, <3>2, Zenon
  <2>6. everClosed \subseteq Doc
    BY DEF AllTypes, FileTypes
  <2> QED
    BY <2>1, <2>4, <2>5, <2>6
<1>2. ASSUME NEW d \in Doc, CloseWritten(d) PROVE ClosedInv'
  <2>1. /\ closedDocs' = closedDocs \cup {d} /\ everClosed' = everClosed \cup {d}
    BY <1>2 DEF CloseWritten
  <2>2. ~Known(d)' /\ \A e \in Doc : e # d => texts'[e] = texts[e] /\ (Known(e)' <=> Known(e))
    BY <1>2, ClosedRecord DEF Known
  <2>6. everClosed \subseteq Doc
    BY DEF AllTypes, FileTypes
  <2> QED
    BY <2>1, <2>2, <2>6
<1>3. ASSUME \A d \in Doc : ~SendWritten(d) /\ ~CloseWritten(d) PROVE ClosedInv'
  BY <1>3, TextsKept DEF AllTypes, FileTypes
<1> QED
  BY <1>1, <1>2, <1>3

\* The fields of what is on its way to the server and back.
LEMMA NewsFields ==
  ASSUME AllTypes
  PROVE  /\ \A i \in 1..Len(inFlight) :
              inFlight[i].doc \in Doc /\ inFlight[i].version \in Nat /\ inFlight[i].serial \in Nat
         /\ \A i \in 1..Len(news) : news[i].doc \in Doc /\ news[i].version \in Nat \cup {NoDoc}
         /\ \A d \in Doc : published[d].count \in Nat /\ published[d].version \in Nat \cup {NoDoc}
         /\ sends \in Nat /\ taken \in Nat /\ Len(inFlight) \in Nat /\ Len(news) \in Nat
<1>1. inFlight \in Seq(Message) /\ news \in Seq(News)
  BY DEF AllTypes, SerialInv
<1>2. /\ \A i \in 1..Len(inFlight) : inFlight[i] \in Message
      /\ \A i \in 1..Len(news) : news[i] \in News
  BY <1>1, ElementOfSeq
<1>3. Len(inFlight) \in Nat /\ Len(news) \in Nat
  BY <1>1, LenProperties
<1>4. sends \in Nat /\ taken \in Nat /\ published \in [Doc -> [count : Nat, version : Nat \cup {NoDoc}]]
  BY DEF AllTypes, PipeTypes
<1>5. /\ \A m \in Message : m.doc \in Doc /\ m.version \in Nat /\ m.serial \in Nat
      /\ \A m \in News : m.doc \in Doc /\ m.version \in Nat \cup {NoDoc}
  BY DEF Message, News
<1>6. \A d \in Doc : published[d].count \in Nat /\ published[d].version \in Nat \cup {NoDoc}
  BY <1>4
<1> QED
  BY <1>2, <1>3, <1>4, <1>5, <1>6

\* Of a file that was never closed, no publication is ahead of its record: not one on its way, not one read.
LEMMA VersionStep ==
  ASSUME AllTypes, AllTypes', GateInv, PlaceInv, RecordInv, VersionInv, [DocNext]_docVars PROVE VersionInv'
<1> USE DocumentsAssumption
<1>t. \A h \in Hook : hook[h] # "idle" => doc[h] \in Doc
  BY DEF AllTypes, FileTypes
<1>i. \A d \in Doc \ everClosed : SentOf(d) /\ NewsOf(d) /\ HeardOf(d)
  BY DEF VersionInv
<1> SUFFICES \A d \in Doc \ everClosed' : SentOf(d)' /\ NewsOf(d)' /\ HeardOf(d)'
  BY DEF VersionInv
<1>q. inFlight \in Seq(Message) /\ news \in Seq(News)
  BY DEF AllTypes, SerialInv
<1>1. ASSUME NEW e \in Doc, SendWritten(e), NEW d \in Doc \ everClosed' PROVE SentOf(d)' /\ NewsOf(d)' /\ HeardOf(d)'
  <2>1. UNCHANGED <<news, published, taken, everClosed>>
    BY <1>1 DEF SendWritten, newsVars, pastVars
  <2> DEFINE m == [doc |-> e, kind |-> write[e].kind, version |-> write[e].version, serial |-> sends + 1]
  <2>2. inFlight' = Append(inFlight, m)
    BY <1>1 DEF SendWritten, Pipes
  <2>3. Sending(e) /\ m.doc = e /\ m.kind # "close" /\ m.version = write[e].version /\ m.serial = sends + 1
    BY <1>1, SentRecord DEF Sending
  <2> HIDE DEF m
  <2>4. /\ Len(inFlight') = Len(inFlight) + 1 /\ inFlight'[Len(inFlight) + 1] = m
        /\ \A i \in 1..Len(inFlight) : inFlight'[i] = inFlight[i]
    BY <1>q, <2>2, AppendProperties
  <2>5. SentOf(d) /\ NewsOf(d) /\ HeardOf(d)
    BY <1>i, <2>1
  <2>6. CASE d # e
    <3>1. texts'[d] = texts[d]
      BY <1>1, <2>6, SentRecord
    <3>2. SentOf(d)'
      BY <2>3, <2>4, <2>5, <2>6, <3>1, NewsFields DEF SentOf, Known
    <3> QED
      BY <2>1, <2>5, <3>1, <3>2 DEF NewsOf, HeardOf, Known
  <2>7. CASE d = e
    <3>1. Known(d)' /\ texts'[d].version = write[d].version /\ texts'[d].serial = sends + 1
      BY <1>1, <2>7, SentRecord
    <3>2. write[d].version \in Nat /\ write[d].version >= 1 /\ (Known(d) => write[d].version > texts[d].version)
      BY <2>3, <2>7, TextFields DEF PlaceInv
    <3>3. Known(d) => texts[d].version \in Nat
      BY TextFields
    <3>4. SentOf(d)'
      BY <2>3, <2>4, <2>5, <2>7, <3>1, <3>2, <3>3, NewsFields DEF SentOf
    <3>5. NewsOf(d)'
      BY <2>1, <2>5, <3>1, <3>2, <3>3, NewsFields DEF NewsOf
    <3>6. HeardOf(d)'
      BY <2>1, <2>5, <3>1, <3>2, <3>3, NewsFields DEF HeardOf
    <3> QED
      BY <3>4, <3>5, <3>6
  <2> QED
    BY <2>6, <2>7
<1>2. ASSUME NEW e \in Doc, CloseWritten(e), NEW d \in Doc \ everClosed' PROVE SentOf(d)' /\ NewsOf(d)' /\ HeardOf(d)'
  <2>1. UNCHANGED <<news, published, taken>> /\ d # e /\ d \notin everClosed
    BY <1>2 DEF CloseWritten, newsVars
  <2> DEFINE m == [doc |-> e, kind |-> write[e].kind, version |-> write[e].version, serial |-> sends + 1]
  <2>2. inFlight' = Append(inFlight, m)
    BY <1>2 DEF CloseWritten, Pipes
  <2>3. m.doc = e
    OBVIOUS
  <2> HIDE DEF m
  <2>4. /\ Len(inFlight') = Len(inFlight) + 1 /\ inFlight'[Len(inFlight) + 1] = m
        /\ \A i \in 1..Len(inFlight) : inFlight'[i] = inFlight[i]
    BY <1>q, <2>2, AppendProperties
  <2>5. SentOf(d) /\ NewsOf(d) /\ HeardOf(d)
    BY <1>i, <2>1
  <2>6. texts'[d] = texts[d]
    BY <1>2, <2>1, ClosedRecord
  <2>7. SentOf(d)'
    BY <2>1, <2>3, <2>4, <2>5, <2>6, NewsFields DEF SentOf, Known
  <2> QED
    BY <2>1, <2>5, <2>6, <2>7 DEF NewsOf, HeardOf, Known
<1>3. ASSUME \A d \in Doc : ~SendWritten(d) /\ ~CloseWritten(d), NEW d \in Doc \ everClosed'
      PROVE SentOf(d)' /\ NewsOf(d)' /\ HeardOf(d)'
  <2>1. /\ Known(d)' <=> Known(d)
        /\ Known(d) => texts'[d].version = texts[d].version /\ texts'[d].serial = texts[d].serial
        /\ d \notin everClosed
    BY <1>3, TextsKept
  <2>2. SentOf(d) /\ NewsOf(d) /\ HeardOf(d)
    BY <1>i, <2>1
  <2>f. Known(d) => texts[d].version \in Nat /\ texts[d].serial \in Nat
    BY TextFields
  <2>3. CASE ServerTakesIn
    <3> DEFINE m == Head(inFlight)
    <3>1. /\ inFlight # <<>> /\ inFlight' = Tail(inFlight) /\ taken' = m.serial
          /\ news' = Append(news, [doc |-> m.doc, version |-> IF m.kind = "close" THEN NoDoc ELSE m.version])
          /\ published' = published
      BY <2>3 DEF ServerTakesIn
    <3>2. /\ m = inFlight[1] /\ 1 \in 1..Len(inFlight) /\ Len(inFlight') = Len(inFlight) - 1
          /\ \A i \in 1..Len(inFlight') : inFlight'[i] = inFlight[i + 1] /\ i + 1 \in 1..Len(inFlight)
      BY <1>q, <3>1, HeadTailProperties, EmptySeq, NewsFields
    <3>3. m.serial = taken + 1
      BY <3>2, NewsFields DEF AllTypes, SerialInv
    <3> DEFINE n == [doc |-> m.doc, version |-> IF m.kind = "close" THEN NoDoc ELSE m.version]
    <3>4. n.doc = m.doc /\ (m.kind # "close" => n.version = m.version)
      OBVIOUS
    <3>5. news' = Append(news, n)
      BY <3>1
    <3> HIDE DEF n, m
    <3>6. /\ Len(news') = Len(news) + 1 /\ news'[Len(news) + 1] = n
          /\ \A i \in 1..Len(news) : news'[i] = news[i]
      BY <1>q, <3>5, AppendProperties
    <3>7. SentOf(d)'
      BY <2>1, <2>2, <3>2 DEF SentOf
    <3>8. m.doc = d => /\ Known(d) /\ n.version = m.version /\ m.version <= texts[d].version /\ m.version \in Nat
                       /\ m.version = texts[d].version => m.serial >= texts[d].serial
      BY <2>2, <3>2, <3>4, NewsFields DEF SentOf
    <3>9. NewsOf(d)'
      <4> SUFFICES ASSUME NEW i \in 1..Len(news'), news'[i].doc = d
                   PROVE  /\ Known(d)' /\ news'[i].version # NoDoc /\ news'[i].version <= texts'[d].version
                          /\ news'[i].version = texts'[d].version => taken' >= texts'[d].serial
        BY DEF NewsOf
      <4>1. CASE i \in 1..Len(news)
        BY <2>1, <2>2, <2>f, <3>1, <3>3, <3>6, <4>1, NewsFields DEF NewsOf
      <4>2. CASE i = Len(news) + 1
        BY <2>1, <2>f, <3>1, <3>3, <3>4, <3>6, <3>8, <4>2, NewsFields
      <4> QED
        BY <3>6, <4>1, <4>2, NewsFields
    <3>10. HeardOf(d)'
      BY <2>1, <2>2, <2>f, <3>1, <3>3, NewsFields DEF HeardOf
    <3> QED
      BY <3>7, <3>9, <3>10
  <2>4. CASE NotesPublication
    <3> DEFINE m == Head(news)
    <3>1. /\ news # <<>> /\ news' = Tail(news) /\ UNCHANGED <<inFlight, taken>>
          /\ published' = [published EXCEPT ![m.doc] = [count |-> @.count + 1, version |-> m.version]]
      BY <2>4 DEF NotesPublication, pipeVars
    <3>2. /\ m = news[1] /\ 1 \in 1..Len(news) /\ Len(news') = Len(news) - 1
          /\ \A i \in 1..Len(news') : news'[i] = news[i + 1] /\ i + 1 \in 1..Len(news)
      BY <1>q, <3>1, HeadTailProperties, EmptySeq, NewsFields
    <3>3. m.doc \in Doc
      BY <3>2, NewsFields
    <3>4. IF m.doc = d THEN published'[d].version = m.version ELSE published'[d] = published[d]
      BY <3>1, <3>3 DEF AllTypes, PipeTypes
    <3>5. SentOf(d)' /\ NewsOf(d)'
      BY <2>1, <2>2, <3>1, <3>2 DEF SentOf, NewsOf
    <3>6. HeardOf(d)'
      BY <2>1, <2>2, <3>1, <3>2, <3>4 DEF HeardOf, NewsOf
    <3> QED
      BY <3>5, <3>6
  <2>5. CASE UNCHANGED <<inFlight, news, taken, published>>
    BY <2>1, <2>2, <2>5 DEF SentOf, NewsOf, HeardOf
  <2>6. ASSUME NEW h \in Hook, HookStep(h) PROVE UNCHANGED <<inFlight, news, taken, published>>
    BY <2>6 DEF HookStep, HookBegins, HookEnters, HookReads, HookPlaces, HasRoom, Evicts, Closes, FindsNone, HookSends,
       WaitRegisters, WaitLooks, WaitSleeps, WaitWakes, WaitSettles, HookEnds, HookCancelled, newsVars, pipeVars
  <2>7. ASSUME NEW e \in Doc, DocEdit(e) PROVE UNCHANGED <<inFlight, news, taken, published>>
    BY <2>7 DEF DocEdit, newsVars, pipeVars
  <2>8. UNCHANGED docVars => UNCHANGED <<inFlight, news, taken, published>>
    BY DEF docVars, newsVars, pipeVars
  <2> QED
    BY <1>3, <2>3, <2>4, <2>5, <2>6, <2>7, <2>8 DEF DocNext
<1> QED
  BY <1>1, <1>2, <1>3

-----------------------------------------------------------------------------
(* The limit of open files.                                                *)
\* The number of open files is the length of the order of use.
LEMMA OpenSize ==
  ASSUME LruInv
  PROVE  IsFiniteSet(Open) /\ Cardinality(Open) = Len(lru) /\ Cardinality(Open) \in Nat
<1>1. Open = {lru[i] : i \in 1..Len(lru)}
  BY ElementOfSeq DEF LruInv, Open, In
<1> QED
  BY <1>1, DistinctCardinality, LenProperties DEF LruInv

\* The file that is being placed stays the one it is.
LEMMA CrowdKept ==
  ASSUME CrowdInv, Open' = Open, Opening' \subseteq Opening, ~crowded' => ~crowded,
         Opening # {} => /\ openSet' = openSet /\ doc'[openSet] = doc[openSet]
                         /\ hook'[openSet] = hook[openSet] \/ hook'[openSet] \in {"send", "sending"}
  PROVE  CrowdInv'
<1>1. ASSUME ~crowded', NEW d \in Opening' PROVE openSet' # NoDoc /\ doc'[openSet'] = d /\ hook'[openSet'] \in {"send", "sending"}
  BY <1>1 DEF CrowdInv
<1> QED
  BY <1>1 DEF CrowdInv

\* As long as room was found for each new file, one file at a time is placed and there is room for it.
LEMMA CrowdStep ==
  ASSUME AllTypes, AllTypes', GateInv, PlaceInv, RecordInv, LruInv, CrowdInv, [DocNext]_docVars PROVE CrowdInv'
<1> USE DocumentsAssumption DEF Steps
<1>t. /\ hook \in [Hook -> Holding \cup {"idle", "gate", "asked"}] /\ doc \in [Hook -> Doc \cup {NoDoc}]
      /\ \A h \in Hook : hook[h] # "idle" => doc[h] \in Doc
      /\ openSet \in Hook \cup {NoDoc} /\ crowded \in BOOLEAN /\ crowded' \in BOOLEAN
      /\ write \in [Doc -> Notification \cup {NoDoc}]
  BY DEF AllTypes, FileTypes, PipeTypes
<1>s. IsFiniteSet(Open) /\ Cardinality(Open) \in Nat
  BY OpenSize
\* Whoever holds the open set and has not got to its send keeps the place free.
<1>e. ASSUME NEW h \in Hook, openSet = h, hook[h] \notin {"send", "sending"}, ~crowded PROVE Opening = {}
  BY <1>e DEF CrowdInv
<1>1. ASSUME NEW d \in Doc, SendWritten(d) PROVE CrowdInv'
  <2>1. /\ Sending(d) /\ write'[d] = NoDoc /\ Known(d)'
        /\ \A e \in Doc : e # d => write'[e] = write[e] /\ texts'[e] = texts[e]
    BY <1>1, SentRecord
  <2>2. /\ doc' = doc /\ crowded' = crowded
        /\ \/ UNCHANGED <<hook, openSet>>
           \/ write[d].by \in Hook /\ hook' = [hook EXCEPT ![write[d].by] = "watch"]
              /\ openSet' = IF openSet = write[d].by THEN NoDoc ELSE openSet
    BY <1>1, <2>1, NoteFields DEF SendWritten, pastVars, Sending
  <2>3. \A h \in Hook : hook'[h] = "send" => hook[h] = "send"
    BY <1>t, <2>2
  <2>4. Open' = Open \cup {d}
    BY <2>1 DEF Open, Known
  <2>5. Opening' \subseteq Opening \ {d}
    BY <2>1, <2>2, <2>3, <2>4 DEF Opening
  <2>6. CASE Known(d)
    <3>1. Open' = Open
      BY <2>4, <2>6 DEF Open
    <3>2. write[d].by \in Hook => /\ hook[write[d].by] = "sending" /\ doc[write[d].by] = d
      BY <2>1 DEF GateInv
    <3>3. write[d].by \in Hook => openSet # write[d].by
      BY <2>6, <3>2 DEF PlaceInv
    <3>4. openSet' = openSet /\ (openSet \in Hook => hook'[openSet] = hook[openSet])
      BY <1>t, <2>2, <3>3
    <3>5. Opening # {} /\ ~crowded => openSet \in Hook
      BY <1>t DEF CrowdInv
    <3>6. CASE crowded
      BY <2>2, <3>6 DEF CrowdInv
    <3>7. CASE ~crowded
      BY <2>2, <2>5, <3>1, <3>4, <3>5, <3>7, CrowdKept
    <3> QED
      BY <3>6, <3>7
  <2>7. CASE ~Known(d)
    <3>1. d \in Opening
      BY <2>1, <2>7 DEF Opening, Open, Sending
    <3>2. ~crowded => Opening \ {d} = {} /\ Cardinality(Open) < MaxOpen
      BY <3>1 DEF CrowdInv
    <3>3. Cardinality(Open') = Cardinality(Open) + 1
      BY <1>s, <2>4, <2>7, FS_AddElement DEF Open
    <3>4. Cardinality(Open)' = Cardinality(Open')
      OBVIOUS
    <3>5. ~crowded => Opening' = {} /\ Cardinality(Open)' <= MaxOpen
      BY <1>s, <2>5, <3>2, <3>3, <3>4
    <3> QED
      BY <2>2, <3>5 DEF CrowdInv
  <2> QED
    BY <2>6, <2>7
<1>2. ASSUME NEW d \in Doc, CloseWritten(d) PROVE CrowdInv'
  <2>1. /\ Closing(d) /\ write'[d] = NoDoc /\ texts'[d] = NoDoc
        /\ \A e \in Doc : e # d => write'[e] = write[e] /\ texts'[e] = texts[e]
    BY <1>2, ClosedRecord
  <2>2. /\ UNCHANGED <<doc, openSet>>
        /\ \/ hook' = hook
           \/ write[d].by \in Hook /\ hook' = [hook EXCEPT ![write[d].by] = "evict"]
    BY <1>2, <2>1, NoteFields DEF CloseWritten, Closing
  <2>c. crowded' = (crowded /\ (Cardinality(Open) > MaxOpen + 1 \/ Opening # {}))
    BY <1>2 DEF CloseWritten
  <2>3. Known(d) /\ Open' = Open \ {d}
    BY <2>1 DEF Open, Known, PlaceInv
  <2>4. Cardinality(Open') = Cardinality(Open) - 1
    BY <1>s, <2>3, FS_RemoveElement DEF Open
  <2>5. ASSUME NEW h \in Hook, hook[h] = "send" PROVE doc[h] # d
    BY <2>1, <2>5 DEF GateInv, Holding, Closing
  <2>6. Opening' \subseteq Opening
    BY <1>t, <2>1, <2>2, <2>3, <2>5 DEF Opening
  <2>7. write[d].by \in Hook => hook[write[d].by] = "close"
    BY <2>1 DEF GateInv
  <2>8. Cardinality(Open)' = Cardinality(Open')
    OBVIOUS
  <2>9. CASE ~crowded
    <3>1. \A e \in Opening' : openSet # NoDoc /\ doc[openSet] = e /\ hook[openSet] \in {"send", "sending"}
      BY <2>6, <2>9 DEF CrowdInv
    <3>2. \A e \in Opening' : openSet' # NoDoc /\ doc'[openSet'] = e /\ hook'[openSet'] \in {"send", "sending"}
      BY <1>t, <2>2, <2>7, <3>1
    <3>3. Cardinality(Open) <= MaxOpen /\ Cardinality(Open)' < MaxOpen
      BY <1>s, <2>4, <2>8, <2>9 DEF CrowdInv
    <3> QED
      BY <1>s, <2>4, <2>8, <3>2, <3>3 DEF CrowdInv
  <2>10. CASE crowded /\ ~crowded'
    <3>1. Opening = {} /\ Cardinality(Open) <= MaxOpen + 1
      <4>1. Opening = {} /\ ~(Cardinality(Open) > MaxOpen + 1)
        BY <2>c, <2>10, Zenon
      <4> QED
        BY <1>s, <4>1
    <3>2. Opening' = {} /\ Cardinality(Open)' <= MaxOpen
      BY <1>s, <2>4, <2>6, <2>8, <3>1
    <3> QED
      BY <3>2 DEF CrowdInv
  <2> QED
    BY <1>t, <2>9, <2>10 DEF CrowdInv
<1>3. ASSUME NEW h \in Hook, HookStep(h) PROVE CrowdInv'
  <2>1. CASE FindsNone(h)
    BY <2>1 DEF FindsNone, CrowdInv
  <2>2. CASE HasRoom(h)
    <3>1. /\ hook[h] = "evict" /\ openSet = h /\ Cardinality(Open) < MaxOpen
          /\ hook' = [hook EXCEPT ![h] = "send"] /\ UNCHANGED <<texts, doc, openSet, write, crowded>>
      BY <2>2 DEF HasRoom, PlaceInv, fileVars, hookVars, gateVars, pipeVars, pastVars
    <3>2. Open' = Open /\ Cardinality(Open)' = Cardinality(Open)
      BY <3>1 DEF Open, Known
    <3>3. ASSUME ~crowded, NEW d \in Opening' PROVE doc[h] = d
      <4>1. Opening = {}
        BY <1>e, <3>1, <3>3
      <4> QED
        BY <1>t, <3>1, <3>2, <3>3, <4>1 DEF Opening
    <3>4. hook'[h] = "send"
      BY <1>t, <3>1
    <3> QED
      BY <1>s, <3>1, <3>2, <3>3, <3>4 DEF CrowdInv
  <2>3. CASE Evicts(h)
    <3>1. PICK v \in Doc : In(v, lru) /\ Closes(h, v)
      BY <2>3, ClosesGate
    <3>2. /\ hook[h] = "evict" /\ openSet = h /\ hook' = [hook EXCEPT ![h] = "close"]
          /\ UNCHANGED <<texts, doc, openSet, crowded>> /\ \A e \in Doc : e # v => write'[e] = write[e]
      BY <2>3, <3>1, ClosesNote DEF Evicts, Closes, PlaceInv, fileVars, hookVars, gateVars, pastVars
    <3>3. Open' = Open /\ v \in Open
      BY <3>1, <3>2 DEF Open, Known, LruInv
    <3>4. Opening' \subseteq Opening
      BY <1>t, <3>2, <3>3 DEF Opening
    <3>5. CASE crowded
      BY <3>2, <3>5 DEF CrowdInv
    <3>6. CASE ~crowded
      <4>1. Opening = {}
        BY <1>e, <3>2, <3>6
      <4> QED
        BY <3>2, <3>3, <3>4, <4>1, CrowdKept
    <3> QED
      BY <3>5, <3>6
  <2>4. CASE HookSends(h)
    <3> DEFINE d == doc[h]
    <3>1. /\ hook[h] = "send" /\ d \in Doc /\ hook' = [hook EXCEPT ![h] = "sending"]
          /\ \A e \in Doc : e # d => write'[e] = write[e]
      BY <2>4, SendsNote
    <3>2. UNCHANGED <<texts, doc, openSet, crowded>>
      BY <2>4 DEF HookSends, fileVars, gateVars, pastVars
    <3>3. Open' = Open
      BY <3>2 DEF Open, Known
    <3>4. Opening' \subseteq Opening
      BY <1>t, <3>1, <3>2, <3>3 DEF Opening
    <3>5. openSet \in Hook => (hook'[openSet] = hook[openSet] \/ hook'[openSet] \in {"send", "sending"})
      BY <1>t, <3>1
    <3>6. Opening # {} /\ ~crowded => openSet \in Hook
      BY <1>t DEF CrowdInv
    <3>7. CASE crowded
      BY <3>2, <3>7 DEF CrowdInv
    <3>8. CASE ~crowded
      BY <3>2, <3>3, <3>4, <3>5, <3>6, <3>8, CrowdKept
    <3> QED
      BY <3>7, <3>8
  <2>5. CASE HookCancelled(h)
    <3>1. /\ hook[h] \in {"gate", "read", "place", "close", "sending", "watch", "look", "poll", "sleep"}
          /\ hook' = [hook EXCEPT ![h] = "idle"] /\ doc' = [doc EXCEPT ![h] = NoDoc]
          /\ openSet' = (IF openSet = h THEN NoDoc ELSE openSet) /\ texts' = texts
      BY <2>5 DEF HookCancelled, Leaves, fileVars
    <3>2. \A d \in Doc : write'[d] = NoDoc <=> write[d] = NoDoc
      BY <2>5, CancelledWrite
    <3>3. Open' = Open
      BY <3>1 DEF Open, Known
    <3>4. Opening' \subseteq Opening
      BY <1>t, <3>1, <3>2, <3>3 DEF Opening
    <3>c. ~crowded' => ~crowded /\ ~(openSet = h /\ hook[h] = "sending")
      BY <2>5, Zenon DEF HookCancelled
    <3>5. CASE crowded'
      BY <3>5 DEF CrowdInv
    <3>6. CASE ~crowded'
      <4>1. openSet = h => Opening = {}
        BY <1>e, <3>1, <3>6, <3>c
      <4>2. Opening # {} => openSet \in Hook
        BY <1>t, <3>6, <3>c DEF CrowdInv
      <4>3. Opening # {} => openSet' = openSet /\ doc'[openSet] = doc[openSet] /\ hook'[openSet] = hook[openSet]
        BY <1>t, <3>1, <4>1, <4>2
      <4> QED
        BY <3>3, <3>4, <3>6, <3>c, <4>3, CrowdKept
    <3> QED
      BY <3>5, <3>6
  <2>6. CASE HookPlaces(h)
    <3>1. /\ openSet = NoDoc /\ hook' = [hook EXCEPT ![h] = "evict"] /\ UNCHANGED <<texts, doc, write, crowded>>
      BY <2>6 DEF HookPlaces, fileVars, hookVars, pipeVars, pastVars
    <3>2. Open' = Open
      BY <3>1 DEF Open, Known
    <3>3. Opening' \subseteq Opening
      BY <1>t, <3>1, <3>2 DEF Opening
    <3>4. CASE crowded
      BY <3>1, <3>4 DEF CrowdInv
    <3>5. CASE ~crowded
      <4>1. Opening = {}
        BY <3>1, <3>5 DEF CrowdInv
      <4> QED
        BY <3>1, <3>2, <3>3, <4>1, CrowdKept
    <3> QED
      BY <3>4, <3>5
  <2>7. ASSUME HookBegins(h) \/ HookEnters(h) \/ HookReads(h) \/ WaitRegisters(h) \/ WaitLooks(h) \/ WaitSleeps(h)
               \/ WaitWakes(h) \/ WaitSettles(h) \/ HookEnds(h) PROVE CrowdInv'
    <3>1. /\ hook[h] \in {"idle", "gate", "read", "asked"} \cup Waiting /\ UNCHANGED <<openSet, write, crowded>>
          /\ \A k \in Hook : k # h => hook'[k] = hook[k] /\ doc'[k] = doc[k]
      BY <1>t, <2>7 DEF HookBegins, HookEnters, HookReads, WaitRegisters, WaitLooks, WaitSleeps, WaitWakes, WaitSettles,
         HookEnds, Leaves, hookVars, pipeVars, pastVars, gateVars, Waiting
    <3>2. \A d \in Doc : Known(d)' <=> Known(d)
      <4>1. CASE WaitSettles(h)
        <5>1. doc[h] \in Doc
          BY <1>t, <4>1 DEF WaitSettles
        <5> QED
          BY <4>1, <5>1, SettledRecord
      <4>2. CASE ~WaitSettles(h)
        <5>1. texts' = texts
          BY <2>7, <4>2 DEF HookBegins, HookEnters, HookReads, WaitRegisters, WaitLooks, WaitSleeps, WaitWakes, HookEnds,
             fileVars
        <5> QED
          BY <5>1 DEF Known
      <4> QED
        BY <4>1, <4>2
    <3>3. Open' = Open
      BY <3>2 DEF Open
    <3>4. hook'[h] = "send" => doc'[h] = doc[h] /\ doc[h] \in Open
      BY <1>t, <2>7 DEF HookBegins, HookEnters, HookReads, WaitRegisters, WaitLooks, WaitSleeps, WaitWakes, WaitSettles,
         HookEnds, Leaves, Open
    <3>5. Opening' \subseteq Opening
      <4> SUFFICES ASSUME NEW d \in Opening' PROVE d \in Opening
        OBVIOUS
      <4>1. d \in Doc /\ d \notin Open
        BY <3>3 DEF Opening
      <4>2. CASE write'[d] # NoDoc
        BY <3>1, <4>1, <4>2 DEF Opening
      <4>3. ASSUME NEW k \in Hook, hook'[k] = "send", doc'[k] = d PROVE d \in Opening
        BY <3>1, <3>4, <4>1, <4>3 DEF Opening
      <4> QED
        BY <4>2, <4>3 DEF Opening
    <3>6. openSet # h
      BY <3>1 DEF PlaceInv, Waiting
    <3>7. CASE crowded
      BY <3>1, <3>7 DEF CrowdInv
    <3>8. CASE ~crowded
      <4>1. Opening # {} => openSet \in Hook
        BY <1>t, <3>8 DEF CrowdInv
      <4> QED
        BY <3>1, <3>3, <3>5, <3>6, <3>8, <4>1, CrowdKept
    <3> QED
      BY <3>7, <3>8
  <2> QED
    BY <1>3, <2>1, <2>2, <2>3, <2>4, <2>5, <2>6, <2>7 DEF HookStep
<1>4. ASSUME UNCHANGED <<texts, write, hook, doc, openSet, crowded>> PROVE CrowdInv'
  <2>1. Open' = Open /\ Opening' = Opening /\ Cardinality(Open)' = Cardinality(Open)
    BY <1>4 DEF Open, Opening, Known
  <2> QED
    BY <1>4, <2>1 DEF CrowdInv
<1>5. ASSUME NEW d \in Doc, DocEdit(d) PROVE UNCHANGED <<texts, write, hook, doc, openSet, crowded>>
  BY <1>5 DEF DocEdit, fileVars, gateVars, hookVars, pipeVars, pastVars
<1>6. ServerTakesIn \/ NotesPublication \/ UNCHANGED docVars => UNCHANGED <<texts, write, hook, doc, openSet, crowded>>
  BY DEF ServerTakesIn, NotesPublication, docVars, fileVars, gateVars, hookVars, pipeVars, pastVars
<1> QED
  BY <1>1, <1>2, <1>3, <1>4, <1>5, <1>6 DEF DocNext

-----------------------------------------------------------------------------
(* The invariant and what follows from it.                                 *)
\* The inductive invariant.
DocInv ==
    /\ FileTypes /\ PipeTypes /\ GateInv /\ PlaceInv /\ RecordInv /\ LruInv /\ CountInv /\ TextInv /\ RequestInv
    /\ AwaitInv /\ ClosedInv /\ SerialInv /\ VersionInv /\ CrowdInv

\* DocInit establishes the invariant.
LEMMA DocInitially == DocInit => DocInv
<1> SUFFICES ASSUME DocInit PROVE DocInv
  OBVIOUS
<1> USE DocumentsAssumption DEF DocInit
<1>1. FileTypes
  <2>1. gate \in GateType
    BY DEF GateType
  <2> QED
    BY <2>1 DEF FileTypes
<1>2. PipeTypes
  BY DEF PipeTypes
<1>3. GateInv
  BY DEF GateInv, Holder, Holding, Waiting, Closing, Sending
<1>4. PlaceInv
  BY DEF PlaceInv, Closing, Sending
<1>5. RecordInv
  BY DEF RecordInv, Known, Open
<1>6. LruInv
  BY DEF LruInv, Distinct, In, Known
<1>7. CountInv
  BY DEF CountInv, Open, Known
<1>8. TextInv /\ RequestInv /\ AwaitInv
  BY DEF TextInv, RequestInv, AwaitInv, AwaitsLast, WakesUp, Known, Sending, Waiting
<1>9. ClosedInv /\ SerialInv
  BY DEF ClosedInv, SerialInv, Open, Known
<1>10. VersionInv
  BY DEF VersionInv, SentOf, NewsOf, HeardOf, Known
<1>11. CrowdInv
  <2>1. Open = {} /\ Opening = {}
    BY DEF Open, Known, Opening
  <2>2. Cardinality(Open) = 0
    BY <2>1, FS_EmptySet
  <2> QED
    BY <2>1, <2>2 DEF CrowdInv
<1> QED
  BY <1>1, <1>2, <1>3, <1>4, <1>5, <1>6, <1>7, <1>8, <1>9, <1>10, <1>11 DEF DocInv

LEMMA DocInvHasTypes == DocInv => AllTypes
  BY DEF DocInv, AllTypes, GateInv, LruInv

\* Every step keeps the invariant: the types first, the parts that rest on them after.
LEMMA DocInvStep == DocInv /\ [DocNext]_docVars => DocInv'
<1> SUFFICES ASSUME DocInv, [DocNext]_docVars PROVE DocInv'
  OBVIOUS
<1>0. AllTypes
  BY DocInvHasTypes
<1> USE DEF DocInv
<1>1. FileTypes' /\ PipeTypes'
  BY <1>0, FileTypesStep, PipeTypesStep
<1>2. SerialInv' /\ GateInv'
  BY <1>0, SerialStep, GateStep
<1>3. LruInv' /\ AllTypes'
  <2>1. LruInv'
    BY <1>0, LruStep
  <2> QED
    BY <1>1, <1>2, <2>1 DEF AllTypes, GateInv, LruInv
<1>4. PlaceInv' /\ RecordInv' /\ CountInv'
  BY <1>0, <1>3, PlaceStep, RecordStep, CountStep
<1>5. TextInv' /\ RequestInv'
  BY <1>0, <1>3, TextStep
<1>6. AwaitInv' /\ ClosedInv'
  BY <1>0, <1>3, AwaitStep, ClosedStep
<1>7. VersionInv' /\ CrowdInv'
  BY <1>0, <1>3, VersionStep, CrowdStep
<1> QED
  BY <1>1, <1>2, <1>3, <1>4, <1>5, <1>6, <1>7

\* The invariant holds in every state that the session can reach, for any files, hooks and bounds.
THEOREM DocumentsInvariant == DocSpec => []DocInv
<1>1. DocInit => DocInv
  BY DocInitially
<1>2. DocInv /\ [DocNext]_docVars => DocInv'
  BY DocInvStep
<1> QED
  BY <1>1, <1>2, PTL DEF DocSpec

\* Each open file has one place in the order of use and a record of what SentTexts gives out: the texts
\* between 0 and the last one on disk, versions and serials from 1 on.
THEOREM DocTypeCorrect == DocSpec => []DocTypeOK
<1>1. DocInv => DocTypeOK
  <2> SUFFICES ASSUME DocInv PROVE DocTypeOK
    OBVIOUS
  <2> USE DocumentsAssumption DEF DocInv
  <2>1. AllTypes
    BY DocInvHasTypes
  <2>2. DOMAIN texts = Doc
    BY DEF FileTypes
  <2>3. ASSUME NEW d \in Open
        PROVE  texts[d] \in [text : 0..MaxText, version : 1..MaxSends, serial : 1..MaxSends,
                             pending : {NoDoc} \cup (0..MaxSends), reopened : BOOLEAN]
    <3>1. texts[d] \in SentText /\ sends \in Nat /\ d \in Doc /\ Known(d)
      BY <2>1, TextFields DEF PipeTypes, Open
    <3>2. texts[d].text <= MaxText
      <4>1. onDisk[d] <= MaxText /\ texts[d].text <= onDisk[d] /\ onDisk[d] \in Nat
        BY <3>1 DEF TextInv, FileTypes
      <4> QED
        BY <2>1, <3>1, <4>1, TextFields
    <3>3. texts[d].version \in 1..MaxSends
      BY <2>1, <3>1, TextFields DEF RecordInv, CountInv
    <3>4. texts[d].serial \in 1..MaxSends /\ texts[d].pending \in {NoDoc} \cup (0..MaxSends)
      BY <2>1, <3>1, TextFields DEF CountInv
    <3>5. texts[d].text \in 0..MaxText
      BY <2>1, <3>1, <3>2, TextFields
    <3> QED
      BY <3>1, <3>3, <3>4, <3>5 DEF SentText
  <2>4. ToSet(lru) = Open
    <3>1. ToSet(lru) = {lru[i] : i \in 1..Len(lru)}
      BY LenProperties DEF ToSet, LruInv
    <3> QED
      BY <3>1, ElementOfSeq DEF LruInv, In, Open
  <2>5. Len(lru) = Cardinality(Open)
    BY OpenSize
  <2>6. closedDocs \subseteq Doc \ Open
    BY DEF ClosedInv, Open, FileTypes
  <2>7. /\ gate \in [Doc -> [{0, 1} -> Hook \cup {NoDoc, ATask}]] /\ openSet \in Hook \cup {NoDoc}
        /\ doc \in [Hook -> Doc \cup {NoDoc}] /\ armed \subseteq Hook /\ awake \subseteq Hook
    BY DEF FileTypes, PipeTypes, GateType
  <2> QED
    BY <2>2, <2>3, <2>4, <2>5, <2>6, <2>7 DEF DocTypeOK
<1> QED
  BY <1>1, DocumentsInvariant, PTL

\* The record of a file is what was last piped of it, and a position request follows a text no older than
\* the file was when its hook began, whichever hooks were cancelled in between (open_if_changed).
THEOREM TextsStayInStep == DocSpec => []TextsAreInStep
<1>1. DocInv => TextsAreInStep
  <2> SUFFICES ASSUME DocInv PROVE TextsAreInStep
    OBVIOUS
  <2> USE DEF DocInv
  <2>1. RecordIsWhatWasSent
    BY DEF RecordIsWhatWasSent, RecordInv
  <2>2. RequestFollowsItsText
    <3>1. ASSUME NEW h \in Hook, hook[h] = "asked", piped[doc[h]] # NoDoc PROVE piped[doc[h]].text >= first[h]
      <4>1. doc[h] \in Doc
        BY <3>1 DEF GateInv, FileTypes
      <4> QED
        BY <3>1, <4>1 DEF RecordInv, RequestInv
    <3> QED
      BY <3>1 DEF RequestFollowsItsText
  <2> QED
    BY <2>1, <2>2 DEF TextsAreInStep
<1> QED
  BY <1>1, DocumentsInvariant, PTL

\* More files than MAX_OPEN_DOCUMENTS are open only after one had to be opened while each open file was in
\* use, or after a hook was cancelled in the write of a first text (make_room).
THEOREM OpenSetIsBounded == DocSpec => []OpenSetBounded
<1>1. DocInv => OpenSetBounded
  BY OpenSize, DocumentsAssumption DEF DocInv, OpenSetBounded, CrowdInv
<1> QED
  BY <1>1, DocumentsInvariant, PTL

\* What a step puts on the pipe goes there by one of the two writes.
LEMMA Piping ==
  ASSUME AllTypes, [DocNext]_docVars, Len(inFlight') > Len(inFlight)
  PROVE  \E d \in Doc : SendWritten(d) \/ CloseWritten(d)
<1>1. ServerTakesIn => Len(inFlight') < Len(inFlight)
  <2>1. inFlight \in Seq(Message)
    BY DEF AllTypes, SerialInv
  <2> QED
    BY <2>1, HeadTailProperties, EmptySeq, LenProperties DEF ServerTakesIn
<1>2. ASSUME NEW h \in Hook, HookStep(h) PROVE inFlight' = inFlight
  BY <1>2 DEF HookStep, HookBegins, HookEnters, HookReads, HookPlaces, HasRoom, Evicts, Closes, FindsNone, HookSends,
     WaitRegisters, WaitLooks, WaitSleeps, WaitWakes, WaitSettles, HookEnds, HookCancelled, pipeVars
<1>3. ASSUME NEW d \in Doc, DocEdit(d) PROVE inFlight' = inFlight
  BY <1>3 DEF DocEdit, pipeVars
<1>4. NotesPublication \/ UNCHANGED docVars => inFlight' = inFlight
  BY DEF NotesPublication, docVars, pipeVars
<1> QED
  BY <1>1, <1>2, <1>3, <1>4, NewsFields DEF DocNext

\* Whatever is cancelled, the server is told to change or close what is open, to open what is not, and with
\* each text a higher version (notify_holding).
THEOREM ProtocolIsKept == DocSpec => ProtocolKept
<1> DEFINE Kept == Len(inFlight') > Len(inFlight) =>
         LET m == Last(inFlight') IN
         /\ m.kind \in {"change", "close"} => piped[m.doc] # NoDoc
         /\ m.kind = "open" /\ piped[m.doc] # NoDoc => ~ChangeSync
         /\ m.kind # "close" =>
              m.version = (IF piped[m.doc] = NoDoc THEN 1 ELSE piped[m.doc].version + 1)
<1>1. DocInv /\ [DocNext]_docVars => [Kept]_docVars
  <2> SUFFICES ASSUME DocInv, [DocNext]_docVars, Len(inFlight') > Len(inFlight) PROVE Kept
    OBVIOUS
  <2>0. AllTypes
    BY DocInvHasTypes
  <2>1. PICK d \in Doc : SendWritten(d) \/ CloseWritten(d)
    BY <2>0, Piping
  <2> DEFINE m == [doc |-> d, kind |-> write[d].kind, version |-> write[d].version, serial |-> sends + 1]
  <2>2. inFlight' = Append(inFlight, m)
    BY <2>1 DEF SendWritten, CloseWritten, Pipes
  <2>3. m.doc = d /\ m.kind = write[d].kind /\ m.version = write[d].version
    OBVIOUS
  <2> HIDE DEF m
  <2>4. Last(inFlight') = m
    BY <2>0, <2>2, AppendProperties DEF Last, AllTypes, SerialInv
  <2>5. Known(d) <=> piped[d] # NoDoc
    BY DEF DocInv, RecordInv
  <2>6. Known(d) => texts[d].version = piped[d].version
    BY DEF DocInv, RecordInv
  <2>7. CASE SendWritten(d)
    <3>1. Sending(d)
      BY <2>0, <2>7, SentRecord
    <3>2. /\ write[d].version = (IF Known(d) THEN texts[d].version + 1 ELSE 1)
          /\ write[d].kind = (IF write[d].version > 1 /\ ChangeSync THEN "change" ELSE "open")
          /\ write[d].kind # "close"
      BY <3>1 DEF DocInv, PlaceInv, Sending
    <3>3. Known(d) => texts[d].version \in Nat /\ texts[d].version > 0
      BY <2>0, TextFields DEF DocInv, RecordInv, Open
    <3>4. /\ write[d].kind \in {"change", "close"} => piped[d] # NoDoc
          /\ write[d].kind = "open" /\ piped[d] # NoDoc => ~ChangeSync
          /\ write[d].version = (IF piped[d] = NoDoc THEN 1 ELSE piped[d].version + 1)
      BY <2>5, <2>6, <3>2, <3>3
    <3> QED
      BY <2>3, <2>4, <3>4
  <2>8. CASE CloseWritten(d)
    <3>1. Closing(d)
      BY <2>0, <2>8, ClosedRecord
    <3>2. write[d].kind = "close" /\ piped[d] # NoDoc
      BY <2>5, <3>1 DEF DocInv, PlaceInv, Closing
    <3> QED
      BY <2>3, <2>4, <3>2
  <2> QED
    BY <2>1, <2>7, <2>8
<1>2. [][DocNext]_docVars /\ []DocInv => [][Kept]_docVars
  BY <1>1, PTL
<1> QED
  BY <1>2, DocumentsInvariant, PTL DEF DocSpec, ProtocolKept

\* A wait that ends has an answer to what it awaits.
LEMMA AnsweredIsForIt ==
  ASSUME DocInv, NEW h \in Hook, hook[h] = "look", Answers(h) PROVE AnsweredForItsText(h)
<1> USE DocumentsAssumption
<1>0. AllTypes
  BY DocInvHasTypes
<1> DEFINE d == doc[h]
<1>1. d \in Doc
  BY DEF DocInv, GateInv, FileTypes
<1>2. /\ Known(d) /\ awaited[h] # NoDoc /\ awaited[h].version = texts[d].version
      /\ awaited[h].serial = texts[d].serial /\ awaited[h].reopened = texts[d].reopened
  BY DEF DocInv, AwaitInv, AwaitsLast, Waiting
<1>3. /\ texts[d].version \in Nat /\ texts[d].serial \in Nat /\ taken \in Nat /\ texts[d].version > 0
      /\ published[d].version \in Nat \cup {NoDoc}
  BY <1>0, <1>1, <1>2, TextFields, NewsFields DEF DocInv, RecordInv, Open
<1>4. IF published[d].version = NoDoc THEN ~awaited[h].reopened ELSE published[d].version >= awaited[h].version
  BY DEF Answers
<1>5. CASE d \in everClosed
  <2>1. texts[d].version = 1 => texts[d].reopened
    BY <1>2, <1>5 DEF DocInv, ClosedInv
  <2> QED
    BY <1>2, <1>3, <1>4, <1>5, <2>1 DEF AnsweredForItsText
<1>6. CASE d \notin everClosed
  <2>1. /\ published[d].version # NoDoc /\ published[d].version <= texts[d].version
        /\ published[d].version = texts[d].version => taken >= texts[d].serial
    BY <1>1, <1>2, <1>6 DEF DocInv, VersionInv, HeardOf
  <2> QED
    BY <1>2, <1>3, <1>4, <2>1 DEF AnsweredForItsText
<1> QED
  BY <1>5, <1>6

\* No publication slips past a wait that goes to sleep, and a wait that ends has been answered for its text
\* (wait_after_in).
THEOREM PublicationsHeard == DocSpec => PublicationsAreHeard
<1> DEFINE Heard == /\ NoPublicationMissed'
                    /\ \A h \in Hook : hook[h] = "look" /\ hook'[h] = "settle" => AnsweredForItsText(h)
<1>1. DocInv /\ DocInv' /\ [DocNext]_docVars => [Heard]_docVars
  <2> SUFFICES ASSUME DocInv, DocInv', [DocNext]_docVars PROVE Heard
    OBVIOUS
  <2>0. AllTypes
    BY DocInvHasTypes
  <2>1. NoPublicationMissed'
    BY DEF DocInv, AwaitInv, WakesUp, NoPublicationMissed
  <2>2. ASSUME NEW h \in Hook, hook[h] = "look", hook'[h] = "settle" PROVE Answers(h)
    <3> DEFINE Hooks == hook \in [Hook -> Holding \cup {"idle", "gate", "asked"}]
    <3>t. Hooks
      BY DEF DocInv, FileTypes
    <3>1. ASSUME NEW k \in Hook, HookStep(k) PROVE k = h /\ WaitLooks(k)
      BY <2>2, <3>t, <3>1 DEF HookStep, HookBegins, HookEnters, HookReads, HookPlaces, HasRoom, Evicts, Closes,
         FindsNone, HookSends, WaitRegisters, WaitLooks, WaitSleeps, WaitWakes, WaitSettles, HookEnds, HookCancelled,
         Leaves, Steps
    <3>2. WaitLooks(h) => Answers(h)
      BY <2>2, <3>t DEF WaitLooks, Steps
    <3>3. ASSUME NEW d \in Doc, SendWritten(d) \/ CloseWritten(d) \/ DocEdit(d) PROVE FALSE
      <4>1. \/ hook' = hook \/ \E k \in Hook : hook' = [hook EXCEPT ![k] = "watch"] \/ hook' = [hook EXCEPT ![k] = "evict"]
        BY <2>0, <3>3, NoteFields DEF SendWritten, CloseWritten, DocEdit, Steps, hookVars
      <4> QED
        BY <2>2, <3>t, <4>1
    <3>4. ServerTakesIn \/ NotesPublication \/ UNCHANGED docVars => hook' = hook
      BY DEF ServerTakesIn, NotesPublication, docVars, hookVars
    <3> QED
      BY <2>2, <3>1, <3>2, <3>3, <3>4 DEF DocNext
  <2> QED
    BY <2>1, <2>2, AnsweredIsForIt
<1>2. [][DocNext]_docVars /\ []DocInv => [][Heard]_docVars
  BY <1>1, PTL
<1> QED
  BY <1>2, DocumentsInvariant, PTL DEF DocSpec, PublicationsAreHeard
=============================================================================
