------------------------- MODULE WarmStarts_proofs -------------------------
(***************************************************************************)
(* Warm starts happen once, and a stop is final, for any workspaces,       *)
(* providers, calls and tasks.                                             *)
(***************************************************************************)
EXTENDS WarmStarts, TLAPS

USE WarmAssumption

\* A task and its workspace's entry belong together for good.
EntryInv ==
    /\ \A n \in Warm : warm[n] = "unused" <=> place[n] = Nowhere
    /\ \A n \in Warm : place[n] \in Workspace => entries[place[n]] = n
    /\ \A w \in Workspace : entries[w] \in Warm => place[entries[w]] = w

\* A session that a task registered is in the task's workspace.
SessionInv == \A w \in Workspace, p \in Provider, n \in Warm :
                 sessions[<<w, p>>] = n => place[n] = w

\* A stop reserves its scope, waits for every task in it, and finds them ended
\* before it releases.
StopInv == \A s \in Stopper :
    stop[s] # "idle" =>
      /\ scope[s] \in Workspace \cup {All}
      /\ scope[s] = All => closed
      /\ scope[s] \in Workspace => entries[scope[s]] # Absent
      /\ \A n \in Warm : place[n] \in Workspace /\ InScope(place[n], s) => n \in waits[s]
      /\ \A n \in waits[s] : warm[n] # "unused"
      /\ stop[s] \in {"releasing", "stopped"} => \A n \in waits[s] : ~Alive(n)
      /\ stop[s] = "stopped" =>
           \A n \in Warm, p \in Provider :
              place[n] \in Workspace /\ InScope(place[n], s) => sessions[<<place[n], p>>] # n

WarmInv == WarmTypeOK /\ EntryInv /\ SessionInv /\ StopInv

-----------------------------------------------------------------------------
\* WarmInit establishes the invariant.
LEMMA WarmStarted == WarmInit => WarmInv
<1> SUFFICES ASSUME WarmInit PROVE WarmInv
  OBVIOUS
<1> USE DEF WarmInit
<1>0. closed \in BOOLEAN
  BY Zenon
<1>1. WarmTypeOK
  BY <1>0, SMTT(30) DEF WarmTypeOK
<1>2. EntryInv /\ SessionInv /\ StopInv
  BY SMTT(30) DEF EntryInv, SessionInv, StopInv
<1> QED
  BY <1>1, <1>2 DEF WarmInv

\* Every step keeps the types.
LEMMA WarmTypeStep == WarmTypeOK /\ EntryInv /\ [WarmNext]_startVars => WarmTypeOK'
<1> SUFFICES ASSUME WarmTypeOK, EntryInv, [WarmNext]_startVars PROVE WarmTypeOK'
  OBVIOUS
<1> USE DEF WarmTypeOK, EntryInv, warmVars, stopVars, Alive, InScope
<1>1. ASSUME NEW c \in Toucher, NEW w \in Workspace, Touch(c, w) PROVE WarmTypeOK'
  BY <1>1, SMTT(30) DEF Touch
<1>2. ASSUME NEW c \in Toucher, WarmBegins(c) PROVE WarmTypeOK'
  BY <1>2, SMTT(30) DEF WarmBegins, Due
<1>3. ASSUME NEW c \in Toucher, TouchEnds(c) PROVE WarmTypeOK'
  BY <1>3, SMTT(30) DEF TouchEnds
<1>4. ASSUME NEW n \in Warm, WarmServer(n) \/ WarmWaits(n) PROVE WarmTypeOK'
  <2>1. place[n] \in Workspace
    BY <1>4 DEF WarmServer, WarmWaits, EntryInv, WarmTypeOK
  <2>2. PICK p \in Provider : Registers(n, place[n], p)
    BY <1>4 DEF WarmServer, WarmWaits, WarmTypeOK
  <2>3. /\ todo' \in [Warm -> SUBSET Provider] /\ begun' \in [Warm -> SUBSET Provider]
        /\ UNCHANGED <<entries, closed, warm, place, building, touch, stop, scope, waits>>
    BY <1>4, SMTT(30) DEF WarmServer, WarmWaits, WarmTypeOK
  <2> QED
    BY <2>1, <2>2, <2>3, SMTT(30) DEF Registers
<1>5. ASSUME NEW n \in Warm, WarmSkips(n) \/ WarmFinishes(n) \/ AbortTakesEffect(n)
      PROVE WarmTypeOK'
  BY <1>5, SMTT(30) DEF WarmSkips, WarmFinishes, AbortTakesEffect
<1>6. ASSUME NEW s \in Stopper, NEW w \in Workspace, StopOne(s, w) PROVE WarmTypeOK'
  BY <1>6, SMTT(30) DEF StopOne, Aborts
<1>7. ASSUME NEW s \in Stopper, StopAll(s) PROVE WarmTypeOK'
  BY <1>7, SMTT(30) DEF StopAll, Aborts
<1>8. ASSUME NEW s \in Stopper, StopWaited(s) \/ StopDropped(s) PROVE WarmTypeOK'
  BY <1>8, SMTT(30) DEF StopWaited, StopDropped
<1>9. ASSUME NEW s \in Stopper, StopReleases(s) PROVE WarmTypeOK'
  BY <1>9, SMTT(30) DEF StopReleases
<1>10. ASSUME NEW w \in Workspace, NEW p \in Provider, RequestServer(w, p) \/ SessionEnds(w, p)
       PROVE WarmTypeOK'
  BY <1>10, SMTT(30) DEF RequestServer, SessionEnds, Registers
<1>11. ASSUME NEW w \in Workspace, Build(w) PROVE WarmTypeOK'
  BY <1>11, SMTT(30) DEF Build
<1>12. CASE UNCHANGED startVars
  BY <1>12, SMTT(30) DEF startVars
<1> QED
  BY <1>1, <1>2, <1>3, <1>4, <1>5, <1>6, <1>7, <1>8, <1>9, <1>10, <1>11, <1>12 DEF WarmNext

\* An entry is made once, together with its task.
LEMMA EntryStep == WarmTypeOK /\ EntryInv /\ [WarmNext]_startVars => EntryInv'
<1> SUFFICES ASSUME WarmTypeOK, EntryInv, [WarmNext]_startVars PROVE EntryInv'
  OBVIOUS
<1> USE DEF WarmTypeOK, EntryInv, warmVars, stopVars, Alive, InScope
<1>1. ASSUME NEW c \in Toucher, NEW w \in Workspace, Touch(c, w) PROVE EntryInv'
  BY <1>1, SMTT(30) DEF Touch
<1>2. ASSUME NEW c \in Toucher, WarmBegins(c) PROVE EntryInv'
  BY <1>2, SMTT(30) DEF WarmBegins, Due
<1>3. ASSUME NEW c \in Toucher, TouchEnds(c) PROVE EntryInv'
  BY <1>3, SMTT(30) DEF TouchEnds
<1>4. ASSUME NEW n \in Warm, WarmServer(n) \/ WarmWaits(n) PROVE EntryInv'
  <2>1. place[n] \in Workspace
    BY <1>4 DEF WarmServer, WarmWaits, EntryInv, WarmTypeOK
  <2>2. PICK p \in Provider : Registers(n, place[n], p)
    BY <1>4 DEF WarmServer, WarmWaits, WarmTypeOK
  <2>3. /\ todo' \in [Warm -> SUBSET Provider] /\ begun' \in [Warm -> SUBSET Provider]
        /\ UNCHANGED <<entries, closed, warm, place, building, touch, stop, scope, waits>>
    BY <1>4, SMTT(30) DEF WarmServer, WarmWaits, WarmTypeOK
  <2> QED
    BY <2>1, <2>2, <2>3, SMTT(30) DEF Registers
<1>5. ASSUME NEW n \in Warm, WarmSkips(n) \/ WarmFinishes(n) \/ AbortTakesEffect(n)
      PROVE EntryInv'
  BY <1>5, SMTT(30) DEF WarmSkips, WarmFinishes, AbortTakesEffect
<1>6. ASSUME NEW s \in Stopper, NEW w \in Workspace, StopOne(s, w) PROVE EntryInv'
  BY <1>6, SMTT(30) DEF StopOne, Aborts
<1>7. ASSUME NEW s \in Stopper, StopAll(s) PROVE EntryInv'
  BY <1>7, SMTT(30) DEF StopAll, Aborts
<1>8. ASSUME NEW s \in Stopper, StopWaited(s) \/ StopDropped(s) PROVE EntryInv'
  BY <1>8, SMTT(30) DEF StopWaited, StopDropped
<1>9. ASSUME NEW s \in Stopper, StopReleases(s) PROVE EntryInv'
  BY <1>9, SMTT(30) DEF StopReleases
<1>10. ASSUME NEW w \in Workspace, NEW p \in Provider, RequestServer(w, p) \/ SessionEnds(w, p)
       PROVE EntryInv'
  BY <1>10, SMTT(30) DEF RequestServer, SessionEnds, Registers
<1>11. ASSUME NEW w \in Workspace, Build(w) PROVE EntryInv'
  BY <1>11, SMTT(30) DEF Build
<1>12. CASE UNCHANGED startVars
  BY <1>12, SMTT(30) DEF startVars
<1> QED
  BY <1>1, <1>2, <1>3, <1>4, <1>5, <1>6, <1>7, <1>8, <1>9, <1>10, <1>11, <1>12 DEF WarmNext

\* A task registers sessions in its own workspace.
LEMMA SessionStep == WarmTypeOK /\ EntryInv /\ SessionInv /\ [WarmNext]_startVars => SessionInv'
<1> SUFFICES ASSUME WarmTypeOK, EntryInv, SessionInv, [WarmNext]_startVars PROVE SessionInv'
  OBVIOUS
<1> USE DEF WarmTypeOK, EntryInv, SessionInv, warmVars, stopVars, Alive, InScope
<1>1. ASSUME NEW c \in Toucher, NEW w \in Workspace, Touch(c, w) PROVE SessionInv'
  BY <1>1, SMTT(30) DEF Touch
<1>2. ASSUME NEW c \in Toucher, WarmBegins(c) PROVE SessionInv'
  BY <1>2, SMTT(30) DEF WarmBegins, Due
<1>3. ASSUME NEW c \in Toucher, TouchEnds(c) PROVE SessionInv'
  BY <1>3, SMTT(30) DEF TouchEnds
<1>4. ASSUME NEW n \in Warm, WarmServer(n) \/ WarmWaits(n) PROVE SessionInv'
  <2>1. place[n] \in Workspace
    BY <1>4 DEF WarmServer, WarmWaits, EntryInv, WarmTypeOK
  <2>2. PICK p \in Provider : Registers(n, place[n], p)
    BY <1>4 DEF WarmServer, WarmWaits, WarmTypeOK
  <2>3. /\ todo' \in [Warm -> SUBSET Provider] /\ begun' \in [Warm -> SUBSET Provider]
        /\ UNCHANGED <<entries, closed, warm, place, building, touch, stop, scope, waits>>
    BY <1>4, SMTT(30) DEF WarmServer, WarmWaits, WarmTypeOK
  <2> QED
    BY <2>1, <2>2, <2>3, SMTT(30) DEF Registers
<1>5. ASSUME NEW n \in Warm, WarmSkips(n) \/ WarmFinishes(n) \/ AbortTakesEffect(n)
      PROVE SessionInv'
  BY <1>5, SMTT(30) DEF WarmSkips, WarmFinishes, AbortTakesEffect
<1>6. ASSUME NEW s \in Stopper, NEW w \in Workspace, StopOne(s, w) PROVE SessionInv'
  BY <1>6, SMTT(30) DEF StopOne, Aborts
<1>7. ASSUME NEW s \in Stopper, StopAll(s) PROVE SessionInv'
  BY <1>7, SMTT(30) DEF StopAll, Aborts
<1>8. ASSUME NEW s \in Stopper, StopWaited(s) \/ StopDropped(s) PROVE SessionInv'
  BY <1>8, SMTT(30) DEF StopWaited, StopDropped
<1>9. ASSUME NEW s \in Stopper, StopReleases(s) PROVE SessionInv'
  BY <1>9, SMTT(30) DEF StopReleases
<1>10. ASSUME NEW w \in Workspace, NEW p \in Provider, RequestServer(w, p) \/ SessionEnds(w, p)
       PROVE SessionInv'
  BY <1>10, SMTT(30) DEF RequestServer, SessionEnds, Registers
<1>11. ASSUME NEW w \in Workspace, Build(w) PROVE SessionInv'
  BY <1>11, SMTT(30) DEF Build
<1>12. CASE UNCHANGED startVars
  BY <1>12, SMTT(30) DEF startVars
<1> QED
  BY <1>1, <1>2, <1>3, <1>4, <1>5, <1>6, <1>7, <1>8, <1>9, <1>10, <1>11, <1>12 DEF WarmNext

\* Nothing begins in the scope of a stop, and what had begun it waits for.
LEMMA StopStep == WarmTypeOK /\ EntryInv /\ SessionInv /\ StopInv /\ [WarmNext]_startVars => StopInv'
<1> SUFFICES ASSUME WarmTypeOK, EntryInv, SessionInv, StopInv, [WarmNext]_startVars PROVE StopInv'
  OBVIOUS
<1> USE DEF WarmTypeOK, EntryInv, SessionInv, StopInv, warmVars, stopVars, Alive, InScope
<1>1. ASSUME NEW c \in Toucher, NEW w \in Workspace, Touch(c, w) PROVE StopInv'
  BY <1>1, SMTT(30) DEF Touch
<1>2. ASSUME NEW c \in Toucher, WarmBegins(c) PROVE StopInv'
  <2>1. ~closed /\ touch[c] \in Workspace /\ entries[touch[c]] = Absent
    BY <1>2 DEF WarmBegins, Due
  <2>2. PICK m \in Warm :
          /\ warm[m] = "unused"
          /\ warm' = [warm EXCEPT ![m] = "running"]
          /\ place' = [place EXCEPT ![m] = touch[c]]
          /\ entries' = [entries EXCEPT ![touch[c]] = m]
    BY <1>2 DEF WarmBegins
  <2>3. UNCHANGED <<closed, sessions, stop, scope, waits>>
    BY <1>2 DEF WarmBegins
  <2>4. \A s \in Stopper : stop[s] # "idle" => scope[s] \notin {touch[c], All}
    BY <2>1, SMTT(30)
  <2>5. \A s \in Stopper : stop[s] # "idle" => m \notin waits[s]
    BY <2>2
  <2> QED
    BY <2>1, <2>2, <2>3, <2>4, <2>5, SMTT(60)
<1>3. ASSUME NEW c \in Toucher, TouchEnds(c) PROVE StopInv'
  BY <1>3, SMTT(30) DEF TouchEnds
<1>4. ASSUME NEW n \in Warm, WarmServer(n) \/ WarmWaits(n) PROVE StopInv'
  <2>1. place[n] \in Workspace
    BY <1>4 DEF WarmServer, WarmWaits, EntryInv, WarmTypeOK
  <2>2. PICK p \in Provider : Registers(n, place[n], p)
    BY <1>4 DEF WarmServer, WarmWaits, WarmTypeOK
  <2>3. /\ todo' \in [Warm -> SUBSET Provider] /\ begun' \in [Warm -> SUBSET Provider]
        /\ UNCHANGED <<entries, closed, warm, place, building, touch, stop, scope, waits>>
    BY <1>4, SMTT(30) DEF WarmServer, WarmWaits, WarmTypeOK
  <2>4. \A v \in Workspace, q \in Provider, m \in Warm :
          sessions'[<<v, q>>] = m => sessions[<<v, q>>] = m \/ m = n
    BY <2>1, <2>2, SMTT(30) DEF Registers
  <2>5. \A s \in Stopper : stop[s] = "stopped" => ~InScope(place[n], s)
    BY <1>4, <2>1, SMTT(30) DEF WarmServer, WarmWaits
  <2> HIDE DEF WarmTypeOK, EntryInv, SessionInv
  <2> QED
    BY <2>1, <2>3, <2>4, <2>5, SMTT(30)
<1>5. ASSUME NEW n \in Warm, WarmSkips(n) \/ WarmFinishes(n) \/ AbortTakesEffect(n)
      PROVE StopInv'
  BY <1>5, SMTT(30) DEF WarmSkips, WarmFinishes, AbortTakesEffect
<1>6. ASSUME NEW s \in Stopper, NEW w \in Workspace, StopOne(s, w) PROVE StopInv'
  BY <1>6, SMTT(30) DEF StopOne, Aborts
<1>7. ASSUME NEW s \in Stopper, StopAll(s) PROVE StopInv'
  BY <1>7, SMTT(30) DEF StopAll, Aborts
<1>8. ASSUME NEW s \in Stopper, StopWaited(s) \/ StopDropped(s) PROVE StopInv'
  BY <1>8, SMTT(30) DEF StopWaited, StopDropped
<1>9. ASSUME NEW s \in Stopper, StopReleases(s) PROVE StopInv'
  BY <1>9, SMTT(30) DEF StopReleases
<1>10. ASSUME NEW w \in Workspace, NEW p \in Provider, RequestServer(w, p) \/ SessionEnds(w, p)
       PROVE StopInv'
  <2>1. \A v \in Workspace, q \in Provider, m \in Warm :
          sessions'[<<v, q>>] = m => sessions[<<v, q>>] = m
    BY <1>10, SMTT(30) DEF RequestServer, SessionEnds, Registers
  <2>2. UNCHANGED <<entries, closed, warm, place, stop, scope, waits>>
    BY <1>10 DEF RequestServer, SessionEnds
  <2> HIDE DEF WarmTypeOK, EntryInv, SessionInv
  <2> QED
    BY <2>1, <2>2, SMTT(30)
<1>11. ASSUME NEW w \in Workspace, Build(w) PROVE StopInv'
  BY <1>11, SMTT(30) DEF Build
<1>12. CASE UNCHANGED startVars
  BY <1>12, SMTT(30) DEF startVars
<1> QED
  BY <1>1, <1>2, <1>3, <1>4, <1>5, <1>6, <1>7, <1>8, <1>9, <1>10, <1>11, <1>12 DEF WarmNext

-----------------------------------------------------------------------------
LEMMA WarmKept == WarmInv /\ [WarmNext]_startVars => WarmInv'
  BY WarmTypeStep, EntryStep, SessionStep, StopStep DEF WarmInv

THEOREM WarmInvariant == WarmSpec => []WarmInv
  BY WarmStarted, WarmKept, PTL DEF WarmSpec

\* Every variable keeps its type.
THEOREM WarmTypeCorrect == WarmSpec => []WarmTypeOK
<1>1. WarmInv => WarmTypeOK
  BY DEF WarmInv
<1> QED
  BY <1>1, WarmInvariant, PTL

\* No workspace is warmed twice.
THEOREM WarmStartsOnce == WarmSpec => []WarmedOnce
<1>1. WarmInv => WarmedOnce
  BY SMTT(30) DEF WarmInv, WarmTypeOK, EntryInv, WarmedOnce
<1> QED
  BY <1>1, WarmInvariant, PTL

\* After a release or the shutdown has returned, no warm start in its scope is
\* under way or has left a session.
THEOREM StopsAreFinal == WarmSpec => []StopIsFinal
<1>1. WarmInv => StopIsFinal
  BY SMTT(30) DEF WarmInv, WarmTypeOK, EntryInv, StopInv, StopIsFinal, Alive, InScope
<1> QED
  BY <1>1, WarmInvariant, PTL

\* Warmed once and stopped for good, for any number of touches and stops.
THEOREM WarmStopsHold == WarmSpec => []WarmStopsAreFinal
  BY WarmStartsOnce, StopsAreFinal, PTL DEF WarmStopsAreFinal
=============================================================================
