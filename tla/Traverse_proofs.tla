--------------------------- MODULE Traverse_proofs ---------------------------
(***************************************************************************)
(* For any graph, seeds, budgets, stops and directives: a walk loses       *)
(* nothing of what it found, a handle always holds what the next call      *)
(* loads, no call gets more than its budget or pays twice, and what the    *)
(* score bound once fixes stays fixed.                                     *)
(*                                                                         *)
(* The argument: a state has one place (Placed), parents never close a     *)
(* cycle (Acyclic), what is held back is too deep for the limit of the     *)
(* call (Deep), and what has been spent is covered by the hops and by the  *)
(* nodes that were asked (Ledger).  A hop never leads into the chain of    *)
(* the node it leaves (Kept), and nothing the walk moves enters that       *)
(* chain, so no move closes a cycle; the scores play no part in that.      *)
(*                                                                         *)
(* The scores: what hangs from a state is worth no more than it (Kindred), *)
(* and only what was expanded, if in part, has anything hang from it       *)
(* (HalfDone).  Once the bound holds, the top and the chains it hangs from *)
(* are worth at least some k and what is queued at most k (Fixes): a hop   *)
(* from the queue can then move no state of those chains, and what it      *)
(* finds, or moves elsewhere, is worth at most k.                          *)
(*                                                                         *)
(* The folds of the model are recursive functions over sets of positions;  *)
(* FoldsExist gives the one it chooses, and the lemmas about a fold then   *)
(* follow by counting up (CountingUp).                                     *)
(***************************************************************************)
EXTENDS Traverse, FiniteSetTheorems, WellFoundedInduction, TLAPS

-----------------------------------------------------------------------------
(* Numbers and folds.                                                      *)

\* A set of numbers has a least one.
LEMMA LeastNumber ==
    ASSUME NEW T, T \subseteq Nat, T # {}
    PROVE  \E x \in T : \A y \in T : x <= y
<1> DEFINE R == {ss \in Nat \X Nat : ss[1] < ss[2]}
<1>1. IsWellFoundedOn(R, Nat)
  BY NatLessThanWellFounded, Zenon DEF OpToRel
<1>2. \E x \in T : \A y \in T : ~(<<y, x>> \in R)
  BY <1>1, WFMin
<1>3. PICK x \in T : \A y \in T : ~(<<y, x>> \in R)
  BY <1>2
<1>4. ASSUME NEW y \in T PROVE x <= y
  <2>1. ~(y < x)
    BY <1>3
  <2> QED
    BY <2>1, SMT
<1> QED
  BY <1>4

\* What holds of 0, and of a number's successor with the number, holds of all.
LEMMA CountingUp ==
    ASSUME NEW S, 0 \in S, \A i \in Nat : i \in S => i + 1 \in S
    PROVE  Nat \subseteq S
<1> DEFINE T == Nat \ S
<1> SUFFICES ASSUME T # {} PROVE FALSE
  OBVIOUS
<1>1. PICK x \in T : \A y \in T : x <= y
  BY LeastNumber
<1>2. x - 1 \in Nat /\ x - 1 + 1 = x
  BY SMT
<1> QED
  BY <1>1, <1>2, SMT

\* The largest of some of the numbers up to k is one of them, and k if k is.
LEMMA MaxOfUpTo ==
    ASSUME NEW k \in Nat, NEW s \in SUBSET (1..k), s # {}
    PROVE  Max(s) \in s /\ (k \in s => Max(s) = k)
<1> DEFINE T == {i \in Nat : k - i \in s}
<1>1. T # {}
  <2> PICK j \in s : TRUE
    OBVIOUS
  <2> k - j \in Nat /\ k - (k - j) = j
    BY SMT
  <2> k - j \in T
    OBVIOUS
  <2> QED
    OBVIOUS
<1>2. PICK x \in T : \A y \in T : x <= y
  BY <1>1, LeastNumber
<1>3. \A y \in s : k - x >= y
  <2> TAKE y \in s
  <2>1. k - y \in T
    BY SMT
  <2>2. x <= k - y
    BY <1>2, <2>1
  <2> QED
    BY <2>2, SMT
<1>4. k - x \in s
  OBVIOUS
<1>5. \E z \in s : \A y \in s : z >= y
  BY <1>3, <1>4
<1>6. Max(s) \in s /\ \A y \in s : Max(s) >= y
  BY <1>5 DEF Max
<1>7. Max(s) \in 1..k
  BY <1>6
<1>8. k \in s => Max(s) >= k
  BY <1>6
<1> QED
  BY <1>6, <1>7, <1>8, SMT

\* f is what a fold by `step` computes from `base`, for every set of positions.
FoldsBy(f, L, base, step) ==
    \A s \in SUBSET (1..L) :
       f[s] = IF s = {} THEN base ELSE step[<<f[s \ {Max(s)}], Max(s)>>]

\* A step that stays in V has a fold, for every set of positions.
LEMMA FoldsExist ==
    ASSUME NEW L \in Nat, NEW V, NEW base \in V, NEW step \in [V \X (1..L) -> V]
    PROVE  \E f \in [SUBSET (1..L) -> V] : FoldsBy(f, L, base, step)
<1> DEFINE Fits(f, k) ==
      \A s \in SUBSET (1..k) :
         f[s] = IF s = {} THEN base ELSE step[<<f[s \ {Max(s)}], Max(s)>>]
      S == {k \in Nat : k <= L => \E f \in [SUBSET (1..k) -> V] : Fits(f, k)}
<1>1. 0 \in S
  <2> DEFINE f == [s \in SUBSET (1..0) |-> base]
  <2>1. f \in [SUBSET (1..0) -> V] /\ Fits(f, 0)
    BY 1..0 = {}
  <2> QED
    BY <2>1
<1>2. ASSUME NEW k \in Nat, k \in S PROVE k + 1 \in S
  <2> k + 1 \in Nat /\ (k + 1 <= L => k <= L)
    BY SMT
  <2> SUFFICES ASSUME k + 1 <= L
               PROVE  \E g \in [SUBSET (1..(k + 1)) -> V] : Fits(g, k + 1)
    OBVIOUS
  <2>0. k <= L
    OBVIOUS
  <2>1. PICK f \in [SUBSET (1..k) -> V] : Fits(f, k)
    BY <1>2, <2>0
  <2> DEFINE g == [s \in SUBSET (1..(k + 1)) |->
                     IF k + 1 \in s THEN step[<<f[s \ {k + 1}], k + 1>>] ELSE f[s]]
  <2>2. ASSUME NEW s \in SUBSET (1..(k + 1))
        PROVE  /\ s \ {k + 1} \in SUBSET (1..k)
               /\ k + 1 \notin s => s \in SUBSET (1..k)
    OBVIOUS
  <2>3. g \in [SUBSET (1..(k + 1)) -> V]
    <3> k + 1 \in 1..L
      OBVIOUS
    <3> QED
      BY <2>2
  <2>4. ASSUME NEW s \in SUBSET (1..(k + 1)), s # {}
        PROVE  g[s] = step[<<g[s \ {Max(s)}], Max(s)>>]
    <3>1. CASE k + 1 \in s
      <4>1. Max(s) = k + 1
        BY <3>1, <2>4, MaxOfUpTo
      <4>2. s \ {k + 1} \in SUBSET (1..(k + 1)) /\ k + 1 \notin s \ {k + 1}
        OBVIOUS
      <4>3. g[s \ {k + 1}] = f[s \ {k + 1}]
        BY <4>2
      <4> QED
        BY <3>1, <4>1, <4>3
    <3>2. CASE k + 1 \notin s
      <4>1. s \in SUBSET (1..k)
        BY <2>2, <3>2
      <4>2. Max(s) \in s
        BY <4>1, <2>4, MaxOfUpTo
      <4>3. s \ {Max(s)} \in SUBSET (1..k) /\ k + 1 \notin s \ {Max(s)}
             /\ s \ {Max(s)} \in SUBSET (1..(k + 1))
        BY <4>1, <3>2
      <4>4. f[s] = step[<<f[s \ {Max(s)}], Max(s)>>]
        BY <2>1, <4>1, <2>4
      <4> QED
        BY <4>3, <4>4, <3>2
    <3> QED
      BY <3>1, <3>2
  <2>5. g[{}] = base
    <3>1. f[{}] = base /\ {} \in SUBSET (1..(k + 1)) /\ k + 1 \notin {}
      BY <2>1
    <3> QED
      BY <3>1
  <2>6. Fits(g, k + 1)
    BY <2>4, <2>5
  <2> QED
    BY <2>3, <2>6
<1> HIDE DEF S
<1>3. L \in S
  BY <1>1, <1>2, CountingUp
<1>4. L <= L
  OBVIOUS
<1> QED
  BY <1>3, <1>4 DEF S, FoldsBy

\* A fold whose every step stays in V ends in V.
LEMMA FoldsStay ==
    ASSUME NEW L \in Nat, NEW V, NEW iter,
           iter[{}] \in V,
           \A u \in SUBSET (1..L) : u # {} /\ iter[u \ {Max(u)}] \in V => iter[u] \in V
    PROVE  iter[1..L] \in V
<1> DEFINE S == {k \in Nat : k <= L => iter[1..k] \in V}
<1>1. 0 \in S
  BY 1..0 = {}
<1>2. ASSUME NEW k \in Nat, k \in S PROVE k + 1 \in S
  <2> k + 1 \in Nat /\ (k + 1 <= L => k <= L)
    BY SMT
  <2> SUFFICES ASSUME k + 1 <= L PROVE iter[1..(k + 1)] \in V
    OBVIOUS
  <2>1. 1..(k + 1) \in SUBSET (1..L) /\ 1..(k + 1) \in SUBSET (1..(k + 1))
        /\ k + 1 \in 1..(k + 1)
    BY SMT
  <2>2. Max(1..(k + 1)) = k + 1
    BY <2>1, MaxOfUpTo
  <2>3. (1..(k + 1)) \ {k + 1} = 1..k
    BY SMT
  <2>4. iter[1..k] \in V
    BY <1>2
  <2> QED
    BY <2>1, <2>2, <2>3, <2>4
<1> HIDE DEF S
<1>3. L \in S /\ L <= L
  BY <1>1, <1>2, CountingUp
<1> QED
  BY <1>3 DEF S

RunType ==
    [states : Seq(Node), parent : [Node -> Node \cup {None}],
     depth : [Node -> Nat], worth : [Node -> Nat],
     live : SUBSET Node, priority : [Node -> Nat],
     seq : [Node -> Nat], next : Nat,
     inSeen : [Node -> Int], expanded : SUBSET Node, deferred : SUBSET Node,
     cleared : SUBSET Node, partial : SUBSET Node, strays : SUBSET Node,
     owing : SUBSET Node,
     paidTokens : [Node -> {0, CallTokens}], paidCalls : [Node -> 0..1],
     pops : Nat, freePops : Nat, hops : Nat, tokens : Nat, calls : Nat,
     stops : Nat, lastStop : Nat, raised : Nat, steers : Nat, confirms : Nat]

\* Adding the seeds in order ends in V when every seed added does.
LEMMA SeedsStay ==
    ASSUME NEW s \in Seq(Node), NEW limit, NEW V, NEW base \in V,
           \A r \in V, n \in Node : AddSeed(r, n, limit) \in V
    PROVE  FoldLeft(LAMBDA r, n : AddSeed(r, n, limit), base, s) \in V
<1> DEFINE L == Len(s)
           step == [p \in V \X (1..L) |-> AddSeed(p[1], s[p[2]], limit)]
           Next(g) == [u \in SUBSET (1..L) |->
                         IF u = {} THEN base ELSE AddSeed(g[u \ {Max(u)}], s[Max(u)], limit)]
           iter == CHOOSE g : g = Next(g)
<1>0. L \in Nat /\ DOMAIN s = 1..L /\ \A i \in 1..L : s[i] \in Node
  OBVIOUS
<1>1. step \in [V \X (1..L) -> V]
  BY <1>0
<1>2. PICK f \in [SUBSET (1..L) -> V] : FoldsBy(f, L, base, step)
  <2>1. L \in Nat
    BY <1>0
  <2> HIDE DEF step, L
  <2> QED
    BY <2>1, <1>1, FoldsExist, Zenon
<1>3. f = Next(f)
  <2>1. ASSUME NEW u \in SUBSET (1..L), u # {}
        PROVE  f[u] = AddSeed(f[u \ {Max(u)}], s[Max(u)], limit)
    <3>1. Max(u) \in 1..L
      BY <1>0, <2>1, MaxOfUpTo
    <3>2. f[u \ {Max(u)}] \in V
      OBVIOUS
    <3>3. f[u] = step[<<f[u \ {Max(u)}], Max(u)>>]
      BY <1>2, <2>1 DEF FoldsBy
    <3> QED
      BY <3>1, <3>2, <3>3
  <2>2. f[{}] = base
    BY <1>2 DEF FoldsBy
  <2> QED
    BY <2>1, <2>2
<1>4. iter = Next(iter)
  BY <1>3
<1>5. FoldLeft(LAMBDA r, n : AddSeed(r, n, limit), base, s) = iter[1..L]
  BY <1>0 DEF FoldLeft, MapThenFoldSet
<1>6. iter[{}] \in V
  <2> {} \in SUBSET (1..L)
    OBVIOUS
  <2> HIDE DEF iter
  <2> QED
  BY <1>4
<1>7. ASSUME NEW u \in SUBSET (1..L), u # {}, iter[u \ {Max(u)}] \in V
      PROVE  iter[u] \in V
  <2>1. Max(u) \in 1..L
    BY <1>0, <1>7, MaxOfUpTo
  <2> HIDE DEF iter
  <2>2. iter[u] = AddSeed(iter[u \ {Max(u)}], s[Max(u)], limit)
    BY <1>4, <1>7
  <2> QED
    BY <2>1, <2>2, <1>0, <1>7
<1> HIDE DEF iter
<1>8. iter[1..L] \in V
  <2>1. L \in Nat
    BY <1>0
  <2> HIDE DEF step, L, Next
  <2> QED
    BY <2>1, <1>6, <1>7, FoldsStay, ZenonT(30)
<1> QED
  BY <1>5, <1>8

\* q owes and has spent what r owes and has spent.
SameLedger(q, r) ==
    /\ q.tokens = r.tokens /\ q.calls = r.calls /\ q.confirms = r.confirms
    /\ q.owing = r.owing /\ q.paidTokens = r.paidTokens /\ q.paidCalls = r.paidCalls
    /\ q.expanded = r.expanded /\ q.pops = r.pops /\ q.freePops = r.freePops
    /\ q.raised = r.raised /\ q.cleared = r.cleared

\* q has found what r has found, by the same routes and expansions.
SameRoutes(q, r) ==
    /\ q.hops = r.hops /\ q.states = r.states /\ q.parent = r.parent
    /\ q.depth = r.depth /\ q.worth = r.worth
    /\ q.partial = r.partial /\ q.inSeen = r.inSeen

\* q has all states of r, at their worth; none hangs elsewhere or is expanded
\* further.
Extends(q, r) ==
    /\ q.parent = r.parent /\ q.expanded = r.expanded /\ q.partial = r.partial
    /\ Found(r) \subseteq Found(q)
    /\ \A n \in Found(r) : q.worth[n] = r.worth[n]

\* No state has two places: queued, expanded, held back or pruned; the queue
\* numbers its states by their discovery.
Placed(r) ==
    /\ r.live \cap r.expanded = {}
    /\ r.deferred \cap (r.live \cup r.expanded) = {}
    /\ r.cleared \cap (r.live \cup r.deferred) = {}
    /\ IsInjective(r.states)
    /\ r.live \cup r.expanded \cup r.deferred \cup r.cleared \subseteq Range(r.states)
    /\ Range(r.states) \ r.cleared \subseteq r.expanded \cup r.live \cup r.deferred \cup r.strays
    /\ \A n \in r.live : r.seq[n] < r.next
    /\ \A m, n \in r.live : r.seq[m] = r.seq[n] => m = n

\* What is held back is too deep for the limit.
Deep(r, limit) == \A n \in r.deferred : r.depth[n] >= limit

\* A state that is pushed is queued behind what was discovered before it.
LEMMA Pushed ==
    ASSUME NEW r \in RunType, NEW n \in Node, NEW p \in Nat, n \notin r.live
    PROVE  LET q == Push(r, n, p) IN
           /\ q \in RunType /\ SameLedger(q, r) /\ SameRoutes(q, r)
           /\ q.deferred = r.deferred /\ q.live = r.live \cup {n}
           /\ q.strays = r.strays \ {n} /\ q.next = r.next + 1 /\ q.seq[n] = r.next
           /\ \A m \in Node \ {n} : q.seq[m] = r.seq[m]
<1> DEFINE q == Push(r, n, p)
<1>1. q \in RunType
  <2>1. r.next + 1 \in Nat /\ r.live \cup {n} \in SUBSET Node /\ r.strays \ {n} \in SUBSET Node
    BY DEF RunType
  <2>2. [r.priority EXCEPT ![n] = p] \in [Node -> Nat] /\ [r.seq EXCEPT ![n] = r.next] \in [Node -> Nat] 
    BY DEF RunType
  <2> QED
    BY <2>1, <2>2, Zenon DEF Push, RunType
<1>2. SameLedger(q, r)
  BY DEF Push, SameLedger, RunType
<1>3. SameRoutes(q, r)
  BY DEF Push, SameRoutes, RunType
<1>4. /\ q.deferred = r.deferred /\ q.live = r.live \cup {n}
      /\ q.strays = r.strays \ {n} /\ q.next = r.next + 1 /\ q.seq[n] = r.next
      /\ \A m \in Node \ {n} : q.seq[m] = r.seq[m]
  BY DEF Push, RunType
<1> QED
  BY <1>1, <1>2, <1>3, <1>4

\* What is taken off the queue leaves all else where it was.
LEMMA Unqueued ==
    ASSUME NEW r \in RunType, NEW n \in Node
    PROVE  LET q == Unqueues(r, n) IN
           /\ q \in RunType /\ SameLedger(q, r)
           /\ SameRoutes(q, r) /\ q.deferred = r.deferred
           /\ q.live = r.live \ {n} /\ q.strays = r.strays /\ q.next = r.next
           /\ \A m \in Node \ {n} : q.seq[m] = r.seq[m]
<1> QED
  BY DEF Unqueues, SameLedger, SameRoutes, RunType

\* What is held back leaves all else where it was.
LEMMA Held ==
    ASSUME NEW r \in RunType, NEW n \in Node
    PROVE  LET q == Holds(r, n) IN
           /\ q \in RunType /\ SameLedger(q, r)
           /\ SameRoutes(q, r) /\ q.deferred = r.deferred \cup {n}
           /\ q.live = r.live /\ q.strays = r.strays \ {n} /\ q.next = r.next
           /\ q.seq = r.seq
BY DEF Holds, SameLedger, SameRoutes, RunType

\* What is no longer held back leaves all else where it was.
LEMMA Freed ==
    ASSUME NEW r \in RunType, NEW n \in Node
    PROVE  LET q == Frees(r, n) IN
           /\ q \in RunType /\ SameLedger(q, r)
           /\ SameRoutes(q, r) /\ q.deferred = r.deferred \ {n}
           /\ q.live = r.live /\ q.strays = r.strays /\ q.next = r.next
           /\ q.seq = r.seq
BY DEF Frees, SameLedger, SameRoutes, RunType

\* A new priority changes no place.
LEMMA Reordered ==
    ASSUME NEW r \in RunType, NEW n \in Node, NEW p \in Nat
    PROVE  LET q == SetPriority(r, n, p) IN
           /\ q \in RunType /\ SameLedger(q, r)
           /\ SameRoutes(q, r) /\ q.deferred = r.deferred
           /\ q.live = r.live /\ q.strays = r.strays /\ q.next = r.next
           /\ q.seq = r.seq
<1>1. Smaller(p, Top) \in Nat
  BY DEF Smaller, Top
<1> QED
  BY <1>1 DEF SetPriority, SameLedger, SameRoutes, RunType

\* A share of a number is a number.
LEMMA ShareIsANumber ==
    ASSUME NEW a \in Nat, NEW b \in Nat, NEW c \in Nat, c > 0
    PROVE  (a * b) \div c \in Nat
<1>1. a * b \in Nat
  BY SMT
<1> QED
  BY <1>1, SMT

\* A new state at the end of the states leaves them without repeats.
LEMMA NewIsAppended ==
    ASSUME NEW s \in Seq(Node), NEW n \in Node, n \notin Range(s), IsInjective(s)
    PROVE  Range(Append(s, n)) = Range(s) \cup {n} /\ IsInjective(Append(s, n))
<1> DEFINE a == Append(s, n)
           L == Len(s)
<1>1. /\ L \in Nat /\ DOMAIN s = 1..L /\ DOMAIN a = 1..(L + 1)
      /\ a[L + 1] = n /\ \A i \in 1..L : a[i] = s[i]
  OBVIOUS
<1> HIDE DEF a, L
<1>2. Range(a) = Range(s) \cup {n}
  BY <1>1 DEF Range
<1>3. IsInjective(a)
  <2> SUFFICES ASSUME NEW i \in 1..(L + 1), NEW j \in 1..(L + 1), a[i] = a[j] PROVE i = j
    BY <1>1 DEF IsInjective
  <2>1. \A k \in 1..(L + 1) : k \in 1..L \/ k = L + 1
    BY <1>1
  <2> QED
    BY <1>1, <2>1 DEF IsInjective, Range
<1> QED
  BY <1>2, <1>3 DEF a

\* A seed is queued or held back, unless it was found or pruned before.
LEMMA SeedAdded ==
    ASSUME NEW r \in RunType, NEW n \in Node, NEW limit \in Nat,
           Placed(r), Deep(r, limit)
    PROVE  LET q == AddSeed(r, n, limit) IN
           /\ q \in RunType /\ SameLedger(q, r) /\ Placed(q) /\ Deep(q, limit)
           /\ q.hops = r.hops /\ Extends(q, r)
<1> DEFINE added == [r EXCEPT !.states = Append(@, n), !.worth[n] = One]
<1> SUFFICES ASSUME n \notin r.cleared \cup Found(r)
    PROVE LET q == IF limit > 0 THEN Push(added, n, One) ELSE Holds(added, n) IN
           /\ q \in RunType /\ SameLedger(q, r) /\ Placed(q) /\ Deep(q, limit)
           /\ q.hops = r.hops /\ Extends(q, r)
  BY DEF AddSeed, SameLedger, Extends
<1>0. added \in RunType
  <2>1. /\ Append(r.states, n) \in Seq(Node)
        /\ [r.worth EXCEPT ![n] = One] \in [Node -> Nat]
    BY DEF RunType, One
  <2> QED
    BY <2>1, Zenon DEF RunType
<1>1. /\ added \in RunType /\ SameLedger(added, r) /\ added.hops = r.hops
      /\ added.parent = r.parent /\ added.depth = r.depth /\ added.live = r.live
      /\ added.deferred = r.deferred /\ added.strays = r.strays /\ added.next = r.next
      /\ added.seq = r.seq /\ added.states = Append(r.states, n)
      /\ added.partial = r.partial /\ added.worth = [r.worth EXCEPT ![n] = One]
  BY <1>0 DEF RunType, SameLedger, One
<1>2. /\ Range(added.states) = Range(r.states) \cup {n}
      /\ IsInjective(added.states)
  <2>1. r.states \in Seq(Node)
    BY DEF RunType
  <2>2. IsInjective(r.states) /\ n \notin Range(r.states)
    BY DEF Placed, Found
  <2> QED
    BY <1>1, <2>1, <2>2, NewIsAppended
<1> HIDE DEF added
<1>3. added.expanded = r.expanded /\ added.cleared = r.cleared
  BY <1>1 DEF SameLedger
<1>4. n \notin r.live \cup r.expanded \cup r.deferred \cup r.cleared
  BY DEF Placed, Found
<1>5. r.next \in Nat /\ r.seq \in [Node -> Nat] /\ r.depth \in [Node -> Nat] /\ r.live \subseteq Node
  BY DEF RunType
<1>6. One \in Nat
  BY DEF One
<1>9. Found(r) \subseteq Found(added) /\ \A m \in Found(r) : added.worth[m] = r.worth[m]
  <2>1. r.worth \in [Node -> Nat] /\ r.states \in Seq(Node)
    BY DEF RunType
  <2>2. Found(r) \subseteq Node
    BY <2>1 DEF Found, Range
  <2> QED
    BY <1>1, <1>2, <2>1, <2>2 DEF Found
<1>7. CASE limit > 0
  <2> DEFINE q == Push(added, n, One)
  <2>1. /\ q \in RunType /\ SameLedger(q, added) /\ SameRoutes(q, added)
        /\ q.deferred = added.deferred /\ q.live = added.live \cup {n}
        /\ q.next = r.next + 1 /\ q.seq[n] = r.next /\ q.strays = r.strays \ {n}
        /\ \A m \in Node \ {n} : q.seq[m] = added.seq[m]
    <3> n \notin added.live
      BY <1>1, <1>4
    <3> QED
      BY <1>1, <1>6, Pushed
  <2> HIDE DEF q
  <2>2. SameLedger(q, r) /\ q.hops = r.hops /\ q.parent = r.parent /\ Deep(q, limit)
    BY <2>1, <1>1 DEF SameLedger, SameRoutes, Deep
  <2>3. q.expanded = r.expanded /\ q.cleared = r.cleared /\ q.states = added.states
    BY <2>1, <1>3 DEF SameLedger, SameRoutes
  <2>4. Placed(q)
    BY <2>1, <2>3, <1>1, <1>2, <1>3, <1>4, <1>5 DEF Placed
  <2>5. Extends(q, r)
    BY <1>1, <1>9, <2>1, <2>2, <2>3 DEF Extends, SameRoutes, Found
  <2> QED
    BY <2>1, <2>2, <2>4, <2>5, <1>7 DEF q
<1>8. CASE ~(limit > 0)
  <2> DEFINE q == Holds(added, n)
  <2>1. /\ q \in RunType /\ SameLedger(q, added) /\ SameRoutes(q, added)
        /\ q.deferred = added.deferred \cup {n} /\ q.live = added.live
        /\ q.next = r.next /\ q.strays = r.strays \ {n} /\ q.seq = added.seq
    BY <1>1, Held
  <2> HIDE DEF q
  <2>2. SameLedger(q, r) /\ q.hops = r.hops /\ q.parent = r.parent /\ Deep(q, limit)
    BY <2>1, <1>1, <1>5, <1>8 DEF SameLedger, SameRoutes, Deep
  <2>3. q.expanded = r.expanded /\ q.cleared = r.cleared /\ q.states = added.states
    BY <2>1, <1>3 DEF SameLedger, SameRoutes
  <2>4. Placed(q)
    BY <2>1, <2>3, <1>1, <1>2, <1>3, <1>4, <1>5 DEF Placed
  <2>5. Extends(q, r)
    BY <1>1, <1>9, <2>1, <2>2, <2>3 DEF Extends, SameRoutes, Found
  <2> QED
    BY <2>1, <2>2, <2>4, <2>5, <1>8 DEF q
<1> QED
  BY <1>7, <1>8

\* A state that was held back is queued; no other place changes.
LEMMA HeldIsQueued ==
    ASSUME NEW r \in RunType, NEW n \in Node, NEW p \in Nat, Placed(r), n \in r.deferred
    PROVE  LET q == Push(Frees(r, n), n, p) IN
           /\ q \in RunType /\ SameLedger(q, r) /\ SameRoutes(q, r) /\ Placed(q)
           /\ q.deferred = r.deferred \ {n}
           /\ q.next = r.next + 1 /\ q.live = r.live \cup {n} /\ q.seq[n] = r.next
           /\ \A m \in Node \ {n} : q.seq[m] = r.seq[m]
<1> DEFINE f == Frees(r, n)
           q == Push(f, n, p)
<1>1. /\ f \in RunType /\ SameLedger(f, r) /\ SameRoutes(f, r)
      /\ f.deferred = r.deferred \ {n} /\ f.live = r.live /\ f.strays = r.strays
      /\ f.next = r.next /\ f.seq = r.seq
  BY Freed
<1> HIDE DEF f
<1>2. n \notin r.live \cup r.expanded \cup r.cleared /\ n \in Range(r.states)
  BY DEF Placed
<1>3. f.expanded = r.expanded /\ f.cleared = r.cleared /\ f.states = r.states
  BY <1>1 DEF SameLedger, SameRoutes
<1>4. /\ q \in RunType /\ SameLedger(q, f) /\ SameRoutes(q, f)
      /\ q.deferred = f.deferred /\ q.live = f.live \cup {n}
      /\ q.next = f.next + 1 /\ q.seq[n] = f.next /\ q.strays = f.strays \ {n}
      /\ \A m \in Node \ {n} : q.seq[m] = f.seq[m]
  <2> n \notin f.live
    BY <1>1, <1>2
  <2> QED
    BY <1>1, Pushed
<1> HIDE DEF q
<1>5. q.expanded = r.expanded /\ q.cleared = r.cleared /\ q.states = r.states
  BY <1>3, <1>4 DEF SameLedger, SameRoutes
<1>6. SameLedger(q, r) /\ SameRoutes(q, r)
  BY <1>1, <1>4 DEF SameLedger, SameRoutes
<1>7. r.next \in Nat /\ r.seq \in [Node -> Nat] /\ r.live \subseteq Node
  BY DEF RunType
<1>8. Placed(q)
  <2>1. r.live \cup {n} \cup r.strays = r.live \cup (r.strays \ {n}) \cup {n}
    OBVIOUS
  <2> QED
    BY <2>1, <1>1, <1>2, <1>4, <1>5, <1>7 DEF Placed
<1> QED
  BY <1>1, <1>4, <1>6, <1>8 DEF q, f

\* A queued state, or one in no place, is held back.
LEMMA QueuedIsHeld ==
    ASSUME NEW r \in RunType, NEW n \in Node, Placed(r), n \in Found(r),
           n \notin r.expanded \cup r.cleared
    PROVE  LET q == Holds(Unqueues(r, n), n) IN
           /\ q \in RunType /\ SameLedger(q, r) /\ SameRoutes(q, r) /\ Placed(q)
           /\ q.deferred = r.deferred \cup {n}
           /\ q.next = r.next /\ q.live = r.live \ {n}
           /\ \A m \in Node \ {n} : q.seq[m] = r.seq[m]
<1> DEFINE f == Unqueues(r, n)
           q == Holds(f, n)
<1>1. /\ f \in RunType /\ SameLedger(f, r) /\ SameRoutes(f, r)
      /\ f.deferred = r.deferred /\ f.live = r.live \ {n} /\ f.strays = r.strays
      /\ f.next = r.next /\ \A m \in Node \ {n} : f.seq[m] = r.seq[m]
  BY Unqueued
<1> HIDE DEF f
<1>2. /\ q \in RunType /\ SameLedger(q, f) /\ SameRoutes(q, f)
      /\ q.deferred = f.deferred \cup {n} /\ q.live = f.live
      /\ q.next = f.next /\ q.seq = f.seq /\ q.strays = f.strays \ {n}
  BY <1>1, Held
<1> HIDE DEF q
<1>3. q.expanded = r.expanded /\ q.cleared = r.cleared /\ q.states = r.states
  BY <1>1, <1>2 DEF SameLedger, SameRoutes
<1>4. SameLedger(q, r) /\ SameRoutes(q, r)
  BY <1>1, <1>2 DEF SameLedger, SameRoutes
<1>5. r.next \in Nat /\ r.seq \in [Node -> Nat] /\ r.live \subseteq Node
  BY DEF RunType
<1>6. Placed(q)
  BY <1>1, <1>2, <1>3, <1>5 DEF Placed, Found
<1> QED
  BY <1>1, <1>2, <1>4, <1>6 DEF q, f

\* The queue follows the new depth of a state that hangs from a relaxed one.
LEMMA Followed ==
    ASSUME NEW r \in RunType, NEW n \in Node, NEW new \in Nat, NEW old \in Nat, old > 0,
           NEW limit \in Nat, Placed(r), n \in Found(r)
    PROVE  LET q == Follows(r, n, new, old, limit) IN
           /\ q \in RunType /\ SameLedger(q, r) /\ SameRoutes(q, r) /\ Placed(q)
           /\ n \in q.deferred => q.depth[n] >= limit
           /\ q.deferred \ {n} = r.deferred \ {n}
           /\ q.next >= r.next /\ q.live \subseteq r.live \cup {n}
           /\ \A m \in q.live : \/ m \in r.live /\ q.seq[m] = r.seq[m]
                                \/ q.seq[m] >= r.next
<1> DEFINE q == Follows(r, n, new, old, limit)
<1>0. r.next \in Nat /\ r.live \subseteq Node /\ r.depth \in [Node -> Nat] /\ r.worth[n] \in Nat
      /\ r.priority[n] \in Nat
  BY DEF RunType
<1>1. CASE n \in r.expanded \cup r.cleared
  <2>1. q = r
    BY <1>1 DEF Follows
  <2> HIDE DEF q
  <2>2. n \notin r.deferred
    BY <1>1 DEF Placed
  <2> QED
    BY <2>1, <2>2, <1>0 DEF SameLedger, SameRoutes, q
<1>2. CASE n \notin r.expanded \cup r.cleared /\ r.depth[n] >= limit
  <2>1. q = Holds(Unqueues(r, n), n)
    BY <1>2 DEF Follows
  <2> HIDE DEF q
  <2>2. /\ q \in RunType /\ SameLedger(q, r) /\ SameRoutes(q, r) /\ Placed(q)
        /\ q.deferred = r.deferred \cup {n}
        /\ q.next = r.next /\ q.live = r.live \ {n}
        /\ \A m \in Node \ {n} : q.seq[m] = r.seq[m]
    BY <2>1, <1>2, QueuedIsHeld
  <2>3. q.depth = r.depth
    BY <2>2 DEF SameRoutes
  <2> QED
    BY <2>2, <2>3, <1>0, <1>2 DEF q
<1>3. CASE n \notin r.expanded \cup r.cleared /\ ~(r.depth[n] >= limit) /\ n \in r.live
  <2>1. q = SetPriority(r, n, (r.priority[n] * new) \div old)
    BY <1>3 DEF Follows
  <2>2. (r.priority[n] * new) \div old \in Nat
    BY <1>0, ShareIsANumber
  <2> HIDE DEF q
  <2>3. /\ q \in RunType /\ SameLedger(q, r) /\ SameRoutes(q, r)
        /\ q.deferred = r.deferred /\ q.live = r.live /\ q.strays = r.strays
        /\ q.next = r.next /\ q.seq = r.seq
    BY <2>1, <2>2, Reordered
  <2>4. q.expanded = r.expanded /\ q.cleared = r.cleared /\ q.states = r.states
    BY <2>3 DEF SameLedger, SameRoutes
  <2>5. Placed(q)
    BY <2>3, <2>4 DEF Placed
  <2>6. n \notin r.deferred
    BY <1>3 DEF Placed
  <2> QED
    BY <2>3, <2>5, <2>6, <1>0 DEF q
<1>4. CASE /\ n \notin r.expanded \cup r.cleared /\ ~(r.depth[n] >= limit)
           /\ n \notin r.live /\ n \in r.deferred
  <2>1. q = Push(Frees(r, n), n, r.worth[n])
    BY <1>4 DEF Follows
  <2> HIDE DEF q
  <2>2. /\ q \in RunType /\ SameLedger(q, r) /\ SameRoutes(q, r) /\ Placed(q)
        /\ q.deferred = r.deferred \ {n}
        /\ q.next = r.next + 1 /\ q.live = r.live \cup {n} /\ q.seq[n] = r.next
        /\ \A m \in Node \ {n} : q.seq[m] = r.seq[m]
    BY <2>1, <1>0, <1>4, HeldIsQueued
  <2> QED
    BY <2>2, <1>0 DEF q
<1>5. CASE n \notin r.expanded \cup r.cleared \cup r.live \cup r.deferred /\ ~(r.depth[n] >= limit)
  <2>1. q = r
    BY <1>5 DEF Follows
  <2> HIDE DEF q
  <2> QED
    BY <2>1, <1>5, <1>0 DEF SameLedger, SameRoutes, q
<1> QED
  BY <1>1, <1>2, <1>3, <1>4, <1>5

-----------------------------------------------------------------------------
(* The chain of a state is the least set that has it and every parent.     *)

Parents(r, C) == {r.parent[m] : m \in C} \ {None}
Closed(r, C) == Parents(r, C) \subseteq C

\* The chain of a state is reached in as many rounds as there are nodes.
LEMMA ChainGrows ==
    ASSUME NEW r \in RunType, NEW n \in Node
    PROVE  \E up \in [0..Cardinality(Node) -> SUBSET Node] :
              /\ up[0] = {n}
              /\ \A i \in 1..Cardinality(Node) : up[i] = up[i - 1] \cup Parents(r, up[i - 1])
              /\ Chain(r, n) = up[Cardinality(Node)]
<1> DEFINE N == Cardinality(Node)
           step == [p \in (SUBSET Node) \X (1..N) |-> p[1] \cup Parents(r, p[1])]
           Next(g) == [i \in 0..N |->
                         IF i = 0 THEN {n} ELSE g[i - 1] \cup ({r.parent[m] : m \in g[i - 1]} \ {None})]
           up == CHOOSE g : g = Next(g)
<1>0. N \in Nat
  BY NodesAndMenus, FS_CardinalityType
<1>1. \A C \in SUBSET Node : Parents(r, C) \in SUBSET Node
  BY DEF Parents, RunType
<1>2. step \in [(SUBSET Node) \X (1..N) -> SUBSET Node] /\ {n} \in SUBSET Node
  BY <1>1
<1>3. PICK f \in [SUBSET (1..N) -> SUBSET Node] : FoldsBy(f, N, {n}, step)
  <2> HIDE DEF step, N
  <2> QED
    BY <1>0, <1>2, FoldsExist, Zenon
<1> DEFINE g == [i \in 0..N |-> f[1..i]]
<1>4. g = Next(g)
  <2>1. g[0] = {n}
    <3>1. 1..0 = {} /\ {} \in SUBSET (1..N) /\ 0 \in 0..N
      BY <1>0
    <3> QED
      BY <1>3, <3>1 DEF FoldsBy
  <2>2. ASSUME NEW i \in 1..N
        PROVE  g[i] = g[i - 1] \cup Parents(r, g[i - 1])
    <3>1. 1..i \in SUBSET (1..N) /\ 1..i # {} /\ i \in Nat /\ i \in 1..i /\ 1..i \in SUBSET (1..i)
      BY <1>0
    <3>2. Max(1..i) = i
      BY <3>1, MaxOfUpTo
    <3>3. (1..i) \ {i} = 1..(i - 1) /\ i - 1 \in 0..N /\ i \in 0..N
      BY <1>0
    <3>4. f[1..i] = step[<<f[1..(i - 1)], i>>]
      <4> HIDE DEF step, N, g
      <4>1. f[1..i] = step[<<f[(1..i) \ {Max(1..i)}], Max(1..i)>>]
        BY <1>3, <3>1 DEF FoldsBy
      <4> QED
        BY <4>1, <3>2, <3>3
    <3>5. f[1..(i - 1)] \in SUBSET Node
      BY <1>0
    <3>6. step[<<f[1..(i - 1)], i>>] = f[1..(i - 1)] \cup Parents(r, f[1..(i - 1)])
      BY <3>5
    <3> QED
      BY <3>3, <3>4, <3>6
  <2> HIDE DEF g
  <2>3. \A i \in 0..N : i # 0 => i \in 1..N
    BY <1>0
  <2>4. DOMAIN g = 0..N /\ g = [i \in 0..N |-> g[i]]
    BY DEF g
  <2> QED
    BY <2>1, <2>2, <2>3, <2>4 DEF Parents
<1>5. up = Next(up)
  BY <1>4
<1>6. Chain(r, n) = up[N]
  BY DEF Chain
<1> HIDE DEF up
<1>7. up[0] = {n}
  BY <1>5, <1>0
<1>8. ASSUME NEW i \in 1..N PROVE up[i] = up[i - 1] \cup Parents(r, up[i - 1])
  <2> i \in 0..N /\ i # 0
    BY <1>0
  <2> QED
    BY <1>5 DEF Parents
<1>9. up \in [0..N -> SUBSET Node]
  <2> DEFINE S == {k \in Nat : k \in 0..N => up[k] \in SUBSET Node}
  <2>1. 0 \in S
    BY <1>7
  <2>2. ASSUME NEW k \in Nat, k \in S PROVE k + 1 \in S
    <3> SUFFICES ASSUME k + 1 \in 0..N PROVE up[k + 1] \in SUBSET Node
      OBVIOUS
    <3>1. k \in 0..N /\ k + 1 \in 1..N /\ (k + 1) - 1 = k
      BY <1>0
    <3>2. up[k + 1] = up[k] \cup Parents(r, up[k])
      BY <1>8, <3>1
    <3> QED
      BY <3>1, <3>2, <1>1, <2>2
  <2> HIDE DEF S
  <2>3. Nat \subseteq S
    BY <2>1, <2>2, CountingUp
  <2>4. \A k \in 0..N : up[k] \in SUBSET Node
    BY <2>3, <1>0 DEF S
  <2>5. up = [k \in 0..N |-> up[k]]
    BY <1>5
  <2> QED
    BY <2>4, <2>5
<1> QED
  BY <1>6, <1>7, <1>8, <1>9

\* A closed set that has the state has all its chain.
LEMMA ChainIsLeast ==
    ASSUME NEW r \in RunType, NEW n \in Node, NEW C, n \in C, Closed(r, C)
    PROVE  Chain(r, n) \subseteq C
<1> DEFINE N == Cardinality(Node)
<1>0. N \in Nat
  BY NodesAndMenus, FS_CardinalityType
<1>1. PICK up \in [0..N -> SUBSET Node] :
              /\ up[0] = {n}
              /\ \A i \in 1..N : up[i] = up[i - 1] \cup Parents(r, up[i - 1])
              /\ Chain(r, n) = up[N]
  BY ChainGrows
<1> DEFINE S == {k \in Nat : k \in 0..N => up[k] \subseteq C}
<1> HIDE DEF N
<1>2. 0 \in S
  BY <1>1
<1>3. ASSUME NEW k \in Nat, k \in S PROVE k + 1 \in S
  <2> SUFFICES ASSUME k + 1 \in 0..N PROVE up[k + 1] \subseteq C
    OBVIOUS
  <2>1. k \in 0..N /\ k + 1 \in 1..N /\ (k + 1) - 1 = k
    BY <1>0
  <2>2. up[k + 1] = up[k] \cup Parents(r, up[k])
    BY <1>1, <2>1
  <2>3. up[k] \subseteq C
    BY <1>3, <2>1
  <2> QED
    BY <2>2, <2>3 DEF Parents, Closed
<1>4. N \in S
  <2> HIDE DEF S
  <2> QED
    BY <1>0, <1>2, <1>3, CountingUp
<1> QED
  BY <1>0, <1>1, <1>4

\* The chain of a state is closed: it has the parents of all it has.
LEMMA ChainIsClosed ==
    ASSUME NEW r \in RunType, NEW n \in Node
    PROVE  /\ Chain(r, n) \subseteq Node /\ n \in Chain(r, n)
           /\ Closed(r, Chain(r, n))
<1> DEFINE N == Cardinality(Node)
<1>0. N \in Nat
  BY NodesAndMenus, FS_CardinalityType
<1>1. PICK up \in [0..N -> SUBSET Node] :
              /\ up[0] = {n}
              /\ \A i \in 1..N : up[i] = up[i - 1] \cup Parents(r, up[i - 1])
              /\ Chain(r, n) = up[N]
  BY ChainGrows
<1>2. \A C \in SUBSET Node : IsFiniteSet(C) /\ Cardinality(C) \in Nat /\ Cardinality(C) <= N
  BY NodesAndMenus, FS_Subset, FS_CardinalityType
<1> DEFINE S == {k \in Nat : k \in 0..N => /\ n \in up[k]
                                           /\ Closed(r, up[k]) \/ Cardinality(up[k]) > k}
<1>3. 0 \in S
  <2>1. Cardinality({n}) = 1
    BY FS_Singleton
  <2>2. n \in up[0] /\ Cardinality(up[0]) = 1
    BY <1>1, <2>1
  <2> QED
    BY <2>2
<1>4. ASSUME NEW k \in Nat, k \in S PROVE k + 1 \in S
  <2> SUFFICES ASSUME k + 1 \in 0..N
               PROVE  n \in up[k + 1] /\ (Closed(r, up[k + 1]) \/ Cardinality(up[k + 1]) > k + 1)
    OBVIOUS
  <2>1. k \in 0..N /\ k + 1 \in 1..N /\ (k + 1) - 1 = k
    BY <1>0
  <2>2. up[k + 1] = up[k] \cup Parents(r, up[k])
    BY <1>1, <2>1
  <2>3. n \in up[k] /\ (Closed(r, up[k]) \/ Cardinality(up[k]) > k)
    BY <1>4, <2>1
  <2>4. CASE Closed(r, up[k])
    BY <2>2, <2>3, <2>4 DEF Closed
  <2>5. CASE ~Closed(r, up[k])
    <3>1. up[k] \subseteq up[k + 1] /\ up[k] # up[k + 1]
      BY <2>2, <2>5 DEF Closed
    <3>2. up[k] \in SUBSET Node /\ up[k + 1] \in SUBSET Node
      BY <2>1, <1>1, <1>0
    <3>3. Cardinality(up[k]) < Cardinality(up[k + 1])
      <4>1. IsFiniteSet(up[k + 1]) /\ Cardinality(up[k]) <= Cardinality(up[k + 1])
        BY <3>1, <3>2, <1>2, FS_Subset
      <4>2. Cardinality(up[k]) # Cardinality(up[k + 1])
        BY <3>1, <3>2, <4>1, FS_Subset
      <4> QED
        BY <4>1, <4>2, <3>2, <1>2
    <3>4. Cardinality(up[k]) \in Nat /\ Cardinality(up[k + 1]) \in Nat
      BY <3>2, <1>2
    <3> QED
      BY <2>2, <2>3, <2>5, <3>3, <3>4
  <2> QED
    BY <2>4, <2>5
<1>5. N \in S
  <2> HIDE DEF S, N
  <2> QED
    BY <1>0, <1>3, <1>4, CountingUp
<1>6. up[N] \in SUBSET Node /\ n \in up[N] /\ (Closed(r, up[N]) \/ Cardinality(up[N]) > N)
  BY <1>0, <1>1, <1>5
<1>7. ~(Cardinality(up[N]) > N)
  <2> Cardinality(up[N]) \in Nat /\ Cardinality(up[N]) <= N
    BY <1>2, <1>6
  <2> QED
    BY <1>0
<1> QED
  BY <1>1, <1>6, <1>7

-----------------------------------------------------------------------------
(* No state hangs from itself.                                             *)

Acyclic(r) == \A C \in SUBSET Node : C # {} => \E n \in C : r.parent[n] \notin C

\* Where no parents close a cycle, no state is in its parent's chain.
LEMMA NoneHangsFromItself ==
    ASSUME NEW r \in RunType, Acyclic(r), NEW n \in Node, r.parent[n] # None
    PROVE  n \notin Chain(r, r.parent[n])
<1> DEFINE p == r.parent[n]
           C == {m \in Chain(r, p) : n \in Chain(r, m)}
<1>0. p \in Node
  BY DEF RunType
<1> SUFFICES ASSUME n \in Chain(r, p) PROVE FALSE
  OBVIOUS
<1>1. p \in C /\ C \subseteq Node
  BY <1>0, ChainIsClosed
<1>2. PICK m \in C : r.parent[m] \notin C
  BY <1>1 DEF Acyclic
<1>3. m \in Node /\ Closed(r, Chain(r, p))
  BY <1>0, <1>1, ChainIsClosed
<1>4. m # n
  BY <1>1, <1>2
<1>5. r.parent[m] # None
  <2> SUFFICES ASSUME r.parent[m] = None PROVE FALSE
    OBVIOUS
  <2>1. Closed(r, {m})
    BY DEF Closed, Parents
  <2>2. Chain(r, m) \subseteq {m}
    BY <1>3, <2>1, ChainIsLeast
  <2> QED
    BY <1>4, <2>2
<1>6. r.parent[m] \in Node
  BY <1>3, <1>5 DEF RunType
<1>7. r.parent[m] \in Chain(r, p)
  BY <1>3, <1>5 DEF Closed, Parents
<1>8. n \in Chain(r, r.parent[m])
  <2> DEFINE D == {m} \cup Chain(r, r.parent[m])
  <2>1. Closed(r, Chain(r, r.parent[m])) /\ r.parent[m] \in Chain(r, r.parent[m])
    BY <1>6, ChainIsClosed
  <2>2. Closed(r, D)
    BY <2>1 DEF Closed, Parents
  <2>3. Chain(r, m) \subseteq D
    BY <1>3, <2>2, ChainIsLeast
  <2> QED
    BY <1>4, <2>3
<1> QED
  BY <1>2, <1>7, <1>8

\* A state outside a closed set that is hung from one inside closes no cycle.
LEMMA MovesUnderItsRoute ==
    ASSUME NEW r \in RunType, NEW q \in RunType, NEW n \in Node, NEW from \in Node, NEW A,
           q.parent = [r.parent EXCEPT ![n] = from],
           Acyclic(r), Closed(r, A), from \in A, n \notin A
    PROVE  Acyclic(q) /\ Closed(q, A)
<1>0. r.parent \in [Node -> Node \cup {None}] /\ \A m \in Node \ {n} : q.parent[m] = r.parent[m]
  BY DEF RunType
<1>1. Closed(q, A)
  BY <1>0 DEF Closed, Parents
<1>2. ASSUME NEW C \in SUBSET Node, C # {}, \A m \in C : q.parent[m] \in C
      PROVE  FALSE
  <2>1. CASE n \notin C
    BY <1>0, <1>2, <2>1 DEF Acyclic
  <2>2. CASE n \in C
    <3>1. from \in C
      BY <1>0, <1>2, <2>2
    <3>2. C \cap A # {} /\ C \cap A \in SUBSET Node
      BY <3>1
    <3>3. PICK m \in C \cap A : r.parent[m] \notin C \cap A
      BY <3>2 DEF Acyclic
    <3>4. m \in Node /\ q.parent[m] = r.parent[m] /\ q.parent[m] \in C
      BY <1>0, <1>2
    <3>5. r.parent[m] # None
      BY <3>4, NodesAndMenus
    <3>6. r.parent[m] \in A
      BY <3>5 DEF Closed, Parents
    <3> QED
      BY <3>3, <3>4, <3>6
  <2> QED
    BY <2>1, <2>2
<1> QED
  BY <1>1, <1>2 DEF Acyclic

-----------------------------------------------------------------------------
(* What hangs from a relaxed state follows its new route.                  *)

\* The walk discovers in order: what q has queued and r had not comes after.
Later(q, r) ==
    /\ q.next >= r.next
    /\ \A m \in q.live : \/ m \in r.live /\ q.seq[m] = r.seq[m]
                         \/ q.seq[m] >= r.next

ScaledBelow(r, root, new, old) ==
    LET below == Below(r, root)
        up == Cardinality(Chain(r, root))
    IN [r EXCEPT
            !.worth = [n \in Node |-> IF n \in below THEN (@[n] * new) \div old ELSE @[n]],
            !.depth = [n \in Node |-> IF n \in below
                           THEN r.depth[root] + Cardinality(Chain(r, n)) - up ELSE @[n]]]
Rescales(q, r, root, new, old) ==
    \A n \in Node :
       q.worth[n] = IF n \in Below(r, root) THEN (r.worth[n] * new) \div old ELSE r.worth[n]
FollowAll(base, s, below, new, old, limit) ==
    FoldLeft(LAMBDA q, n : IF n \in below THEN Follows(q, n, new, old, limit) ELSE q, base, s)

\* The new worths and depths of what hangs below are numbers.
LEMMA Scaled ==
    ASSUME NEW r \in RunType, NEW root \in Node, NEW new \in Nat, NEW old \in Nat, old > 0
    PROVE  LET q == ScaledBelow(r, root, new, old) IN
           /\ q \in RunType /\ SameLedger(q, r)
           /\ q.hops = r.hops /\ q.states = r.states /\ q.parent = r.parent
           /\ q.deferred = r.deferred /\ q.live = r.live /\ q.strays = r.strays
           /\ q.next = r.next /\ q.seq = r.seq
           /\ \A n \in Node \ Below(r, root) : q.depth[n] = r.depth[n]
           /\ q.partial = r.partial /\ q.inSeen = r.inSeen
           /\ Rescales(q, r, root, new, old)
<1> DEFINE up == Cardinality(Chain(r, root))
           worth == [n \in Node |-> IF n \in Below(r, root)
                        THEN (r.worth[n] * new) \div old ELSE r.worth[n]]
           depth == [n \in Node |-> IF n \in Below(r, root)
                        THEN r.depth[root] + Cardinality(Chain(r, n)) - up ELSE r.depth[n]]
<1>0. \A n \in Node : r.worth[n] \in Nat /\ r.depth[n] \in Nat
  BY DEF RunType
<1>1. worth \in [Node -> Nat]
  BY <1>0, ShareIsANumber
<1>2. ASSUME NEW n \in Below(r, root), n \in Node
      PROVE  Cardinality(Chain(r, n)) - up \in Nat
  <2>1. root \in Chain(r, n)
    BY DEF Below
  <2>2. Chain(r, root) \subseteq Chain(r, n) /\ Chain(r, n) \subseteq Node
    BY <1>2, <2>1, ChainIsClosed, ChainIsLeast
  <2>3. IsFiniteSet(Chain(r, n))
    BY <2>2, NodesAndMenus, FS_Subset
  <2>4. IsFiniteSet(Chain(r, root)) /\ up <= Cardinality(Chain(r, n))
    BY <2>2, <2>3, FS_Subset
  <2>5. up \in Nat /\ Cardinality(Chain(r, n)) \in Nat
    BY <2>3, <2>4, FS_CardinalityType
  <2> QED
    BY <2>4, <2>5
<1>3. depth \in [Node -> Nat]
  <2> SUFFICES ASSUME NEW n \in Node PROVE depth[n] \in Nat
    OBVIOUS
  <2>1. CASE n \in Below(r, root)
    <3> HIDE DEF up
    <3>1. Cardinality(Chain(r, n)) - up \in Nat
      BY <1>2, <2>1
    <3> DEFINE d == Cardinality(Chain(r, n)) - up
    <3>2. up \in Nat /\ Cardinality(Chain(r, n)) \in Nat
      <4> \A m \in Node : IsFiniteSet(Chain(r, m))
        BY ChainIsClosed, NodesAndMenus, FS_Subset
      <4> QED
        BY FS_CardinalityType DEF up
    <3>3. r.depth[root] + Cardinality(Chain(r, n)) - up \in Nat
      BY <1>0, <3>1, <3>2
    <3> QED
      BY <2>1, <3>3
  <2>2. CASE n \notin Below(r, root)
    BY <1>0, <2>2
  <2> QED
    BY <2>1, <2>2
<1> HIDE DEF worth, depth
<1>4. ScaledBelow(r, root, new, old) = [r EXCEPT !.worth = worth, !.depth = depth]
  BY DEF ScaledBelow, worth, depth
<1>5. \A n \in Node \ Below(r, root) : depth[n] = r.depth[n]
  BY DEF depth
<1>6. [r EXCEPT !.worth = worth, !.depth = depth] \in RunType
  BY <1>1, <1>3, Zenon DEF RunType
<1> DEFINE q == [r EXCEPT !.worth = worth, !.depth = depth]
<1>7. /\ q \in RunType /\ SameLedger(q, r)
      /\ q.hops = r.hops /\ q.states = r.states /\ q.parent = r.parent
      /\ q.deferred = r.deferred /\ q.live = r.live /\ q.strays = r.strays
      /\ q.next = r.next /\ q.seq = r.seq /\ q.partial = r.partial /\ q.inSeen = r.inSeen
      /\ q.worth = worth /\ q.depth = depth
  BY <1>6 DEF SameLedger, RunType
<1>8. Rescales(q, r, root, new, old)
  <2>1. q.worth = worth
    BY <1>7
  <2> HIDE DEF q
  <2> QED
    BY <2>1 DEF Rescales, worth
<1> QED
  BY <1>4, <1>5, <1>7, <1>8

\* The queue follows all that hangs from a relaxed state.
LEMMA FollowedAll ==
    ASSUME NEW base \in RunType, Placed(base), NEW below,
           NEW new \in Nat, NEW old \in Nat, old > 0, NEW limit \in Nat
    PROVE  LET q == FollowAll(base, base.states, below, new, old, limit) IN
           /\ q \in RunType /\ SameLedger(q, base) /\ SameRoutes(q, base)
           /\ Placed(q) /\ Later(q, base)
           /\ q.deferred \ below = base.deferred \ below
           /\ q.live \ below \subseteq base.live
           /\ \A n \in q.deferred \cap below : q.depth[n] >= limit
<1> DEFINE s == base.states
           L == Len(s)
           Op(q, n) == IF n \in below THEN Follows(q, n, new, old, limit) ELSE q
           V == {q \in RunType : SameLedger(q, base) /\ SameRoutes(q, base)
                   /\ Placed(q) /\ Later(q, base)
                   /\ q.deferred \ below = base.deferred \ below
                   /\ q.live \ below \subseteq base.live}
           step == [p \in V \X (1..L) |-> Op(p[1], s[p[2]])]
           Next(g) == [u \in SUBSET (1..L) |->
                         IF u = {} THEN base ELSE Op(g[u \ {Max(u)}], s[Max(u)])]
           iter == CHOOSE g : g = Next(g)
<1>0. /\ s \in Seq(Node) /\ L \in Nat /\ DOMAIN s = 1..L /\ \A i \in 1..L : s[i] \in Node
      /\ Range(s) = {s[i] : i \in 1..L}
  <2>1. s \in Seq(Node)
    BY DEF RunType
  <2> HIDE DEF s
  <2> QED
    BY <2>1 DEF Range
<1>1. ASSUME NEW q \in V, NEW n \in Range(s)
      PROVE  /\ Op(q, n) \in V
             /\ n \in Op(q, n).deferred \cap below => Op(q, n).depth[n] >= limit
             /\ \A m \in Node \ {n} : m \in Op(q, n).deferred <=> m \in q.deferred
  <2>1. n \in Node /\ q \in RunType /\ Placed(q) /\ n \in Found(q)
    BY <1>0 DEF SameRoutes, Found
  <2>2. CASE n \notin below
    BY <2>1, <2>2
  <2>3. CASE n \in below
    <3> DEFINE f == Follows(q, n, new, old, limit)
    <3>1. /\ f \in RunType /\ SameLedger(f, q) /\ SameRoutes(f, q) /\ Placed(f)
          /\ n \in f.deferred => f.depth[n] >= limit
          /\ f.deferred \ {n} = q.deferred \ {n}
          /\ f.next >= q.next /\ f.live \subseteq q.live \cup {n}
          /\ \A m \in f.live : \/ m \in q.live /\ f.seq[m] = q.seq[m]
                               \/ f.seq[m] >= q.next
      BY <2>1, Followed
    <3> HIDE DEF f
    <3>2. SameLedger(f, base) /\ SameRoutes(f, base)
      BY <3>1 DEF SameLedger, SameRoutes
    <3>3. Later(f, base)
      <4>1. /\ base.next \in Nat /\ q.next \in Nat /\ f.next \in Nat
            /\ \A m \in Node : f.seq[m] \in Nat
            /\ f.live \subseteq Node
        BY <3>1, <2>1 DEF RunType
      <4>2. Later(q, base)
        OBVIOUS
      <4> HIDE DEF V
      <4> QED
        BY <3>1, <4>1, <4>2 DEF Later
    <3>4. f.deferred \ below = base.deferred \ below /\ f.live \ below \subseteq base.live
      BY <3>1, <2>3
    <3>5. Op(q, n) = f
      BY <2>3 DEF f
    <3> QED
      BY <3>1, <3>2, <3>3, <3>4, <3>5
  <2> QED
    BY <2>2, <2>3
<1>2. base \in V
  <2> base.next \in Nat
    BY DEF RunType
  <2> QED
    BY DEF SameLedger, SameRoutes, Later
<1> HIDE DEF V, Op, s
<1>3. step \in [V \X (1..L) -> V]
  BY <1>0, <1>1
<1>4. PICK f \in [SUBSET (1..L) -> V] : FoldsBy(f, L, base, step)
  <2> HIDE DEF step, L
  <2> QED
    BY <1>0, <1>2, <1>3, FoldsExist, Zenon
<1>5. f = Next(f)
  <2>1. ASSUME NEW u \in SUBSET (1..L), u # {}
        PROVE  f[u] = Op(f[u \ {Max(u)}], s[Max(u)])
    <3>1. Max(u) \in 1..L
      BY <1>0, <2>1, MaxOfUpTo
    <3>2. f[u \ {Max(u)}] \in V
      OBVIOUS
    <3>3. f[u] = step[<<f[u \ {Max(u)}], Max(u)>>]
      BY <1>4, <2>1 DEF FoldsBy
    <3> QED
      BY <3>1, <3>2, <3>3
  <2>2. f[{}] = base
    BY <1>4 DEF FoldsBy
  <2> QED
    BY <2>1, <2>2
<1>6. iter = Next(iter)
  BY <1>5
<1>7. FollowAll(base, s, below, new, old, limit) = iter[1..L]
  BY <1>0 DEF FollowAll, FoldLeft, MapThenFoldSet, Op
<1> DEFINE Seen(k) == {q \in V : \A i \in 1..k : s[i] \in q.deferred \cap below => q.depth[s[i]] >= limit}
<1> HIDE DEF iter
<1>8. iter[1..0] \in Seen(0)
  <2> 1..0 = {} /\ {} \in SUBSET (1..L)
    OBVIOUS
  <2> QED
    BY <1>6, <1>2
<1>9. ASSUME NEW k \in Nat, k + 1 <= L, iter[1..k] \in Seen(k)
      PROVE  iter[1..(k + 1)] \in Seen(k + 1)
  <2>1. iter[1..(k + 1)] = Op(iter[1..k], s[k + 1])
    <3>1. /\ 1..(k + 1) \in SUBSET (1..L) /\ 1..(k + 1) \in SUBSET (1..(k + 1))
          /\ k + 1 \in 1..(k + 1) /\ (1..(k + 1)) \ {k + 1} = 1..k /\ k + 1 \in Nat
          /\ 1..(k + 1) # {}
      BY <1>0, <1>9
    <3>2. Max(1..(k + 1)) = k + 1
      BY <3>1, MaxOfUpTo
    <3> QED
      BY <1>6, <3>1, <3>2
  <2> DEFINE q == iter[1..k]
             n == s[k + 1]
  <2>2. q \in V /\ n \in Range(s) /\ n \in Node
    BY <1>0, <1>9
  <2>3. /\ Op(q, n) \in V
        /\ n \in Op(q, n).deferred \cap below => Op(q, n).depth[n] >= limit
        /\ \A m \in Node \ {n} : m \in Op(q, n).deferred <=> m \in q.deferred
    BY <2>2, <1>1
  <2>4. Op(q, n).depth = q.depth
    BY <2>2, <2>3 DEF V, SameRoutes
  <2>5. ASSUME NEW i \in 1..(k + 1), s[i] \in Op(q, n).deferred \cap below
        PROVE  Op(q, n).depth[s[i]] >= limit
    <3>1. CASE s[i] = n
      BY <2>3, <2>5, <3>1
    <3>2. CASE s[i] # n
      <4>1. i \in 1..k /\ s[i] \in Node
        BY <1>0, <1>9, <3>2
      <4>2. s[i] \in q.deferred \cap below
        BY <2>3, <2>5, <3>2, <4>1
      <4> QED
        BY <1>9, <2>4, <4>1, <4>2
    <3> QED
      BY <3>1, <3>2
  <2> QED
    BY <2>1, <2>3, <2>5
<1>10. iter[1..L] \in Seen(L)
  <2> DEFINE S == {k \in Nat : k <= L => iter[1..k] \in Seen(k)}
  <2>1. 0 \in S
    BY <1>8
  <2>2. ASSUME NEW k \in Nat, k \in S PROVE k + 1 \in S
    <3>1. k + 1 \in Nat /\ (k + 1 <= L => k <= L)
      BY <1>0
    <3> HIDE DEF Seen, L
    <3> QED
      BY <2>2, <3>1, <1>9
  <2> HIDE DEF S
  <2>3. L \in S
    BY <1>0, <2>1, <2>2, CountingUp
  <2> HIDE DEF Seen
  <2> QED
    BY <1>0, <2>3 DEF S
<1> DEFINE q == iter[1..L]
<1>11. q \in V
  BY <1>10
<1>12. ASSUME NEW n \in q.deferred \cap below PROVE q.depth[n] >= limit
  <2>1. Placed(q) /\ q.states = s
    BY <1>11 DEF V, SameRoutes, s
  <2>2. n \in Range(s)
    BY <2>1 DEF Placed
  <2>3. PICK i \in 1..L : s[i] = n
    BY <1>0, <2>2
  <2> QED
    BY <1>10, <1>12, <2>3
<1> HIDE DEF q
<1>13. q = FollowAll(base, base.states, below, new, old, limit)
  BY <1>7 DEF q, s
<1> QED
  BY <1>11, <1>12, <1>13 DEF V

\* What hangs from a relaxed state keeps its place, and is held when too deep.
LEMMA Rescaled ==
    ASSUME NEW r \in RunType, Placed(r), NEW root \in Node,
           NEW new \in Nat, NEW old \in Nat, old > 0, NEW limit \in Nat, Deep(r, limit)
    PROVE  LET q == RescaleBelow(r, root, new, old, limit) IN
           /\ q \in RunType /\ SameLedger(q, r)
           /\ q.hops = r.hops /\ q.states = r.states /\ q.parent = r.parent
           /\ Placed(q) /\ Deep(q, limit) /\ Later(q, r)
           /\ q.partial = r.partial /\ q.inSeen = r.inSeen
           /\ q.live \subseteq r.live \cup Below(r, root)
           /\ \A n \in Node \ Below(r, root) : q.depth[n] = r.depth[n]
           /\ Rescales(q, r, root, new, old)
<1> DEFINE f == ScaledBelow(r, root, new, old)
           q == FollowAll(f, f.states, Below(r, root), new, old, limit)
<1>1. /\ f \in RunType /\ SameLedger(f, r)
      /\ f.hops = r.hops /\ f.states = r.states /\ f.parent = r.parent
      /\ f.deferred = r.deferred /\ f.live = r.live /\ f.strays = r.strays
      /\ f.next = r.next /\ f.seq = r.seq
      /\ \A n \in Node \ Below(r, root) : f.depth[n] = r.depth[n]
      /\ f.partial = r.partial /\ f.inSeen = r.inSeen
      /\ Rescales(f, r, root, new, old)
  BY Scaled
<1>2. RescaleBelow(r, root, new, old, limit) =
          FollowAll(f, r.states, Below(r, root), new, old, limit)
  BY Zenon DEF RescaleBelow, FollowAll, ScaledBelow
<1>3. RescaleBelow(r, root, new, old, limit) = q
  BY <1>1, <1>2
<1> HIDE DEF f
<1>4. f.expanded = r.expanded /\ f.cleared = r.cleared
  BY <1>1 DEF SameLedger
<1>5. Placed(f)
  BY <1>1, <1>4 DEF Placed
<1>6. /\ q \in RunType /\ SameLedger(q, f) /\ SameRoutes(q, f)
      /\ Placed(q) /\ Later(q, f)
      /\ q.deferred \ Below(r, root) = f.deferred \ Below(r, root)
      /\ q.live \ Below(r, root) \subseteq f.live
      /\ \A n \in q.deferred \cap Below(r, root) : q.depth[n] >= limit
  BY <1>1, <1>5, FollowedAll
<1> HIDE DEF q
<1>7. SameLedger(q, r) /\ q.hops = r.hops /\ q.states = r.states /\ q.parent = r.parent
  BY <1>1, <1>6 DEF SameLedger, SameRoutes
<1>8. Deep(q, limit)
  <2> SUFFICES ASSUME NEW n \in q.deferred PROVE q.depth[n] >= limit
    BY DEF Deep
  <2>1. n \in Node /\ q.depth[n] = f.depth[n]
    BY <1>6 DEF RunType, SameRoutes
  <2>2. n \in Below(r, root) \/ n \in r.deferred
    BY <1>1, <1>6
  <2> QED
    BY <1>1, <1>6, <2>1, <2>2 DEF Deep
<1>9. Later(q, r)
  BY <1>1, <1>6 DEF Later
<1>10. /\ q.partial = r.partial /\ q.inSeen = r.inSeen
       /\ q.live \subseteq r.live \cup Below(r, root)
       /\ \A n \in Node \ Below(r, root) : q.depth[n] = r.depth[n]
       /\ Rescales(q, r, root, new, old)
  <2>1. q.worth = f.worth /\ q.depth = f.depth /\ q.partial = f.partial /\ q.inSeen = f.inSeen
    BY <1>6 DEF SameRoutes
  <2> QED
    BY <1>1, <1>6, <2>1 DEF Rescales
<1> QED
  BY <1>3, <1>6, <1>7, <1>8, <1>9, <1>10

\* The chains, and what hangs below a state, are made by the parents alone.
LEMMA SameParentsSameBelow ==
    ASSUME NEW r \in RunType, NEW q \in RunType, q.parent = r.parent, q.states = r.states,
           NEW n \in Node
    PROVE  Chain(q, n) = Chain(r, n) /\ Below(q, n) = Below(r, n)
<1>1. ASSUME NEW m \in Node PROVE Chain(q, m) = Chain(r, m)
  <2>1. /\ m \in Chain(q, m) /\ Closed(q, Chain(q, m))
        /\ m \in Chain(r, m) /\ Closed(r, Chain(r, m))
    BY ChainIsClosed
  <2>2. Closed(r, Chain(q, m)) /\ Closed(q, Chain(r, m))
    BY <2>1 DEF Closed, Parents
  <2> QED
    BY <2>1, <2>2, ChainIsLeast
<1>2. Found(q) = Found(r) /\ Found(r) \subseteq Node
  <2>1. r.states \in Seq(Node)
    BY DEF RunType
  <2> QED
    BY <2>1 DEF Found, Range
<1> QED
  BY <1>1, <1>2 DEF Below

\* q is r after the route from `from` at this potential has moved n, and what
\* hangs from n with it.
Moves(q, r, from, n, potential) ==
    /\ n \notin r.expanded /\ (n \in r.deferred \/ potential > r.worth[n])
    /\ q.parent = [r.parent EXCEPT ![n] = from]
    /\ q.live \subseteq r.live \cup {n} \cup Below(q, n)
    /\ \A m \in Node \ ({n} \cup Below(q, n)) : q.depth[m] = r.depth[m]
    /\ q.partial = r.partial /\ q.inSeen = r.inSeen
    /\ \A m \in Node : q.worth[m] =
          IF m = n THEN potential
          ELSE IF n \in r.partial /\ r.worth[n] > 0 /\ m \in Below(q, n)
          THEN (r.worth[m] * potential) \div r.worth[n]
          ELSE r.worth[m]

\* A route to a state that was found moves it, or leaves all as it was.
LEMMA Arrived ==
    ASSUME NEW r \in RunType, Placed(r), NEW limit \in Nat, Deep(r, limit),
           NEW from \in Node, NEW n \in Node, n \in Found(r) \ r.cleared, NEW potential \in Nat
    PROVE  LET q == Arrive(r, from, n, potential, limit) IN
           /\ q \in RunType /\ SameLedger(q, r)
           /\ q.hops = r.hops /\ q.states = r.states
           /\ Placed(q) /\ Deep(q, limit) /\ Later(q, r)
           /\ q.parent \in {r.parent, [r.parent EXCEPT ![n] = from]}
           /\ q = r \/ Moves(q, r, from, n, potential)
<1> DEFINE depth == r.depth[from] + 1
           old == r.worth[n]
           moved == [r EXCEPT !.parent[n] = from, !.depth[n] = depth, !.worth[n] = potential]
           set == IF r.priority[n] # old /\ old > 0
                  THEN SetPriority(moved, n, (r.priority[n] * potential) \div old)
                  ELSE SetPriority(moved, n, potential)
           placed == IF Unblocks(r, n, depth, limit) THEN Push(Frees(moved, n), n, potential)
                     ELSE set
           Good(q) == /\ q \in RunType /\ SameLedger(q, r)
                      /\ q.hops = r.hops /\ q.states = r.states
                      /\ Placed(q) /\ Deep(q, limit) /\ Later(q, r)
                      /\ q.parent \in {r.parent, [r.parent EXCEPT ![n] = from]}
           Framed(q) == /\ q.parent = [r.parent EXCEPT ![n] = from]
                        /\ q.worth = [r.worth EXCEPT ![n] = potential]
                        /\ \A m \in Node \ {n} : q.depth[m] = r.depth[m]
                        /\ q.partial = r.partial /\ q.inSeen = r.inSeen
                        /\ q.live \subseteq r.live \cup {n}
<1>0. /\ depth \in Nat /\ old \in Nat /\ r.priority[n] \in Nat /\ r.next \in Nat
      /\ r.live \subseteq Node /\ r.deferred \subseteq Node /\ r.seq \in [Node -> Nat]
  <2>1. /\ r.depth[from] \in Nat /\ r.worth[n] \in Nat /\ r.priority[n] \in Nat
    BY DEF RunType
  <2>2. /\ r.next \in Nat /\ r.live \subseteq Node /\ r.deferred \subseteq Node
        /\ r.seq \in [Node -> Nat]
    BY DEF RunType
  <2> QED
    BY <2>1, <2>2
<1>1. CASE ~IsStronger(r, n, potential, depth, limit)
  <2>1. Arrive(r, from, n, potential, limit) = r
    BY <1>1 DEF Arrive
  <2>2. Good(r)
    BY <1>0 DEF SameLedger, Later
  <2> QED
    BY <2>1, <2>2
<1>2. CASE IsStronger(r, n, potential, depth, limit)
  <2>0. n \notin r.expanded
    BY <1>2 DEF IsStronger
  <2>1. moved \in RunType
    <3>1. /\ [r.parent EXCEPT ![n] = from] \in [Node -> Node \cup {None}]
          /\ [r.depth EXCEPT ![n] = depth] \in [Node -> Nat]
          /\ [r.worth EXCEPT ![n] = potential] \in [Node -> Nat]
      BY <1>0 DEF RunType
    <3> HIDE DEF depth
    <3> QED
      BY <3>1, Zenon DEF RunType
  <2>2. /\ SameLedger(moved, r) /\ moved.hops = r.hops /\ moved.states = r.states
        /\ moved.live = r.live /\ moved.deferred = r.deferred /\ moved.strays = r.strays
        /\ moved.next = r.next /\ moved.seq = r.seq
        /\ moved.parent = [r.parent EXCEPT ![n] = from]
        /\ moved.depth = [r.depth EXCEPT ![n] = depth]
        /\ moved.worth = [r.worth EXCEPT ![n] = potential]
        /\ moved.partial = r.partial /\ moved.inSeen = r.inSeen
    BY <2>1 DEF SameLedger, RunType
  <2>3. moved.expanded = r.expanded /\ moved.cleared = r.cleared
    BY <2>2 DEF SameLedger
  <2> HIDE DEF moved
  <2>4. Placed(moved)
    BY <2>2, <2>3 DEF Placed
  <2>5. moved.depth[n] = depth /\ \A m \in Node \ {n} : moved.depth[m] = r.depth[m]
    BY <2>2 DEF RunType
  <2> HIDE DEF depth
  <2>6. ASSUME Unblocks(r, n, depth, limit) PROVE Good(placed) /\ Framed(placed)
    <3> DEFINE q == Push(Frees(moved, n), n, potential)
    <3>1. n \in moved.deferred
      BY <2>2, <2>6 DEF Unblocks
    <3>2. /\ q \in RunType /\ SameLedger(q, moved) /\ SameRoutes(q, moved) /\ Placed(q)
          /\ q.deferred = moved.deferred \ {n}
          /\ q.next = moved.next + 1 /\ q.live = moved.live \cup {n} /\ q.seq[n] = moved.next
          /\ \A m \in Node \ {n} : q.seq[m] = moved.seq[m]
      BY <2>1, <2>4, <3>1, HeldIsQueued
    <3> HIDE DEF q
    <3>3. /\ SameLedger(q, r) /\ q.hops = r.hops /\ q.states = r.states
          /\ q.parent = moved.parent /\ q.depth = moved.depth
          /\ q.worth = moved.worth /\ q.partial = moved.partial /\ q.inSeen = moved.inSeen
      BY <2>2, <3>2 DEF SameLedger, SameRoutes
    <3>4. Deep(q, limit)
      BY <2>2, <2>5, <3>2, <3>3, <1>0 DEF Deep
    <3>5. Later(q, r)
      BY <2>2, <3>2, <1>0 DEF Later
    <3>6. placed = q
      BY <2>6 DEF q
    <3> HIDE DEF placed
    <3>7. Good(placed)
      BY <2>2, <3>2, <3>3, <3>4, <3>5, <3>6
    <3> QED
      BY <2>2, <2>5, <3>2, <3>3, <3>6, <3>7
  <2>7. ASSUME ~Unblocks(r, n, depth, limit) PROVE Good(placed) /\ Framed(placed)
    <3>1. PICK p \in Nat : set = SetPriority(moved, n, p)
      <4>1. CASE r.priority[n] # old /\ old > 0
        <5> DEFINE p == (r.priority[n] * potential) \div old
        <5>1. p \in Nat
          BY <1>0, <4>1, ShareIsANumber
        <5>2. set = SetPriority(moved, n, p)
          BY <4>1
        <5> HIDE DEF p, set
        <5> QED
          BY <5>1, <5>2
      <4>2. CASE ~(r.priority[n] # old /\ old > 0)
        BY <4>2
      <4> QED
        BY <4>1, <4>2
    <3>2. /\ set \in RunType /\ SameLedger(set, moved) /\ SameRoutes(set, moved)
          /\ set.deferred = moved.deferred /\ set.live = moved.live /\ set.strays = moved.strays
          /\ set.next = moved.next /\ set.seq = moved.seq
      <4> HIDE DEF set
      <4> QED
        BY <2>1, <3>1, Reordered
    <3>3. placed = set
      BY <2>7
    <3> HIDE DEF set, placed
    <3>4. /\ SameLedger(set, r) /\ set.hops = r.hops /\ set.states = r.states
          /\ set.parent = moved.parent /\ set.depth = moved.depth
          /\ set.worth = moved.worth /\ set.partial = moved.partial
          /\ set.inSeen = moved.inSeen
      BY <2>2, <3>2 DEF SameLedger, SameRoutes
    <3>5. set.expanded = r.expanded /\ set.cleared = r.cleared
      BY <3>4 DEF SameLedger
    <3>6. Placed(set)
      BY <2>2, <3>2, <3>4, <3>5 DEF Placed
    <3>7. Deep(set, limit)
      <4>1. n \in r.deferred => depth >= limit
        BY <2>7, <1>0 DEF Unblocks
      <4> QED
        BY <2>2, <2>5, <3>2, <3>4, <4>1, <1>0 DEF Deep
    <3>8. Later(set, r)
      BY <2>2, <3>2, <1>0 DEF Later
    <3>9. Good(set)
      BY <2>2, <3>2, <3>4, <3>6, <3>7, <3>8
    <3> QED
      BY <2>2, <2>5, <3>2, <3>3, <3>4, <3>9
  <2>8. Good(placed) /\ Framed(placed)
    BY <2>6, <2>7
  <2>9. CASE n \in r.partial /\ old > 0
    <3> DEFINE q == RescaleBelow(placed, n, potential, old, limit)
    <3>1. Arrive(r, from, n, potential, limit) = q
      BY <1>2, <2>9 DEF Arrive, moved, depth
    <3> HIDE DEF placed
    <3>2. /\ q \in RunType /\ SameLedger(q, placed)
          /\ q.hops = placed.hops /\ q.states = placed.states /\ q.parent = placed.parent
          /\ Placed(q) /\ Deep(q, limit) /\ Later(q, placed)
          /\ q.partial = placed.partial /\ q.inSeen = placed.inSeen
          /\ q.live \subseteq placed.live \cup Below(placed, n)
          /\ \A m \in Node \ Below(placed, n) : q.depth[m] = placed.depth[m]
          /\ Rescales(q, placed, n, potential, old)
      <4>1. placed \in RunType /\ Placed(placed) /\ Deep(placed, limit)
        BY <2>8
      <4>2. old \in Nat /\ old > 0
        BY <2>9, <1>0
      <4> HIDE DEF old
      <4> QED
        BY <4>1, <4>2, Rescaled
    <3> HIDE DEF q
    <3>3. SameLedger(q, r)
      BY <2>8, <3>2 DEF SameLedger
    <3>4. Later(q, r)
      <4>1. /\ placed.next \in Nat /\ q.next \in Nat /\ q.live \subseteq Node
            /\ \A m \in Node : q.seq[m] \in Nat
        BY <2>8, <3>2 DEF RunType
      <4> QED
        BY <2>8, <3>2, <4>1, <1>0 DEF Later
    <3>5. Below(placed, n) = Below(q, n)
      BY <2>8, <3>2, SameParentsSameBelow
    <3>6. \A m \in Node : q.worth[m] =
            IF m = n THEN potential
            ELSE IF m \in Below(q, n) THEN (r.worth[m] * potential) \div old
            ELSE r.worth[m]
      <4>1. \A m \in Node : placed.worth[m] = IF m = n THEN potential ELSE r.worth[m]
        BY <2>8 DEF RunType
      <4>2. n \notin Below(q, n)
        BY DEF Below
      <4> QED
        BY <3>2, <3>5, <4>1, <4>2 DEF Rescales
    <3>7. Moves(q, r, from, n, potential)
      BY <1>2, <2>8, <2>9, <3>2, <3>5, <3>6 DEF Moves, IsStronger, Unblocks
    <3> QED
      BY <2>8, <3>1, <3>2, <3>3, <3>4, <3>7
  <2>10. CASE ~(n \in r.partial /\ old > 0)
    <3>1. Arrive(r, from, n, potential, limit) = placed
      BY <1>2, <2>10 DEF Arrive, moved, depth
    <3> HIDE DEF placed
    <3>2. \A m \in Node : placed.worth[m] = IF m = n THEN potential ELSE r.worth[m]
      BY <2>8 DEF RunType
    <3>3. Moves(placed, r, from, n, potential)
      BY <1>2, <2>8, <2>10, <3>2 DEF Moves, IsStronger, Unblocks
    <3> QED
      BY <2>8, <3>1, <3>3
  <2> QED
    BY <2>9, <2>10
<1> QED
  BY <1>1, <1>2

\* q is r with the new state n, found from `from`, queued or held back.
Adds(q, r, from, n, potential, limit) ==
    /\ q \in RunType /\ SameLedger(q, r) /\ q.hops = r.hops + 1
    /\ Placed(q) /\ Deep(q, limit) /\ Later(q, r)
    /\ q.parent = [r.parent EXCEPT ![n] = from]
    /\ Found(q) = Found(r) \cup {n} /\ q.partial = r.partial
    /\ \A m \in Node \ {n} : q.depth[m] = r.depth[m] /\ q.worth[m] = r.worth[m]
    /\ q.worth[n] = potential /\ q.live \subseteq r.live \cup {n}

\* A hop to a new state adds it, queued or held back by its depth.
LEMMA HopAdopted ==
    ASSUME NEW r \in RunType, Placed(r), NEW limit \in Nat, Deep(r, limit),
           NEW from \in Node, NEW n \in Node, n \notin Found(r), NEW potential \in Nat
    PROVE  Adds(Adopt(r, from, n, potential, limit), r, from, n, potential, limit)
<1> DEFINE depth == r.depth[from] + 1
           added == [r EXCEPT !.states = Append(@, n), !.parent[n] = from,
                              !.depth[n] = depth, !.worth[n] = potential, !.hops = @ + 1]
           q == Adopt(r, from, n, potential, limit)
<1>0. /\ depth \in Nat /\ r.next \in Nat /\ r.hops \in Nat
      /\ r.live \subseteq Node /\ r.deferred \subseteq Node /\ r.seq \in [Node -> Nat]
      /\ r.states \in Seq(Node)
  <2>1. r.depth[from] \in Nat /\ r.hops \in Nat /\ r.states \in Seq(Node)
    BY DEF RunType
  <2>2. /\ r.next \in Nat /\ r.live \subseteq Node /\ r.deferred \subseteq Node
        /\ r.seq \in [Node -> Nat]
    BY DEF RunType
  <2> QED
    BY <2>1, <2>2
<1>1. added \in RunType
  <2>1. /\ [r.parent EXCEPT ![n] = from] \in [Node -> Node \cup {None}]
        /\ [r.depth EXCEPT ![n] = depth] \in [Node -> Nat]
        /\ [r.worth EXCEPT ![n] = potential] \in [Node -> Nat]
        /\ Append(r.states, n) \in Seq(Node) /\ r.hops + 1 \in Nat
    <3> HIDE DEF depth
    <3>1. /\ [r.parent EXCEPT ![n] = from] \in [Node -> Node \cup {None}]
          /\ [r.depth EXCEPT ![n] = depth] \in [Node -> Nat]
          /\ [r.worth EXCEPT ![n] = potential] \in [Node -> Nat]
      BY <1>0 DEF RunType
    <3>2. Append(r.states, n) \in Seq(Node) /\ r.hops + 1 \in Nat
      BY <1>0
    <3> QED
      BY <3>1, <3>2
  <2> HIDE DEF depth
  <2> QED
    BY <2>1, Zenon DEF RunType
<1>2. /\ SameLedger(added, r) /\ added.hops = r.hops + 1 /\ added.states = Append(r.states, n)
      /\ added.live = r.live /\ added.deferred = r.deferred /\ added.strays = r.strays
      /\ added.next = r.next /\ added.seq = r.seq
      /\ added.parent = [r.parent EXCEPT ![n] = from]
      /\ added.depth = [r.depth EXCEPT ![n] = depth]
      /\ added.worth = [r.worth EXCEPT ![n] = potential]
      /\ added.partial = r.partial /\ added.inSeen = r.inSeen
  BY <1>1 DEF SameLedger, RunType
<1>3. q = IF depth < limit THEN Push(added, n, potential) ELSE Holds(added, n)
  BY DEF Adopt
<1> SUFFICES Adds(q, r, from, n, potential, limit)
  OBVIOUS
<1> HIDE DEF added, q
<1>4. /\ Range(added.states) = Range(r.states) \cup {n}
      /\ IsInjective(added.states)
  <2>1. IsInjective(r.states) /\ n \notin Range(r.states)
    BY DEF Placed, Found
  <2> QED
    BY <1>0, <1>2, <2>1, NewIsAppended
<1>5. added.expanded = r.expanded /\ added.cleared = r.cleared
  BY <1>2 DEF SameLedger
<1>6. n \notin r.live \cup r.expanded \cup r.deferred \cup r.cleared
  BY DEF Placed, Found
<1>7. /\ added.depth[n] = depth /\ \A m \in Node \ {n} : added.depth[m] = r.depth[m]
      /\ added.worth[n] = potential /\ \A m \in Node \ {n} : added.worth[m] = r.worth[m]
  BY <1>2 DEF RunType
<1> HIDE DEF depth
<1>8. CASE depth < limit
  <2>1. /\ q \in RunType /\ SameLedger(q, added) /\ SameRoutes(q, added)
        /\ q.deferred = added.deferred /\ q.live = added.live \cup {n}
        /\ q.strays = added.strays \ {n} /\ q.next = added.next + 1 /\ q.seq[n] = added.next
        /\ \A m \in Node \ {n} : q.seq[m] = added.seq[m]
    <3> n \notin added.live
      BY <1>2, <1>6
    <3> QED
      BY <1>1, <1>3, <1>8, Pushed
  <2>2. /\ SameLedger(q, r) /\ q.hops = r.hops + 1 /\ q.states = added.states
        /\ q.parent = added.parent /\ q.depth = added.depth /\ q.worth = added.worth
        /\ q.partial = added.partial
        /\ q.expanded = r.expanded /\ q.cleared = r.cleared
    BY <1>2, <2>1 DEF SameLedger, SameRoutes
  <2>3. Placed(q)
    BY <1>0, <1>2, <1>4, <1>5, <1>6, <2>1, <2>2 DEF Placed
  <2>4. Deep(q, limit)
    BY <1>0, <1>2, <1>6, <1>7, <2>1, <2>2 DEF Deep
  <2>5. Later(q, r)
    BY <1>0, <1>2, <2>1 DEF Later
  <2>6. /\ \A m \in Node \ {n} : q.depth[m] = r.depth[m] /\ q.worth[m] = r.worth[m]
        /\ q.worth[n] = potential /\ q.live \subseteq r.live \cup {n}
        /\ q.partial = r.partial
    BY <1>2, <1>7, <2>1, <2>2
  <2> QED
    BY <1>2, <1>4, <2>1, <2>2, <2>3, <2>4, <2>5, <2>6 DEF Adds, Found
<1>9. CASE ~(depth < limit)
  <2>1. /\ q \in RunType /\ SameLedger(q, added) /\ SameRoutes(q, added)
        /\ q.deferred = added.deferred \cup {n} /\ q.live = added.live
        /\ q.strays = added.strays \ {n} /\ q.next = added.next /\ q.seq = added.seq
    BY <1>1, <1>3, <1>9, Held
  <2>2. /\ SameLedger(q, r) /\ q.hops = r.hops + 1 /\ q.states = added.states
        /\ q.parent = added.parent /\ q.depth = added.depth /\ q.worth = added.worth
        /\ q.partial = added.partial
        /\ q.expanded = r.expanded /\ q.cleared = r.cleared
    BY <1>2, <2>1 DEF SameLedger, SameRoutes
  <2>3. Placed(q)
    BY <1>0, <1>2, <1>4, <1>5, <1>6, <2>1, <2>2 DEF Placed
  <2>4. Deep(q, limit)
    BY <1>0, <1>2, <1>7, <1>9, <2>1, <2>2 DEF Deep
  <2>5. Later(q, r)
    BY <1>0, <1>2, <2>1 DEF Later
  <2>6. /\ \A m \in Node \ {n} : q.depth[m] = r.depth[m] /\ q.worth[m] = r.worth[m]
        /\ q.worth[n] = potential /\ q.live \subseteq r.live \cup {n}
        /\ q.partial = r.partial
    BY <1>2, <1>7, <2>1, <2>2
  <2> QED
    BY <1>2, <1>4, <2>1, <2>2, <2>3, <2>4, <2>5, <2>6 DEF Adds, Found
<1> QED
  BY <1>8, <1>9

-----------------------------------------------------------------------------
(* What ranks the states: none is worth more than what it hangs from.      *)

\* What is found hangs from what is found and worth no less.
Kindred(r) ==
    \A n \in Node : r.parent[n] # None =>
        /\ n \in Found(r) /\ r.parent[n] \in Found(r)
        /\ r.worth[n] <= r.worth[r.parent[n]]

\* Only what was expanded, if in part, has states that hang from it.
HalfDone(r) ==
    \A n \in Node : r.parent[n] # None => r.parent[n] \in r.expanded \cup r.partial

\* The states of C, `top` and all it hangs from, are worth k or more, and none
\* of them waits behind the limit; what is queued, and every other result, is
\* worth no more than k.
Fixes(r, limit, top, was, C, k) ==
    /\ k \in Nat /\ C \subseteq Found(r) /\ top \subseteq C /\ Closed(r, C)
    /\ Cardinality(top) = K /\ top \subseteq Results(r)
    /\ \A n \in top : r.worth[n] = was[n]
    /\ \A n \in C : r.worth[n] >= k
    /\ \A n \in C : n \in r.expanded \cup r.cleared \/ r.depth[n] < limit
    /\ \A n \in r.live : r.worth[n] <= k
    /\ \A n \in Results(r) \ top : r.worth[n] <= k

\* q is r after a part of the walk from n: what is fixed in r and worth no less
\* than n, and so than all that the walk can find from n, is fixed in q.
Ranked(q, r, n, limit) ==
    Kindred(r) /\ HalfDone(r) =>
        /\ Kindred(q) /\ HalfDone(q)
        /\ q.worth[n] = r.worth[n] /\ q.depth[n] = r.depth[n]
        /\ \A top, was, C, k : Fixes(r, limit, top, was, C, k) /\ r.worth[n] <= k
                                  => Fixes(q, limit, top, was, C, k)

LEMMA FoundAreNodes == ASSUME NEW r \in RunType PROVE Found(r) \subseteq Node
<1>1. r.states \in Seq(Node)
  BY DEF RunType
<1> QED
  BY <1>1 DEF Found, Range

\* A smaller number has no larger share, and the whole share is the whole.
LEMMA SharesAreOrdered ==
    ASSUME NEW a \in Nat, NEW b \in Nat, NEW new \in Nat, NEW old \in Nat, old > 0, a <= b
    PROVE  /\ (a * new) \div old <= (b * new) \div old
           /\ (old * new) \div old = new
<1>1. a * new \in Nat /\ b * new \in Nat /\ a * new <= b * new
  BY SMT
<1>2. \A x, y \in Nat : x <= y => x \div old <= y \div old
  BY SMT
<1>3. (old * new) \div old = new
  BY SMT
<1> QED
  BY <1>1, <1>2, <1>3

\* A hop is worth no more than what it starts from.
LEMMA HopIsWorthNoMore ==
    ASSUME NEW w \in Nat, NEW v \in 0..2
    PROVE  (w * v) \div 2 \in Nat /\ (w * v) \div 2 <= w
<1>1. v = 0 \/ v = 1 \/ v = 2
  OBVIOUS
<1>2. CASE v = 0
  BY <1>2, SMT
<1>3. CASE v = 1
  BY <1>3, SMT
<1>4. CASE v = 2
  BY <1>4, SMT
<1> QED
  BY <1>1, <1>2, <1>3, <1>4

\* Nothing in a closed set hangs from a state outside it.
LEMMA ClosedIsNotBelow ==
    ASSUME NEW r \in RunType, NEW n \in Node, NEW C, Closed(r, C), n \notin C
    PROVE  C \cap Below(r, n) = {}
<1> SUFFICES ASSUME NEW m \in C, m \in Below(r, n) PROVE FALSE
  OBVIOUS
<1>1. m \in Node /\ n \in Chain(r, m)
  BY FoundAreNodes DEF Below
<1>2. Chain(r, m) \subseteq C
  BY <1>1, ChainIsLeast
<1> QED
  BY <1>1, <1>2

\* A state hangs from n when its parent is n or hangs from n.
LEMMA BelowByParents ==
    ASSUME NEW r \in RunType, NEW n \in Node, NEW m \in Node, m # n, m \in Found(r),
           r.parent[m] # None, r.parent[m] \in Found(r)
    PROVE  m \in Below(r, n) <=> r.parent[m] = n \/ r.parent[m] \in Below(r, n)
<1> DEFINE p == r.parent[m]
<1>1. p \in Node
  BY DEF RunType
<1>2. /\ m \in Chain(r, m) /\ Closed(r, Chain(r, m))
      /\ p \in Chain(r, p) /\ Closed(r, Chain(r, p))
  BY <1>1, ChainIsClosed
<1>3. p \in Chain(r, m)
  BY <1>2 DEF Closed, Parents
<1>4. Chain(r, p) \subseteq Chain(r, m)
  BY <1>1, <1>2, <1>3, ChainIsLeast
<1>5. Closed(r, {m} \cup Chain(r, p))
  BY <1>2 DEF Closed, Parents
<1>6. Chain(r, m) \subseteq {m} \cup Chain(r, p)
  BY <1>5, ChainIsLeast
<1>7. n \in Chain(r, m) <=> n \in Chain(r, p)
  BY <1>4, <1>6
<1>8. m \in Below(r, n) <=> n \in Chain(r, m)
  BY DEF Below
<1>9. p \in Below(r, n) <=> p # n /\ n \in Chain(r, p)
  BY DEF Below
<1> QED
  BY <1>2, <1>7, <1>8, <1>9

\* Nothing is worth more than what it hangs from, however far up.
LEMMA NoneIsWorthMore ==
    ASSUME NEW r \in RunType, Kindred(r), NEW m \in Node, NEW n \in Chain(r, m)
    PROVE  r.worth[m] <= r.worth[n]
<1> DEFINE C == {x \in Node : r.worth[m] <= r.worth[x]}
<1>1. \A x \in Node : r.worth[x] \in Nat /\ r.parent[x] \in Node \cup {None}
  BY DEF RunType
<1>2. m \in C
  BY <1>1
<1>3. Closed(r, C)
  <2> SUFFICES ASSUME NEW x \in C, r.parent[x] # None PROVE r.parent[x] \in C
    BY DEF Closed, Parents
  <2>1. r.worth[x] <= r.worth[r.parent[x]] /\ r.parent[x] \in Node
    BY <1>1 DEF Kindred
  <2>2. r.worth[m] <= r.worth[x]
    OBVIOUS
  <2> QED
    BY <1>1, <2>1, <2>2
<1>4. Chain(r, m) \subseteq C
  BY <1>2, <1>3, ChainIsLeast
<1> QED
  BY <1>4

\* What is fixed stays so when only states outside C change, and those are
\* worth no more than k.
LEMMA FixedStaysFixed ==
    ASSUME NEW r \in RunType, NEW q \in RunType, NEW S \in SUBSET Node,
           q.expanded = r.expanded, q.cleared = r.cleared,
           Found(r) \subseteq Found(q), Found(q) \subseteq Found(r) \cup S,
           q.live \subseteq r.live \cup S,
           \A m \in Node \ S : /\ q.parent[m] = r.parent[m] /\ q.worth[m] = r.worth[m]
                               /\ q.depth[m] = r.depth[m],
           NEW limit, NEW top, NEW was, NEW C, NEW k, Fixes(r, limit, top, was, C, k),
           C \cap S = {}, \A m \in S : q.worth[m] <= k
    PROVE  Fixes(q, limit, top, was, C, k)
<1>1. C \subseteq Node \ S /\ top \subseteq C /\ C \subseteq Found(q)
  BY FoundAreNodes DEF Fixes
<1>2. Closed(q, C)
  BY <1>1 DEF Fixes, Closed, Parents
<1>3. top \subseteq Results(q)
  BY <1>1 DEF Fixes, Results
<1>4. \A m \in q.live : q.worth[m] <= k
  <2>1. q.live \subseteq Node
    BY DEF RunType
  <2> QED
    BY <2>1 DEF Fixes
<1>5. \A m \in Results(q) \ top : q.worth[m] <= k
  <2> SUFFICES ASSUME NEW m \in Results(q) \ top, m \notin S PROVE q.worth[m] <= k
    OBVIOUS
  <2>1. m \in Node
    BY FoundAreNodes DEF Results
  <2>2. m \in Results(r) \ top
    BY <2>1 DEF Results
  <2> QED
    BY <2>1, <2>2 DEF Fixes
<1>6. /\ \A n \in top : q.worth[n] = was[n]
      /\ \A n \in C : q.worth[n] >= k
      /\ \A n \in C : n \in q.expanded \cup q.cleared \/ q.depth[n] < limit
  BY <1>1 DEF Fixes
<1> QED
  BY <1>1, <1>2, <1>3, <1>4, <1>5, <1>6 DEF Fixes

\* Two parts of a walk are a part of it.
LEMMA RanksCompose ==
    ASSUME NEW r, NEW q, NEW t, NEW n, NEW limit,
           Ranked(q, r, n, limit), Ranked(t, q, n, limit)
    PROVE  Ranked(t, r, n, limit)
BY DEF Ranked

\* A route that moves a state, and what hangs from it, breaks into no rank.
LEMMA MoveKeepsTheRanks ==
    ASSUME NEW r \in RunType, NEW q \in RunType, SameLedger(q, r), q.states = r.states,
           Placed(r), NEW limit \in Nat, Deep(r, limit),
           NEW from \in r.expanded, NEW A, from \in A, Closed(r, A),
           NEW n \in Node, n \notin A, n \in Found(r),
           NEW potential \in Nat, potential <= r.worth[from],
           Moves(q, r, from, n, potential)
    PROVE  Ranked(q, r, from, limit)
<1> DEFINE below == Below(q, n)
           S == {n} \cup below
           scaled == n \in r.partial /\ r.worth[n] > 0
<1> SUFFICES ASSUME Kindred(r), HalfDone(r)
    PROVE /\ Kindred(q) /\ HalfDone(q)
          /\ q.worth[from] = r.worth[from] /\ q.depth[from] = r.depth[from]
          /\ \A top, was, C, k : Fixes(r, limit, top, was, C, k) /\ r.worth[from] <= k
                                    => Fixes(q, limit, top, was, C, k)
  BY DEF Ranked
<1>0. /\ from \in Node /\ from \in Found(r) /\ from # n
      /\ Found(q) = Found(r) /\ Found(r) \subseteq Node
      /\ q.expanded = r.expanded /\ q.cleared = r.cleared
  <2>1. from \in Node
    BY DEF RunType
  <2>2. from \in Found(r)
    BY DEF Placed, Found
  <2> QED
    BY <2>1, <2>2, FoundAreNodes DEF SameLedger, Found
<1>1. /\ n \notin r.expanded /\ (n \in r.deferred \/ potential > r.worth[n])
      /\ q.parent = [r.parent EXCEPT ![n] = from]
      /\ q.live \subseteq r.live \cup S
      /\ \A m \in Node \ S : q.depth[m] = r.depth[m]
      /\ q.partial = r.partial
      /\ q.worth[n] = potential
      /\ \A m \in Node \ {n} : q.worth[m] =
            IF scaled /\ m \in below THEN (r.worth[m] * potential) \div r.worth[n]
            ELSE r.worth[m]
  BY DEF Moves
<1>2. /\ q.parent[n] = from /\ \A m \in Node \ {n} : q.parent[m] = r.parent[m]
      /\ \A m \in Node : /\ r.worth[m] \in Nat /\ r.depth[m] \in Nat
                         /\ r.parent[m] \in Node \cup {None}
  BY <1>0, <1>1 DEF RunType
<1>3. ASSUME NEW C, Closed(r, C), n \notin C, C \subseteq Node
      PROVE  Closed(q, C) /\ C \cap S = {}
  <2>1. Closed(q, C)
    BY <1>2, <1>3 DEF Closed, Parents
  <2> QED
    BY <1>3, <2>1, ClosedIsNotBelow
<1>4. from \notin S
  <2> DEFINE D == A \cap Node
  <2>1. Closed(r, D)
    BY <1>2 DEF Closed, Parents
  <2> HIDE DEF S
  <2> QED
    BY <1>0, <1>3, <2>1
<1> HIDE DEF scaled
<1>5. q.worth[from] = r.worth[from] /\ q.depth[from] = r.depth[from]
  BY <1>0, <1>1, <1>4
<1>6. Kindred(q)
  <2> SUFFICES ASSUME NEW m \in Node, q.parent[m] # None
      PROVE  /\ m \in Found(q) /\ q.parent[m] \in Found(q)
             /\ q.worth[m] <= q.worth[q.parent[m]]
    BY DEF Kindred
  <2>1. CASE m = n
    BY <1>0, <1>1, <1>2, <1>5, <2>1
  <2>2. CASE m # n
    <3> DEFINE p == r.parent[m]
    <3>1. q.parent[m] = p /\ p \in Node /\ p # None
      BY <1>2, <2>2
    <3>2. m \in Found(r) /\ p \in Found(r) /\ r.worth[m] <= r.worth[p]
      BY <3>1 DEF Kindred
    <3>3. m \in below <=> p = n \/ p \in below
      BY <1>0, <2>2, <3>1, <3>2, BelowByParents
    <3> HIDE DEF p, below
    <3>4. q.worth[m] <= q.worth[p]
      <4>1. r.worth[m] \in Nat /\ r.worth[p] \in Nat /\ r.worth[n] \in Nat
        BY <1>2, <3>1
      <4>2. CASE scaled /\ p = n
        <5>1. q.worth[m] = (r.worth[m] * potential) \div r.worth[n] /\ r.worth[n] > 0
          BY <1>1, <2>2, <3>3, <4>2 DEF scaled
        <5>2. q.worth[m] <= potential
          <6>1. /\ (r.worth[m] * potential) \div r.worth[n]
                      <= (r.worth[n] * potential) \div r.worth[n]
                /\ (r.worth[n] * potential) \div r.worth[n] = potential
            BY <3>2, <4>1, <4>2, <5>1, SharesAreOrdered
          <6> QED
            BY <5>1, <6>1
        <5> QED
          BY <1>1, <4>2, <5>2
      <4>3. CASE scaled /\ p # n /\ p \in below
        <5>1. /\ q.worth[m] = (r.worth[m] * potential) \div r.worth[n]
              /\ q.worth[p] = (r.worth[p] * potential) \div r.worth[n]
              /\ r.worth[n] > 0
          BY <1>1, <2>2, <3>1, <3>3, <4>3 DEF scaled
        <5>2. (r.worth[m] * potential) \div r.worth[n] <= (r.worth[p] * potential) \div r.worth[n]
          BY <3>2, <4>1, <5>1, SharesAreOrdered
        <5> QED
          BY <5>1, <5>2
      <4>4. CASE scaled /\ p # n /\ p \notin below
        BY <1>1, <2>2, <3>1, <3>2, <3>3, <4>4
      <4>5. CASE ~scaled /\ p = n
        <5>1. n \in r.partial
          <6>1. r.parent[m] = n /\ r.parent[m] # None
            BY <3>1, <4>5 DEF p
          <6> QED
            BY <1>1, <6>1 DEF HalfDone
        <5>2. r.worth[n] = 0
          BY <4>1, <4>5, <5>1 DEF scaled
        <5> QED
          BY <1>1, <2>2, <3>2, <4>1, <4>5, <5>2
      <4>6. CASE ~scaled /\ p # n
        BY <1>1, <2>2, <3>1, <3>2, <4>6
      <4> QED
        BY <4>2, <4>3, <4>4, <4>5, <4>6
    <3> QED
      BY <1>0, <3>1, <3>2, <3>4
  <2> QED
    BY <2>1, <2>2
<1>7. HalfDone(q)
  BY <1>0, <1>1, <1>2 DEF HalfDone
<1>8. ASSUME NEW top, NEW was, NEW C, NEW k,
             Fixes(r, limit, top, was, C, k), r.worth[from] <= k
      PROVE  Fixes(q, limit, top, was, C, k)
  <2>1. /\ k \in Nat /\ Closed(r, C) /\ C \subseteq Node
        /\ \A m \in C : r.worth[m] >= k
        /\ \A m \in C : m \in r.expanded \cup r.cleared \/ r.depth[m] < limit
    BY <1>0, <1>8 DEF Fixes
  <2>2. potential <= k
    BY <1>0, <1>2, <1>8, <2>1
  <2>3. n \notin C
    <3> SUFFICES ASSUME n \in C PROVE FALSE
      OBVIOUS
    <3>1. r.worth[n] >= k /\ (n \in r.expanded \cup r.cleared \/ r.depth[n] < limit)
      BY <2>1
    <3>2. ~(potential > r.worth[n])
      BY <1>2, <2>1, <2>2, <3>1
    <3>3. n \in r.deferred /\ n \notin r.expanded
      BY <1>1, <3>2
    <3>4. r.depth[n] >= limit /\ n \notin r.cleared
      BY <3>3 DEF Deep, Placed
    <3> QED
      BY <1>2, <3>1, <3>3, <3>4
  <2>4. C \cap S = {}
    BY <1>3, <2>1, <2>3
  <2>5. \A m \in S : q.worth[m] <= k
    <3> SUFFICES ASSUME NEW m \in below PROVE q.worth[m] <= k
      BY <1>1, <2>2
    <3>1. m \in Node /\ n \in Chain(q, m)
      BY <1>0 DEF Below
    <3>2. q.worth[m] <= q.worth[n]
      BY <1>6, <3>1, NoneIsWorthMore
    <3>3. q.worth[m] \in Nat
      BY <3>1 DEF RunType
    <3> QED
      BY <1>1, <2>1, <2>2, <3>2, <3>3
  <2>6. S \in SUBSET Node
    BY <1>0 DEF Below
  <2>7. \A m \in Node \ S : /\ q.parent[m] = r.parent[m] /\ q.worth[m] = r.worth[m]
                            /\ q.depth[m] = r.depth[m]
    BY <1>1, <1>2
  <2> HIDE DEF S
  <2> QED
    BY <1>0, <1>1, <1>8, <2>4, <2>5, <2>6, <2>7, FixedStaysFixed
<1> QED
  BY <1>5, <1>6, <1>7, <1>8

\* A new state breaks into no rank.
LEMMA AdoptionKeepsTheRanks ==
    ASSUME NEW r \in RunType, NEW q \in RunType, SameLedger(q, r), Placed(r),
           NEW limit, NEW from \in r.expanded, NEW n \in Node, n \notin Found(r),
           NEW potential \in Nat, potential <= r.worth[from],
           q.parent = [r.parent EXCEPT ![n] = from],
           Found(q) = Found(r) \cup {n}, q.partial = r.partial,
           \A m \in Node \ {n} : q.depth[m] = r.depth[m] /\ q.worth[m] = r.worth[m],
           q.worth[n] = potential, q.live \subseteq r.live \cup {n}
    PROVE  Ranked(q, r, from, limit)
<1> SUFFICES ASSUME Kindred(r), HalfDone(r)
    PROVE /\ Kindred(q) /\ HalfDone(q)
          /\ q.worth[from] = r.worth[from] /\ q.depth[from] = r.depth[from]
          /\ \A top, was, C, k : Fixes(r, limit, top, was, C, k) /\ r.worth[from] <= k
                                    => Fixes(q, limit, top, was, C, k)
  BY DEF Ranked
<1>1. /\ from \in Node /\ from \in Found(r) /\ from # n
      /\ q.expanded = r.expanded /\ q.cleared = r.cleared
  <2>1. from \in Node
    BY DEF RunType
  <2>2. from \in Found(r)
    BY DEF Placed, Found
  <2> QED
    BY <2>1, <2>2 DEF SameLedger
<1>2. /\ q.parent[n] = from /\ \A m \in Node \ {n} : q.parent[m] = r.parent[m]
      /\ \A m \in Node : r.worth[m] \in Nat /\ r.parent[m] \in Node \cup {None}
  BY <1>1 DEF RunType
<1>3. Kindred(q)
  <2> SUFFICES ASSUME NEW m \in Node, q.parent[m] # None
      PROVE  /\ m \in Found(q) /\ q.parent[m] \in Found(q)
             /\ q.worth[m] <= q.worth[q.parent[m]]
    BY DEF Kindred
  <2>1. CASE m = n
    BY <1>1, <1>2, <2>1
  <2>2. CASE m # n
    <3>1. q.parent[m] = r.parent[m] /\ r.parent[m] \in Node
      BY <1>2, <2>2
    <3>2. m \in Found(r) /\ r.parent[m] \in Found(r) /\ r.worth[m] <= r.worth[r.parent[m]]
      BY <3>1, <2>2 DEF Kindred
    <3> QED
      BY <2>2, <3>1, <3>2
  <2> QED
    BY <2>1, <2>2
<1>4. HalfDone(q)
  BY <1>1, <1>2 DEF HalfDone
<1>5. ASSUME NEW top, NEW was, NEW C, NEW k,
             Fixes(r, limit, top, was, C, k), r.worth[from] <= k
      PROVE  Fixes(q, limit, top, was, C, k)
  <2>1. C \cap {n} = {} /\ k \in Nat
    BY <1>5 DEF Fixes
  <2>2. q.worth[n] <= k
    BY <1>1, <1>2, <1>5, <2>1
  <2> QED
    BY <1>1, <1>2, <1>5, <2>1, <2>2, FixedStaysFixed
<1> QED
  BY <1>1, <1>3, <1>4, <1>5

-----------------------------------------------------------------------------
(* The hops of an expansion, one after another.                            *)

Hops == [to : Node, value : 0..2]

\* What holds all along the walk from n, a node of A, none of whose hops leads
\* back into A.
Walking(r, b, n, affordable, A) ==
    {s \in [run : RunType, before : {r.hops}, truncated : BOOLEAN] :
        /\ SameLedger(s.run, r) /\ Placed(s.run) /\ Deep(s.run, b.depth)
        /\ Later(s.run, r) /\ Acyclic(s.run) /\ Closed(s.run, A)
        /\ r.hops <= s.run.hops /\ s.run.hops <= r.hops + affordable
        /\ Found(r) \subseteq Found(s.run) /\ Ranked(s.run, r, n, b.depth)}

\* A hop to what was not found before is to what is not found yet.
Fresh(s, e, r) == e.to \in Found(s.run) => e.to \in Found(r)

\* One hop keeps all that holds along the walk.
LEMMA HopStaysInTheWalk ==
    ASSUME NEW r \in RunType, NEW b, b.depth \in Nat, NEW n \in r.expanded,
           NEW affordable \in Nat, NEW A, n \in A, NEW e \in Hops, e.to \notin A \cup r.cleared,
           NEW s \in Walking(r, b, n, affordable, A), Fresh(s, e, r)
    PROVE  LET t == TakesHop(s, e, r, b, n, affordable) IN
           /\ t \in Walking(r, b, n, affordable, A)
           /\ Found(t.run) \subseteq Found(s.run) \cup {e.to}
<1> DEFINE potential == (r.worth[n] * e.value) \div 2
           q == s.run
           t == TakesHop(s, e, r, b, n, affordable)
           Good == /\ t \in Walking(r, b, n, affordable, A)
                   /\ Found(t.run) \subseteq Found(q) \cup {e.to}
<1>0. /\ q \in RunType /\ s.before = r.hops /\ s.truncated \in BOOLEAN
      /\ s = [run |-> q, before |-> r.hops, truncated |-> s.truncated]
      /\ SameLedger(q, r) /\ Placed(q) /\ Deep(q, b.depth)
      /\ Later(q, r) /\ Acyclic(q) /\ Closed(q, A)
      /\ r.hops <= q.hops /\ q.hops <= r.hops + affordable
      /\ Found(r) \subseteq Found(q) /\ Ranked(q, r, n, b.depth)
  BY DEF Walking
<1> n \in Node
  BY DEF RunType
<1>1. e.to \in Node /\ e.value \in Nat /\ r.worth[n] \in Nat /\ r.hops \in Nat /\ q.hops \in Nat
      /\ r.next \in Nat /\ q.next \in Nat
  <2>1. e.to \in Node /\ e.value \in Nat
    BY DEF Hops
  <2>2. r.worth[n] \in Nat /\ r.hops \in Nat /\ r.next \in Nat
    BY DEF RunType
  <2>3. q.hops \in Nat /\ q.next \in Nat
    BY <1>0 DEF RunType
  <2> QED
    BY <2>1, <2>2, <2>3
<1>2. potential \in Nat /\ potential <= r.worth[n]
  <2> e.value \in 0..2
    BY DEF Hops
  <2> QED
    BY <1>1, HopIsWorthNoMore
<1>3. q.cleared = r.cleared /\ q.expanded = r.expanded
  BY <1>0 DEF SameLedger
<1>8. Kindred(r) /\ HalfDone(r) => Kindred(q) /\ HalfDone(q) /\ potential <= q.worth[n]
  <2> HIDE DEF q, potential
  <2> QED
    BY <1>0, <1>2 DEF Ranked
<1>9. Ranked(q, q, n, b.depth)
  BY DEF Ranked
<1>4. ASSUME NEW f \in RunType, SameLedger(f, q), Placed(f), Deep(f, b.depth), Later(f, q),
             f.parent \in {q.parent, [q.parent EXCEPT ![e.to] = n]},
             r.hops <= f.hops, f.hops <= r.hops + affordable,
             Found(q) \subseteq Found(f), Found(f) \subseteq Found(q) \cup {e.to},
             Kindred(r) /\ HalfDone(r) => Ranked(f, q, n, b.depth),
             NEW c \in BOOLEAN, t = [run |-> f, before |-> r.hops, truncated |-> c]
      PROVE  Good
  <2>1. SameLedger(f, r)
    BY <1>0, <1>4 DEF SameLedger
  <2>2. Later(f, r)
    <3>1. f.next \in Nat /\ f.live \subseteq Node /\ \A m \in Node : f.seq[m] \in Nat
      BY <1>4 DEF RunType
    <3> HIDE DEF q
    <3> QED
      BY <1>0, <1>1, <1>4, <3>1 DEF Later
  <2>3. Acyclic(f) /\ Closed(f, A)
    <3> HIDE DEF q
    <3>1. CASE f.parent = q.parent
      BY <1>0, <3>1 DEF Acyclic, Closed, Parents
    <3>2. CASE f.parent = [q.parent EXCEPT ![e.to] = n]
      BY <1>0, <1>1, <1>4, <3>2, MovesUnderItsRoute
    <3> QED
      BY <1>4, <3>1, <3>2
  <2>4. Found(r) \subseteq Found(f)
    BY <1>0, <1>4
  <2>6. Ranked(f, r, n, b.depth)
    <3>1. CASE Kindred(r) /\ HalfDone(r)
      BY <1>0, <1>4, <3>1, RanksCompose
    <3>2. CASE ~(Kindred(r) /\ HalfDone(r))
      BY <3>2 DEF Ranked
    <3> QED
      BY <3>1, <3>2
  <2> HIDE DEF t, q
  <2>5. t.run = f /\ t \in [run : RunType, before : {r.hops}, truncated : BOOLEAN]
    BY <1>4
  <2> QED
    BY <1>4, <2>1, <2>2, <2>3, <2>4, <2>5, <2>6 DEF Walking
<1>5. CASE e.to \in Found(r)
  <2> DEFINE f == Arrive(q, n, e.to, potential, b.depth)
  <2>1. t = [run |-> f, before |-> r.hops, truncated |-> s.truncated]
    <3>1. t = [s EXCEPT !.run = f]
      BY <1>5 DEF TakesHop
    <3> HIDE DEF f, q, t
    <3> QED
      BY <1>0, <3>1
  <2> HIDE DEF potential
  <2>2. /\ f \in RunType /\ SameLedger(f, q)
        /\ f.hops = q.hops /\ f.states = q.states
        /\ Placed(f) /\ Deep(f, b.depth) /\ Later(f, q)
        /\ f.parent \in {q.parent, [q.parent EXCEPT ![e.to] = n]}
        /\ f = q \/ Moves(f, q, n, e.to, potential)
    <3> e.to \in Found(q) \ q.cleared
      BY <1>0, <1>3, <1>5
    <3> HIDE DEF q
    <3> QED
      BY <1>0, <1>1, <1>2, Arrived
  <2>3. s.truncated \in BOOLEAN /\ r.hops <= f.hops /\ f.hops <= r.hops + affordable
    BY <1>0, <2>2
  <2>4. Found(q) \subseteq Found(f) /\ Found(f) \subseteq Found(q) \cup {e.to}
    BY <2>2 DEF Found
  <2>6. Kindred(r) /\ HalfDone(r) => Ranked(f, q, n, b.depth)
    <3> SUFFICES ASSUME Kindred(r), HalfDone(r), Moves(f, q, n, e.to, potential)
                 PROVE  Ranked(f, q, n, b.depth)
      BY <1>9, <2>2
    <3>1. e.to \notin A /\ e.to \in Found(q) /\ n \in q.expanded
      BY <1>0, <1>3, <1>5
    <3> HIDE DEF f, q
    <3> QED
      BY <1>0, <1>1, <1>2, <1>8, <2>2, <3>1, MoveKeepsTheRanks
  <2> HIDE DEF f, t, q
  <2>5. Good
    BY <1>4, <2>1, <2>2, <2>3, <2>4, <2>6, Zenon
  <2> QED
    BY <2>5 DEF t, q
<1>6. CASE e.to \notin Found(r) /\ Adopted(s) >= affordable
  <2>1. t = [run |-> q, before |-> r.hops, truncated |-> TRUE]
    <3>1. t = [s EXCEPT !.truncated = TRUE]
      BY <1>6 DEF TakesHop
    <3> HIDE DEF q, t
    <3>2. \A c : [s EXCEPT !.truncated = c] = [run |-> q, before |-> r.hops, truncated |-> c]
      BY <1>0
    <3> QED
      BY <3>1, <3>2
  <2>2. SameLedger(q, q) /\ Later(q, q) /\ q.parent \in {q.parent, [q.parent EXCEPT ![e.to] = n]}
    BY <1>0, <1>1 DEF SameLedger, Later
  <2>3. TRUE \in BOOLEAN /\ r.hops <= q.hops /\ q.hops <= r.hops + affordable
    BY <1>0
  <2>4. /\ q \in RunType /\ Placed(q) /\ Deep(q, b.depth)
        /\ Found(q) \subseteq Found(q) /\ Found(q) \subseteq Found(q) \cup {e.to}
    BY <1>0
  <2> HIDE DEF q, t
  <2>5. Good
    BY <1>4, <1>9, <2>1, <2>2, <2>3, <2>4, Zenon
  <2> QED
    BY <2>5 DEF t, q
<1>7. CASE e.to \notin Found(r) /\ ~(Adopted(s) >= affordable)
  <2> DEFINE f == Adopt(q, n, e.to, potential, b.depth)
  <2>1. t = [run |-> f, before |-> r.hops, truncated |-> s.truncated]
    <3>1. t = [s EXCEPT !.run = f]
      BY <1>7 DEF TakesHop
    <3> HIDE DEF f, q, t
    <3> QED
      BY <1>0, <3>1
  <2> HIDE DEF potential
  <2>2. /\ f \in RunType /\ SameLedger(f, q) /\ f.hops = q.hops + 1
        /\ Placed(f) /\ Deep(f, b.depth) /\ Later(f, q)
        /\ f.parent = [q.parent EXCEPT ![e.to] = n]
        /\ Found(f) = Found(q) \cup {e.to} /\ f.partial = q.partial
        /\ \A m \in Node \ {e.to} : f.depth[m] = q.depth[m] /\ f.worth[m] = q.worth[m]
        /\ f.worth[e.to] = potential /\ f.live \subseteq q.live \cup {e.to}
    <3>1. e.to \notin Found(q) /\ e.to \in Node
      BY <1>1, <1>7 DEF Fresh
    <3> HIDE DEF q
    <3>2. q \in RunType /\ Placed(q) /\ Deep(q, b.depth) /\ potential \in Nat
      BY <1>0, <1>2
    <3>3. Adds(f, q, n, e.to, potential, b.depth)
      BY <3>1, <3>2, HopAdopted
    <3> HIDE DEF f
    <3> QED
      BY <3>3 DEF Adds
  <2>3. q.hops - r.hops < affordable
    BY <1>0, <1>1, <1>7 DEF Adopted
  <2>4. r.hops <= f.hops /\ f.hops <= r.hops + affordable
    <3> HIDE DEF f, q
    <3> QED
      BY <1>0, <1>1, <2>2, <2>3
  <2>5. s.truncated \in BOOLEAN /\ f.parent \in {q.parent, [q.parent EXCEPT ![e.to] = n]}
    BY <1>0, <2>2
  <2>6. Found(q) \subseteq Found(f) /\ Found(f) \subseteq Found(q) \cup {e.to}
    BY <2>2
  <2>8. Kindred(r) /\ HalfDone(r) => Ranked(f, q, n, b.depth)
    <3>1. e.to \notin Found(q) /\ n \in q.expanded
      BY <1>3, <1>7 DEF Fresh
    <3> HIDE DEF f, q
    <3> QED
      BY <1>0, <1>1, <1>2, <1>8, <2>2, <3>1, AdoptionKeepsTheRanks
  <2> HIDE DEF f, t, q
  <2>7. Good
    BY <1>4, <2>1, <2>2, <2>4, <2>5, <2>6, <2>8, Zenon
  <2> QED
    BY <2>7 DEF t, q
<1> QED
  BY <1>5, <1>6, <1>7

\* All hops of an expansion keep it.
LEMMA Walked ==
    ASSUME NEW r \in RunType, Placed(r), Acyclic(r), NEW b, b.depth \in Nat, Deep(r, b.depth),
           NEW n \in r.expanded, NEW affordable \in Nat, NEW A, n \in A, Closed(r, A),
           NEW steps \in Seq(Hops), \A i \in 1..Len(steps) : steps[i].to \notin A \cup r.cleared,
           \A i, j \in 1..Len(steps) : steps[i].to = steps[j].to => i = j
    PROVE  Walks(r, b, n, steps, affordable) \in Walking(r, b, n, affordable, A)
<1> DEFINE L == Len(steps)
           V == Walking(r, b, n, affordable, A)
           base == [run |-> r, before |-> r.hops, truncated |-> FALSE]
           Op(s, e) == TakesHop(s, e, r, b, n, affordable)
           Goal(i) == steps[i].to
           step == [p \in V \X (1..L) |->
                       IF Fresh(p[1], steps[p[2]], r) THEN Op(p[1], steps[p[2]]) ELSE p[1]]
           Next(g) == [u \in SUBSET (1..L) |->
                         IF u = {} THEN base ELSE Op(g[u \ {Max(u)}], steps[Max(u)])]
           iter == CHOOSE g : g = Next(g)
           Only(s, u) == Found(s.run) \subseteq Found(r) \cup {Goal(i) : i \in u}
<1>0. /\ L \in Nat /\ DOMAIN steps = 1..L /\ \A i \in 1..L : steps[i] \in Hops
      /\ \A i, j \in 1..L : Goal(i) = Goal(j) => i = j
  OBVIOUS
<1>1. base \in V /\ Only(base, {})
  <2>1. r.hops \in Nat /\ r.next \in Nat
    BY DEF RunType
  <2>2. base.run = r /\ base \in [run : RunType, before : {r.hops}, truncated : BOOLEAN]
    OBVIOUS
  <2>3. SameLedger(r, r) /\ Later(r, r) /\ Ranked(r, r, n, b.depth)
    BY <2>1 DEF SameLedger, Later, Ranked
  <2> HIDE DEF base
  <2> QED
    BY <2>1, <2>2, <2>3 DEF Walking
<1>2. ASSUME NEW s \in V, NEW i \in 1..L, Fresh(s, steps[i], r)
      PROVE  Op(s, steps[i]) \in V /\ Found(Op(s, steps[i]).run) \subseteq Found(s.run) \cup {Goal(i)}
  <2> steps[i] \in Hops /\ steps[i].to \notin A \cup r.cleared
    BY <1>0
  <2> QED
    BY <1>2, HopStaysInTheWalk
<1> HIDE DEF V, Op, base
<1>3. ASSUME NEW u, NEW i \in 1..L, u \subseteq 1..L, i \notin u, NEW s \in V, Only(s, u)
      PROVE  /\ Fresh(s, steps[i], r) /\ Op(s, steps[i]) \in V
             /\ Only(Op(s, steps[i]), u \cup {i})
  <2>1. Fresh(s, steps[i], r)
    BY <1>0, <1>3 DEF Fresh
  <2>2. Op(s, steps[i]) \in V /\ Found(Op(s, steps[i]).run) \subseteq Found(s.run) \cup {Goal(i)}
    BY <1>2, <1>3, <2>1
  <2>3. Found(Op(s, steps[i]).run) \subseteq Found(r) \cup {Goal(j) : j \in u \cup {i}}
    BY <1>3, <2>2
  <2> QED
    BY <2>1, <2>2, <2>3
<1>4. step \in [V \X (1..L) -> V]
  BY <1>0, <1>2
<1>5. PICK f \in [SUBSET (1..L) -> V] : FoldsBy(f, L, base, step)
  <2> HIDE DEF step, L
  <2> QED
    BY <1>0, <1>1, <1>4, FoldsExist, Zenon
<1>6. ASSUME NEW u \in SUBSET (1..L), u # {}, Only(f[u \ {Max(u)}], u \ {Max(u)})
      PROVE  f[u] = Op(f[u \ {Max(u)}], steps[Max(u)]) /\ Only(f[u], u)
  <2>0. Max(u) \in u
    BY <1>0, <1>6, MaxOfUpTo
  <2>1. Max(u) \in 1..L /\ (u \ {Max(u)}) \cup {Max(u)} = u
    BY <2>0
  <2>2. f[u \ {Max(u)}] \in V
    OBVIOUS
  <2>3. f[u] = step[<<f[u \ {Max(u)}], Max(u)>>]
    BY <1>5, <1>6 DEF FoldsBy
  <2>4. /\ Fresh(f[u \ {Max(u)}], steps[Max(u)], r)
        /\ Only(Op(f[u \ {Max(u)}], steps[Max(u)]), u)
    <3> HIDE DEF Only, L
    <3>1. u \ {Max(u)} \subseteq 1..L /\ Max(u) \notin u \ {Max(u)}
      OBVIOUS
    <3>2. Only(Op(f[u \ {Max(u)}], steps[Max(u)]), (u \ {Max(u)}) \cup {Max(u)})
      BY <1>3, <1>6, <2>1, <2>2, <3>1
    <3> QED
      BY <1>3, <1>6, <2>1, <2>2, <3>1, <3>2
  <2>5. f[u] = Op(f[u \ {Max(u)}], steps[Max(u)])
    BY <2>1, <2>2, <2>3, <2>4
  <2> QED
    BY <2>4, <2>5
<1>7. \A u \in SUBSET (1..L) : Only(f[u], u)
  <2> DEFINE S == {k \in Nat : k <= L => \A u \in SUBSET (1..k) : Only(f[u], u)}
  <2> HIDE DEF Only
  <2>0. Only(f[{}], {})
    BY <1>1, <1>5 DEF FoldsBy
  <2>1. 0 \in S
    BY <2>0, 1..0 = {}
  <2>2. ASSUME NEW k \in Nat, k \in S PROVE k + 1 \in S
    <3>0. k + 1 \in Nat /\ (k + 1 <= L => k <= L)
      BY <1>0
    <3> SUFFICES ASSUME k + 1 <= L, NEW u \in SUBSET (1..(k + 1)) PROVE Only(f[u], u)
      BY <3>0
    <3>1. \A v \in SUBSET (1..k) : Only(f[v], v)
      BY <3>0, <2>2
    <3>2. CASE k + 1 \notin u
      <4> u \in SUBSET (1..k)
        BY <3>2
      <4> QED
        BY <3>1
    <3>3. CASE k + 1 \in u
      <4>1. Max(u) = k + 1 /\ u \in SUBSET (1..L) /\ u # {}
        <5>1. u \in SUBSET (1..L) /\ u # {}
          BY <3>3, <1>0
        <5> QED
          BY <5>1, <3>0, <3>3, MaxOfUpTo
      <4>2. u \ {Max(u)} \in SUBSET (1..k)
        BY <4>1
      <4> HIDE DEF L
      <4> QED
        BY <1>6, <3>1, <4>1, <4>2
    <3> QED
      BY <3>2, <3>3
  <2> HIDE DEF S
  <2>3. L \in S /\ L <= L
    BY <1>0, <2>1, <2>2, CountingUp
  <2> QED
    BY <2>3 DEF S
<1>8. f = Next(f)
  <2> HIDE DEF Only
  <2>1. ASSUME NEW u \in SUBSET (1..L), u # {}
        PROVE  f[u] = Op(f[u \ {Max(u)}], steps[Max(u)])
    <3> u \ {Max(u)} \in SUBSET (1..L)
      OBVIOUS
    <3> QED
      BY <1>6, <1>7, <2>1
  <2>2. f[{}] = base
    BY <1>5 DEF FoldsBy
  <2> QED
    BY <2>1, <2>2
<1>9. iter = Next(iter)
  BY <1>8
<1>10. Walks(r, b, n, steps, affordable) = iter[1..L]
  BY <1>0 DEF Walks, FoldLeft, MapThenFoldSet, Op, base
<1> HIDE DEF iter
<1> DEFINE S == {k \in Nat : k <= L => iter[1..k] \in V /\ Only(iter[1..k], 1..k)}
<1>11. 0 \in S
  <2> 1..0 = {} /\ {} \in SUBSET (1..L)
    OBVIOUS
  <2> HIDE DEF Only
  <2> QED
    BY <1>1, <1>9
<1>12. ASSUME NEW k \in Nat, k \in S PROVE k + 1 \in S
  <2>0. k + 1 \in Nat /\ (k + 1 <= L => k <= L)
    BY <1>0
  <2> HIDE DEF Only
  <2> SUFFICES ASSUME k + 1 <= L
               PROVE  iter[1..(k + 1)] \in V /\ Only(iter[1..(k + 1)], 1..(k + 1))
    BY <2>0
  <2>1. iter[1..k] \in V /\ Only(iter[1..k], 1..k)
    BY <2>0, <1>12
  <2>2. iter[1..(k + 1)] = Op(iter[1..k], steps[k + 1])
    <3>1. /\ 1..(k + 1) \in SUBSET (1..L) /\ 1..(k + 1) \in SUBSET (1..(k + 1))
          /\ k + 1 \in 1..(k + 1) /\ (1..(k + 1)) \ {k + 1} = 1..k
          /\ 1..(k + 1) # {}
      BY <1>0, <2>0
    <3>2. Max(1..(k + 1)) = k + 1
      BY <2>0, <3>1, MaxOfUpTo
    <3> QED
      BY <1>9, <3>1, <3>2
  <2>3. 1..k \subseteq 1..L /\ k + 1 \in 1..L /\ k + 1 \notin 1..k /\ (1..k) \cup {k + 1} = 1..(k + 1)
    BY <1>0, <2>0
  <2>4. /\ Op(iter[1..k], steps[k + 1]) \in V
        /\ Only(Op(iter[1..k], steps[k + 1]), (1..k) \cup {k + 1})
    <3> HIDE DEF L
    <3> QED
      BY <1>3, <2>1, <2>3
  <2> QED
    BY <2>2, <2>3, <2>4
<1>13. iter[1..L] \in V
  <2> HIDE DEF S
  <2>1. L \in S /\ L <= L
    BY <1>0, <1>11, <1>12, CountingUp
  <2> QED
    BY <2>1 DEF S
<1> QED
  BY <1>10, <1>13 DEF V
-----------------------------------------------------------------------------
(* The start of a call.                                                    *)

\* What the limit of a new call lets be is queued, and the rest stays held.
LEMMA HeldAreRestored ==
    ASSUME NEW r \in RunType, Placed(r), NEW limit \in Nat
    PROVE  LET q == Restored(r, limit) IN
           /\ q \in RunType /\ SameLedger(q, r)
           /\ q.hops = r.hops /\ q.states = r.states /\ q.parent = r.parent
           /\ q.depth = r.depth /\ q.worth = r.worth /\ q.inSeen = r.inSeen
           /\ q.partial = {r.parent[n] : n \in Found(r)} \ (r.expanded \cup {None})
           /\ Placed(q) /\ Deep(q, limit)
<1> DEFINE fresh == [r EXCEPT
                !.partial = {r.parent[n] : n \in Found(r)} \ (r.expanded \cup {None})]
           s == r.states
           L == Len(s)
           Due(n) == n \in r.deferred \ r.cleared /\ r.depth[n] < limit
           Op(q, n) == IF n \in r.deferred \ r.cleared /\ r.depth[n] < limit
                       THEN Push(Frees(q, n), n, r.worth[n]) ELSE q
           V == {q \in RunType : /\ SameLedger(q, r) /\ SameRoutes(q, fresh) /\ Placed(q)
                                 /\ q.deferred \subseteq r.deferred
                                 /\ r.deferred \subseteq q.deferred \cup q.live}
           step == [p \in V \X (1..L) |-> Op(p[1], s[p[2]])]
           Next(g) == [u \in SUBSET (1..L) |->
                         IF u = {} THEN fresh ELSE Op(g[u \ {Max(u)}], s[Max(u)])]
           iter == CHOOSE g : g = Next(g)
<1>0. /\ s \in Seq(Node) /\ L \in Nat /\ DOMAIN s = 1..L /\ \A i \in 1..L : s[i] \in Node
      /\ Range(s) = {s[i] : i \in 1..L}
  <2>1. s \in Seq(Node)
    BY DEF RunType
  <2> HIDE DEF s
  <2> QED
    BY <2>1 DEF Range
<1>1. fresh \in V
  <2>1. {r.parent[n] : n \in Found(r)} \ (r.expanded \cup {None}) \in SUBSET Node
    <3>1. \A n \in Found(r) : r.parent[n] \in Node \cup {None}
      <4>1. Found(r) \subseteq Node
        BY <1>0 DEF Found
      <4> QED
        BY <4>1 DEF RunType
    <3> QED
      BY <3>1
  <2>2. fresh \in RunType
    BY <2>1, Zenon DEF RunType
  <2>3. SameLedger(fresh, r) /\ SameRoutes(fresh, fresh)
    BY <2>2 DEF SameLedger, SameRoutes, RunType
  <2>4. /\ fresh.live = r.live /\ fresh.deferred = r.deferred /\ fresh.strays = r.strays
        /\ fresh.seq = r.seq /\ fresh.next = r.next /\ fresh.expanded = r.expanded
        /\ fresh.cleared = r.cleared /\ fresh.states = r.states
    BY DEF RunType
  <2> HIDE DEF fresh
  <2>5. Placed(fresh)
    BY <2>4 DEF Placed
  <2> QED
    BY <2>2, <2>3, <2>4, <2>5
<1>2. ASSUME NEW q \in V, NEW n \in Node
      PROVE  /\ Op(q, n) \in V /\ Op(q, n).deferred \subseteq q.deferred
             /\ Due(n) => n \notin Op(q, n).deferred
  <2>0. /\ q \in RunType /\ SameLedger(q, r) /\ SameRoutes(q, fresh) /\ Placed(q)
        /\ q.deferred \subseteq r.deferred
        /\ r.deferred \subseteq q.deferred \cup q.live
    OBVIOUS
  <2>1. CASE ~Due(n)
    BY <2>1
  <2>2. CASE Due(n) /\ n \in q.deferred
    <3>1. r.worth[n] \in Nat /\ Op(q, n) = Push(Frees(q, n), n, r.worth[n])
      BY <2>2 DEF RunType
    <3> DEFINE t == Op(q, n)
    <3> HIDE DEF t, V, Op
    <3>2. /\ t \in RunType /\ SameLedger(t, q) /\ SameRoutes(t, q) /\ Placed(t)
          /\ t.deferred = q.deferred \ {n} /\ t.live = q.live \cup {n}
      BY <2>0, <2>2, <3>1, HeldIsQueued DEF t
    <3>3. SameLedger(t, r) /\ SameRoutes(t, fresh)
      BY <2>0, <3>2 DEF SameLedger, SameRoutes
    <3>4. t \in V
      BY <2>0, <3>2, <3>3 DEF V
    <3> QED
      BY <3>2, <3>4 DEF t
  <2>3. CASE Due(n) /\ n \notin q.deferred
    <3> DEFINE t == Frees(q, n)
    <3>1. Op(q, n) = Push(t, n, r.worth[n]) /\ n \in q.live
      BY <2>0, <2>3
    <3> HIDE DEF t, V, Op
    <3>2. /\ t \in RunType /\ SameLedger(t, q) /\ SameRoutes(t, q)
          /\ t.deferred = q.deferred \ {n} /\ t.live = q.live /\ t.strays = q.strays
          /\ t.next = q.next /\ t.seq = q.seq
      BY <2>0, Freed DEF t
    <3>3. Op(q, n) = t
      BY <3>1, <3>2 DEF Push
    <3>4. t.deferred = q.deferred
      BY <2>3, <3>2
    <3>5. SameLedger(t, r) /\ SameRoutes(t, fresh) /\ Placed(t)
      <4>1. SameLedger(t, r) /\ SameRoutes(t, fresh)
        BY <2>0, <3>2 DEF SameLedger, SameRoutes
      <4>2. t.expanded = q.expanded /\ t.cleared = q.cleared /\ t.states = q.states
        BY <3>2 DEF SameLedger, SameRoutes
      <4>3. Placed(t)
        BY <2>0, <3>2, <3>4, <4>2 DEF Placed
      <4> QED
        BY <4>1, <4>3
    <3>6. t \in V
      BY <2>0, <3>2, <3>4, <3>5 DEF V
    <3> QED
      BY <2>3, <3>3, <3>4, <3>6
  <2> QED
    BY <2>1, <2>2, <2>3
<1>3. /\ fresh.hops = r.hops /\ fresh.states = r.states /\ fresh.parent = r.parent
      /\ fresh.depth = r.depth /\ fresh.worth = r.worth /\ fresh.inSeen = r.inSeen
      /\ fresh.partial = {r.parent[n] : n \in Found(r)} \ (r.expanded \cup {None})
  BY DEF RunType
<1> HIDE DEF V, Op, fresh
<1>4. step \in [V \X (1..L) -> V]
  BY <1>0, <1>2
<1>5. PICK f \in [SUBSET (1..L) -> V] : FoldsBy(f, L, fresh, step)
  <2> HIDE DEF step, L
  <2> QED
    BY <1>0, <1>1, <1>4, FoldsExist, Zenon
<1>6. ASSUME NEW u \in SUBSET (1..L), u # {}
      PROVE  f[u] = Op(f[u \ {Max(u)}], s[Max(u)])
  <2>0. Max(u) \in u
    BY <1>0, <1>6, MaxOfUpTo
  <2>1. Max(u) \in 1..L
    BY <2>0
  <2>2. f[u \ {Max(u)}] \in V
    OBVIOUS
  <2>3. f[u] = step[<<f[u \ {Max(u)}], Max(u)>>]
    BY <1>5, <1>6 DEF FoldsBy
  <2> QED
    BY <2>1, <2>2, <2>3
<1>8. f = Next(f)
  <2>2. f[{}] = fresh
    BY <1>5 DEF FoldsBy
  <2> QED
    BY <1>6, <2>2
<1>9. iter = Next(iter)
  BY <1>8
<1>10. Restored(r, limit) = iter[1..L]
  BY <1>0 DEF Restored, FoldLeft, MapThenFoldSet, Op, fresh
<1> HIDE DEF iter
<1> DEFINE Inv(q, k) == q \in V /\ \A i \in 1..k : Due(s[i]) => s[i] \notin q.deferred
           S == {k \in Nat : k <= L => Inv(iter[1..k], k)}
<1>11. 0 \in S
  <2> 1..0 = {} /\ {} \in SUBSET (1..L)
    OBVIOUS
  <2>1. iter[1..0] = fresh
    BY <1>9
  <2> QED
    BY <1>1, <2>1
<1>12. ASSUME NEW k \in Nat, k \in S PROVE k + 1 \in S
  <2>0. k + 1 \in Nat /\ (k + 1 <= L => k <= L)
    BY <1>0
  <2> HIDE DEF Inv
  <2> SUFFICES ASSUME k + 1 <= L PROVE Inv(iter[1..(k + 1)], k + 1)
    BY <2>0
  <2>1. Inv(iter[1..k], k)
    BY <2>0, <1>12
  <2>2. iter[1..(k + 1)] = Op(iter[1..k], s[k + 1])
    <3>1. /\ 1..(k + 1) \in SUBSET (1..L) /\ 1..(k + 1) \in SUBSET (1..(k + 1))
          /\ k + 1 \in 1..(k + 1) /\ (1..(k + 1)) \ {k + 1} = 1..k
          /\ 1..(k + 1) # {}
      BY <1>0, <2>0
    <3>2. Max(1..(k + 1)) = k + 1
      BY <2>0, <3>1, MaxOfUpTo
    <3> QED
      BY <1>9, <3>1, <3>2
  <2>3. k + 1 \in 1..L /\ 1..(k + 1) = (1..k) \cup {k + 1} /\ s[k + 1] \in Node
    BY <1>0, <2>0
  <2> DEFINE q == iter[1..k]
             n == s[k + 1]
  <2>4. q \in V /\ \A i \in 1..k : Due(s[i]) => s[i] \notin q.deferred
    BY <2>1 DEF Inv
  <2> HIDE DEF q, Due
  <2>5. /\ Op(q, n) \in V /\ Op(q, n).deferred \subseteq q.deferred
        /\ Due(n) => n \notin Op(q, n).deferred
    BY <1>2, <2>3, <2>4
  <2>6. ASSUME NEW i \in 1..(k + 1), Due(s[i]) PROVE s[i] \notin Op(q, n).deferred
    <3>1. CASE i = k + 1
      BY <2>5, <2>6, <3>1
    <3>2. CASE i \in 1..k
      BY <2>4, <2>5, <2>6, <3>2
    <3> QED
      BY <2>3, <3>1, <3>2
  <2> QED
    BY <2>2, <2>5, <2>6 DEF Inv, q
<1>13. Inv(iter[1..L], L)
  <2> HIDE DEF S, Inv
  <2>1. L \in S /\ L <= L
    BY <1>0, <1>11, <1>12, CountingUp
  <2> QED
    BY <2>1 DEF S
<1> DEFINE q == Restored(r, limit)
<1>14. /\ q \in RunType /\ SameLedger(q, r) /\ SameRoutes(q, fresh) /\ Placed(q)
       /\ q.deferred \subseteq r.deferred
       /\ \A i \in 1..L : Due(s[i]) => s[i] \notin q.deferred
  BY <1>10, <1>13 DEF V
<1>15. Deep(q, limit)
  <2> SUFFICES ASSUME NEW n \in q.deferred PROVE r.depth[n] >= limit
    BY <1>3, <1>14 DEF Deep, SameRoutes
  <2>1. n \in r.deferred \ r.cleared /\ n \in Range(s) /\ n \in Node
    <3>1. n \in r.deferred
      BY <1>14
    <3> QED
      BY <3>1 DEF Placed, RunType
  <2>2. ~Due(n)
    BY <1>0, <1>14, <2>1
  <2>3. r.depth[n] \in Nat
    BY <2>1 DEF RunType
  <2> QED
    BY <2>1, <2>2, <2>3
<1> QED
  BY <1>3, <1>14, <1>15 DEF SameRoutes
-----------------------------------------------------------------------------
(* The queue and the seeds.                                                *)

\* A queue that holds anything has a first: of two queued states one is ahead,
\* and the one with the fewest ahead of it has none.
LEMMA FirstIsQueued ==
    ASSUME NEW r \in RunType, Placed(r), r.live # {}
    PROVE  First(r) \in r.live
<1> DEFINE Before(n) == {m \in r.live : Ahead(r, m, n)}
           T == {Cardinality(Before(n)) : n \in r.live}
<1>1. /\ r.live \subseteq Node /\ IsFiniteSet(r.live)
      /\ \A m, n \in r.live : r.seq[m] = r.seq[n] => m = n
      /\ \A m \in r.live : r.seq[m] \in Nat /\ r.priority[m] \in Nat
  <2>1. r.live \subseteq Node
    BY DEF RunType
  <2>2. IsFiniteSet(r.live)
    BY <2>1, NodesAndMenus, FS_Subset
  <2> QED
    BY <2>1, <2>2 DEF Placed, RunType
<1>2. \A n \in r.live : Before(n) \in SUBSET r.live /\ IsFiniteSet(Before(n))
  BY <1>1, FS_Subset
<1>3. T \subseteq Nat /\ T # {}
  BY <1>2, FS_CardinalityType
<1> HIDE DEF T
<1>4. PICK x \in T : \A y \in T : x <= y
  BY <1>3, LeastNumber
<1>5. PICK n \in r.live : x = Cardinality(Before(n))
  BY DEF T
<1>6. ASSUME NEW m \in r.live, Ahead(r, m, n) PROVE FALSE
  <2>1. Before(m) \subseteq Before(n) /\ m \in Before(n) /\ m \notin Before(m)
    BY <1>1, <1>6 DEF Ahead
  <2> HIDE DEF Before
  <2>2. Cardinality(Before(m)) <= Cardinality(Before(n))
        /\ Cardinality(Before(m)) # Cardinality(Before(n))
    BY <1>2, <2>1, FS_Subset
  <2>3. Cardinality(Before(m)) \in T
    BY DEF T
  <2>4. x <= Cardinality(Before(m)) /\ x \in Nat /\ Cardinality(Before(m)) \in Nat
    BY <1>3, <1>4, <2>3
  <2> QED
    BY <1>5, <2>2, <2>4
<1>7. \A m \in r.live \ {n} : Ahead(r, n, m)
  BY <1>1, <1>6 DEF Ahead
<1>8. \E k \in r.live : \A m \in r.live \ {k} : Ahead(r, k, m)
  BY <1>7
<1> HIDE DEF Before
<1> QED
  BY <1>8 DEF First

\* The seeds are taken in some order.
LEMMA SeedsAreListed == SetToSeq(Seed) \in Seq(Node)
<1>1. IsFiniteSet(Seed) /\ Seed \subseteq Node
  BY BudgetsAreCaps, NodesAndMenus, FS_Subset
<1>2. Cardinality(Seed) \in Nat /\ ExistsBijection(1..Cardinality(Seed), Seed)
  BY <1>1, FS_CardinalityType
<1> DEFINE N == Cardinality(Seed)
<1>3. PICK f \in [1..N -> Seed] : \A a, b \in 1..N : f[a] = f[b] => a = b
  BY <1>2 DEF ExistsBijection, Bijection, Injection, Surjection, IsInjective
<1>4. IsInjective(f)
  BY <1>3 DEF IsInjective
<1>5. SetToSeq(Seed) \in [1..N -> Seed]
  BY <1>4 DEF SetToSeq
<1> QED
  BY <1>1, <1>2, <1>5
-----------------------------------------------------------------------------
(* What a walk owes and has paid.                                          *)

\* Those whose tokens, or calls, are among what has been spent.
TokensOf(r) == r.expanded \cup {n \in Node : r.paidTokens[n] # 0}
CallsOf(r) == r.expanded \cup {n \in Node : r.paidCalls[n] # 0}

\* What is paid ahead is owed a retry, and nothing is spent but for hops, for
\* what a node of those costs, and on the confirmer.
Ledger(r) ==
    /\ r.owing \cap r.expanded = {}
    /\ \A n \in Node : r.paidTokens[n] # 0 \/ r.paidCalls[n] # 0 => n \in r.owing
    /\ r.tokens <= PerEdge * r.hops + CallTokens * Cardinality(TokensOf(r))
    /\ r.calls <= r.confirms + Cardinality(CallsOf(r))

\* Everything that holds of a run between two steps.
Sound(r, limit) ==
    r \in RunType /\ Placed(r) /\ Acyclic(r) /\ Deep(r, limit) /\ Ledger(r)

\* q has spent what r has spent.
SpendsNothing(q, r) ==
    /\ q.tokens = r.tokens /\ q.calls = r.calls /\ q.confirms = r.confirms
    /\ q.pops = r.pops /\ q.freePops = r.freePops

\* The ledger is about nothing but these.
LEMMA LedgerIsKept ==
    ASSUME NEW r \in RunType, NEW q \in RunType, Ledger(r),
           q.tokens = r.tokens, q.calls = r.calls, q.confirms = r.confirms,
           q.owing = r.owing, q.paidTokens = r.paidTokens, q.paidCalls = r.paidCalls,
           q.expanded = r.expanded, q.hops >= r.hops
    PROVE  Ledger(q)
<1>1. TokensOf(q) = TokensOf(r) /\ CallsOf(q) = CallsOf(r)
  BY DEF TokensOf, CallsOf
<1>2. /\ TokensOf(r) \in SUBSET Node /\ CallsOf(r) \in SUBSET Node
  BY DEF TokensOf, CallsOf, RunType
<1>3. Cardinality(TokensOf(r)) \in Nat /\ Cardinality(CallsOf(r)) \in Nat
  BY <1>2, NodesAndMenus, FS_Subset, FS_CardinalityType
<1>4. r.hops \in Nat /\ q.hops \in Nat /\ r.tokens \in Nat
  BY DEF RunType
<1>5. PerEdge * r.hops <= PerEdge * q.hops
  BY <1>4 DEF PerEdge
<1>6. q.tokens <= PerEdge * q.hops + CallTokens * Cardinality(TokensOf(q))
  <2>1. r.tokens <= PerEdge * r.hops + CallTokens * Cardinality(TokensOf(r))
    BY DEF Ledger
  <2> QED
    BY <1>1, <1>3, <1>4, <1>5, <2>1 DEF PerEdge, CallTokens
<1>7. q.calls <= q.confirms + Cardinality(CallsOf(q))
  BY <1>1 DEF Ledger
<1> QED
  BY <1>6, <1>7 DEF Ledger

\* A node's calls are paid at most once, and those that still owe a retry are
\* among those that were asked.
LEMMA LedgerPaysOnce ==
    ASSUME NEW r \in RunType, Ledger(r)
    PROVE  LET asked == Cardinality(r.expanded \cup r.owing)
           IN /\ r.tokens <= PerEdge * r.hops + CallTokens * asked
              /\ r.calls - r.confirms <= asked
<1> DEFINE A == r.expanded \cup r.owing
<1>1. A \in SUBSET Node /\ IsFiniteSet(A)
  <2>1. A \in SUBSET Node
    BY DEF RunType
  <2> QED
    BY <2>1, NodesAndMenus, FS_Subset
<1>2. TokensOf(r) \in SUBSET A /\ CallsOf(r) \in SUBSET A
  BY DEF Ledger, TokensOf, CallsOf
<1> HIDE DEF A
<1>3. /\ Cardinality(TokensOf(r)) <= Cardinality(A) /\ Cardinality(CallsOf(r)) <= Cardinality(A)
      /\ IsFiniteSet(TokensOf(r)) /\ IsFiniteSet(CallsOf(r))
  BY <1>1, <1>2, FS_Subset
<1>4. /\ Cardinality(A) \in Nat /\ Cardinality(TokensOf(r)) \in Nat
      /\ Cardinality(CallsOf(r)) \in Nat
  BY <1>1, <1>3, FS_CardinalityType
<1>5. r.hops \in Nat /\ r.tokens \in Nat /\ r.calls \in Nat /\ r.confirms \in Nat
  BY DEF RunType
<1>6. r.tokens <= PerEdge * r.hops + CallTokens * Cardinality(A)
  <2>1. r.tokens <= PerEdge * r.hops + CallTokens * Cardinality(TokensOf(r))
    BY DEF Ledger
  <2> QED
    BY <1>3, <1>4, <1>5, <2>1 DEF PerEdge, CallTokens
<1>7. r.calls - r.confirms <= Cardinality(A)
  <2>1. r.calls <= r.confirms + Cardinality(CallsOf(r))
    BY DEF Ledger
  <2> QED
    BY <1>3, <1>4, <1>5, <2>1
<1> QED
  BY <1>6, <1>7 DEF A

\* A walk that has not begun is sound.
LEMMA NewRunIsSound == ASSUME NEW limit \in Nat PROVE Sound(NewRun, limit)
<1> DEFINE r == NewRun
<1>1. r \in RunType
  <2>1. <<>> \in Seq(Node) /\ 0 \in Nat /\ 0 \in Int
    OBVIOUS
  <2>2. /\ [n \in Node |-> None] \in [Node -> Node \cup {None}]
        /\ [n \in Node |-> 0] \in [Node -> Nat] /\ [n \in Node |-> 0] \in [Node -> Int]
        /\ [n \in Node |-> 0] \in [Node -> {0, CallTokens}]
        /\ [n \in Node |-> 0] \in [Node -> 0..1]
    OBVIOUS
  <2> QED
    BY <2>1, <2>2, Zenon DEF NewRun, RunType
<1>2. /\ r.states = <<>> /\ r.live = {} /\ r.expanded = {} /\ r.deferred = {} /\ r.cleared = {}
      /\ r.owing = {} /\ r.tokens = 0 /\ r.calls = 0 /\ r.confirms = 0 /\ r.hops = 0
      /\ r.parent = [n \in Node |-> None]
      /\ r.paidTokens = [n \in Node |-> 0] /\ r.paidCalls = [n \in Node |-> 0]
  BY DEF NewRun
<1> HIDE DEF r
<1>3. Placed(r)
  <2> DOMAIN <<>> = {}
    OBVIOUS
  <2> QED
    BY <1>2 DEF Placed, IsInjective, Range
<1>4. Acyclic(r)
  BY <1>2, NodesAndMenus DEF Acyclic
<1>5. Deep(r, limit)
  BY <1>2 DEF Deep
<1>6. TokensOf(r) = {} /\ CallsOf(r) = {}
  BY <1>2 DEF TokensOf, CallsOf
<1>7. Ledger(r)
  BY <1>2, <1>6, FS_EmptySet DEF Ledger, PerEdge, CallTokens
<1> QED
  BY <1>1, <1>3, <1>4, <1>5, <1>7 DEF Sound, r

\* A run that only its queue and its found states tell from a sound one, found
\* by the same routes, is sound.
LEMMA SoundnessIsKept ==
    ASSUME NEW limit, NEW r, NEW q \in RunType, NEW new, Sound(r, limit), SameLedger(q, r),
           q.parent = r.parent, q.hops = r.hops, Placed(q), Deep(q, new)
    PROVE  Sound(q, new) /\ SpendsNothing(q, r)
<1>1. r \in RunType /\ Acyclic(r) /\ Ledger(r)
  BY DEF Sound
<1>2. Acyclic(q)
  BY <1>1 DEF Acyclic
<1>3. r.hops \in Nat
  BY <1>1 DEF RunType
<1>4. Ledger(q)
  <2>1. /\ q.tokens = r.tokens /\ q.calls = r.calls /\ q.confirms = r.confirms
        /\ q.owing = r.owing /\ q.paidTokens = r.paidTokens /\ q.paidCalls = r.paidCalls
        /\ q.expanded = r.expanded /\ q.hops >= r.hops
    BY <1>3 DEF SameLedger
  <2> QED
    BY <1>1, <2>1, LedgerIsKept
<1>5. SpendsNothing(q, r)
  BY DEF SpendsNothing, SameLedger
<1> QED
  BY <1>2, <1>4, <1>5 DEF Sound
-----------------------------------------------------------------------------
(* The seeds, and what a handler or the agent directs.                     *)

\* The seeds leave the first call's run sound.
LEMMA SeedsAreSound ==
    ASSUME NEW limit \in Nat, NEW r, Sound(r, limit)
    PROVE  LET q == FoldLeft(LAMBDA s, n : AddSeed(s, n, limit), r, SetToSeq(Seed))
           IN Sound(q, limit) /\ SpendsNothing(q, r) /\ Extends(q, r)
<1> DEFINE V == {q \in RunType : /\ SameLedger(q, r) /\ Placed(q) /\ Deep(q, limit)
                                 /\ q.hops = r.hops /\ Extends(q, r)}
           q == FoldLeft(LAMBDA s, n : AddSeed(s, n, limit), r, SetToSeq(Seed))
<1>1. r \in V
  BY DEF Sound, SameLedger, Extends
<1>2. ASSUME NEW s \in V, NEW n \in Node PROVE AddSeed(s, n, limit) \in V
  <2> DEFINE t == AddSeed(s, n, limit)
  <2>1. /\ s \in RunType /\ SameLedger(s, r) /\ Placed(s) /\ Deep(s, limit)
        /\ s.hops = r.hops /\ Extends(s, r)
    OBVIOUS
  <2>2. /\ t \in RunType /\ SameLedger(t, s) /\ Placed(t) /\ Deep(t, limit)
        /\ t.hops = s.hops /\ Extends(t, s)
    BY <2>1, SeedAdded
  <2> HIDE DEF t
  <2>3. SameLedger(t, r) /\ Extends(t, r)
    BY <2>1, <2>2 DEF SameLedger, Extends
  <2> QED
    BY <2>1, <2>2, <2>3 DEF t
<1> HIDE DEF V
<1>3. q \in V
  BY <1>1, <1>2, SeedsAreListed, SeedsStay
<1> QED
  BY <1>3, SoundnessIsKept DEF V, Extends

\* A redirect empties the queue for one node, and what it empties out strays.
LEMMA RedirectsAreSound ==
    ASSUME NEW limit \in Nat, NEW r, Sound(r, limit), NEW n \in Node
    PROVE  LET q == Redirects(r, n, limit)
           IN Sound(q, limit) /\ SpendsNothing(q, r) /\ Extends(q, r)
<1> DEFINE emptied == [r EXCEPT !.live = {}, !.strays = @ \cup r.live,
                                !.priority = [m \in Node |-> 0],
                                !.seq = [m \in Node |-> 0]]
           q == Redirects(r, n, limit)
           Good == /\ q \in RunType /\ SameLedger(q, r) /\ Extends(q, r)
                   /\ q.hops = r.hops /\ Placed(q) /\ Deep(q, limit)
<1>0. r \in RunType /\ Placed(r) /\ Deep(r, limit)
  BY DEF Sound
<1>1. emptied \in RunType
  <2>1. {} \in SUBSET Node /\ r.strays \cup r.live \in SUBSET Node
    BY <1>0 DEF RunType
  <2>2. [m \in Node |-> 0] \in [Node -> Nat]
    OBVIOUS
  <2> QED
    BY <1>0, <2>1, <2>2, Zenon DEF RunType
<1>2. /\ SameLedger(emptied, r) /\ SameRoutes(emptied, r)
      /\ emptied.live = {} /\ emptied.strays = r.strays \cup r.live
      /\ emptied.deferred = r.deferred /\ emptied.next = r.next
  BY <1>0 DEF RunType, SameLedger, SameRoutes
<1> HIDE DEF emptied
<1>3. /\ emptied.expanded = r.expanded /\ emptied.cleared = r.cleared
      /\ emptied.states = r.states /\ emptied.depth = r.depth
      /\ emptied.parent = r.parent /\ emptied.hops = r.hops /\ emptied.worth = r.worth
      /\ Extends(emptied, r)
  BY <1>2 DEF SameLedger, SameRoutes, Extends, Found
<1>4. Placed(emptied) /\ Deep(emptied, limit)
  <2>1. Placed(emptied)
    BY <1>0, <1>2, <1>3 DEF Placed
  <2>2. Deep(emptied, limit)
    BY <1>0, <1>2, <1>3 DEF Deep
  <2> QED
    BY <2>1, <2>2
<1>5. q = IF n \in r.cleared \cup r.expanded THEN emptied
          ELSE IF n \notin Found(r) THEN AddSeed(emptied, n, limit)
          ELSE IF r.depth[n] >= limit THEN Holds(emptied, n)
          ELSE Push(Frees(emptied, n), n, r.worth[n])
  BY DEF Redirects, emptied
<1> SUFFICES Good
  BY SoundnessIsKept DEF Extends
<1> HIDE DEF q
<1>6. CASE n \in r.cleared \cup r.expanded
  BY <1>1, <1>2, <1>3, <1>4, <1>5, <1>6
<1>7. CASE n \notin r.cleared \cup r.expanded /\ n \notin Found(r)
  <2>1. q = AddSeed(emptied, n, limit)
    BY <1>5, <1>7
  <2>2. /\ q \in RunType /\ SameLedger(q, emptied) /\ Placed(q) /\ Deep(q, limit)
        /\ q.hops = emptied.hops /\ Extends(q, emptied)
    BY <1>1, <1>4, <2>1, SeedAdded
  <2>3. SameLedger(q, r) /\ Extends(q, r)
    BY <1>2, <1>3, <2>2 DEF SameLedger, Extends
  <2> QED
    BY <1>3, <2>2, <2>3
<1>8. CASE n \notin r.cleared \cup r.expanded /\ n \in Found(r) /\ r.depth[n] >= limit
  <2>1. q = Holds(emptied, n)
    BY <1>5, <1>8
  <2>2. /\ q \in RunType /\ SameLedger(q, emptied)
        /\ SameRoutes(q, emptied) /\ q.deferred = emptied.deferred \cup {n}
        /\ q.live = emptied.live /\ q.strays = emptied.strays \ {n} /\ q.next = emptied.next
        /\ q.seq = emptied.seq
    BY <1>1, <2>1, Held
  <2>3. /\ q.expanded = r.expanded /\ q.cleared = r.cleared /\ q.states = r.states
        /\ q.depth = r.depth /\ q.parent = r.parent /\ q.hops = r.hops /\ SameLedger(q, r)
        /\ Extends(q, r)
    BY <1>2, <1>3, <2>2 DEF SameLedger, SameRoutes, Extends, Found
  <2>4. Placed(q)
    BY <1>2, <1>3, <1>4, <1>8, <2>2, <2>3 DEF Placed, Found
  <2>5. Deep(q, limit)
    BY <1>0, <1>2, <1>8, <2>2, <2>3 DEF Deep
  <2> QED
    BY <2>2, <2>3, <2>4, <2>5
<1>9. CASE n \notin r.cleared \cup r.expanded /\ n \in Found(r) /\ ~(r.depth[n] >= limit)
  <2> DEFINE f == Frees(emptied, n)
  <2>1. q = Push(f, n, r.worth[n]) /\ r.worth[n] \in Nat
    BY <1>0, <1>5, <1>9 DEF RunType
  <2>2. /\ f \in RunType /\ SameLedger(f, emptied)
        /\ SameRoutes(f, emptied) /\ f.deferred = emptied.deferred \ {n}
        /\ f.live = emptied.live /\ f.strays = emptied.strays /\ f.next = emptied.next
        /\ f.seq = emptied.seq
    BY <1>1, Freed
  <2> HIDE DEF f
  <2>3. /\ q \in RunType /\ SameLedger(q, f) /\ SameRoutes(q, f)
        /\ q.deferred = f.deferred /\ q.live = f.live \cup {n}
        /\ q.strays = f.strays \ {n} /\ q.next = f.next + 1 /\ q.seq[n] = f.next
        /\ \A m \in Node \ {n} : q.seq[m] = f.seq[m]
    <3> n \notin f.live
      BY <1>2, <2>2
    <3> QED
      BY <2>1, <2>2, Pushed
  <2>4. /\ q.expanded = r.expanded /\ q.cleared = r.cleared /\ q.states = r.states
        /\ q.depth = r.depth /\ q.parent = r.parent /\ q.hops = r.hops /\ SameLedger(q, r)
        /\ Extends(q, r)
    BY <1>2, <1>3, <2>2, <2>3 DEF SameLedger, SameRoutes, Extends, Found
  <2>5. r.next \in Nat
    BY <1>0 DEF RunType
  <2>6. Placed(q)
    BY <1>2, <1>3, <1>4, <1>9, <2>2, <2>3, <2>4, <2>5 DEF Placed, Found
  <2>7. Deep(q, limit)
    BY <1>0, <1>2, <2>2, <2>3, <2>4 DEF Deep
  <2> QED
    BY <2>3, <2>4, <2>6, <2>7
<1> QED
  BY <1>6, <1>7, <1>8, <1>9

\* A directive leaves a sound run sound, and spends nothing.
LEMMA DirectivesAreSound ==
    ASSUME NEW limit \in Nat, NEW r, Sound(r, limit), NEW agent, NEW d \in Directives(agent)
    PROVE  LET q == Applied(r, d, limit)
           IN Sound(q, limit) /\ SpendsNothing(q, r) /\ Extends(q, r)
<1> DEFINE n == d.node
           counted == [r EXCEPT !.steers = @ + 1]
           q == Applied(r, d, limit)
           Good == Sound(q, limit) /\ SpendsNothing(q, r) /\ Extends(q, r)
<1>0. r \in RunType /\ Placed(r) /\ Deep(r, limit)
  BY DEF Sound
<1>1. counted \in RunType
  <2>1. r.steers + 1 \in Nat
    BY <1>0 DEF RunType
  <2> QED
    BY <1>0, <2>1, Zenon DEF RunType
<1>2. /\ SameLedger(counted, r) /\ SameRoutes(counted, r)
      /\ counted.live = r.live /\ counted.strays = r.strays /\ counted.seq = r.seq
      /\ counted.deferred = r.deferred /\ counted.next = r.next
      /\ counted.expanded = r.expanded /\ counted.cleared = r.cleared
      /\ counted.states = r.states
  BY <1>0 DEF RunType, SameLedger, SameRoutes
<1> HIDE DEF counted
<1>3. Placed(counted) /\ Deep(counted, limit)
      /\ counted.parent = r.parent /\ counted.hops = r.hops
  <2>1. counted.depth = r.depth /\ counted.parent = r.parent /\ counted.hops = r.hops
    BY <1>2 DEF SameRoutes
  <2>2. Placed(counted)
    BY <1>0, <1>2 DEF Placed
  <2> QED
    BY <1>0, <1>2, <2>1, <2>2 DEF Deep
<1>4. Sound(counted, limit) /\ SpendsNothing(counted, r) /\ Extends(counted, r)
  <2>1. Extends(counted, r)
    BY <1>2 DEF SameRoutes, Extends, Found
  <2> QED
    BY <1>1, <1>2, <1>3, <2>1, SoundnessIsKept
<1>5. ASSUME NEW t \in RunType, SameLedger(t, counted), SameRoutes(t, counted),
             t.deferred = counted.deferred, t.live = counted.live,
             t.strays = counted.strays, t.next = counted.next, t.seq = counted.seq
      PROVE  Sound(t, limit) /\ SpendsNothing(t, r) /\ Extends(t, r)
  <2>1. /\ t.expanded = counted.expanded /\ t.cleared = counted.cleared
        /\ t.states = counted.states /\ t.depth = counted.depth
        /\ t.parent = counted.parent /\ t.hops = counted.hops
    BY <1>5 DEF SameLedger, SameRoutes
  <2>2. Placed(t)
    BY <1>3, <1>5, <2>1 DEF Placed
  <2>3. Deep(t, limit)
    BY <1>3, <1>5, <2>1 DEF Deep
  <2>4. Sound(t, limit) /\ SpendsNothing(t, counted)
    BY <1>4, <1>5, <2>1, <2>2, <2>3, SoundnessIsKept
  <2>5. Extends(t, r)
    BY <1>4, <1>5, <2>1 DEF SameRoutes, Extends, Found
  <2> QED
    BY <1>4, <2>4, <2>5 DEF SpendsNothing
<1>6. d.do \in {"continue", "prune", "expand", "boost", "fade", "redirect"} => n \in Node
  BY DEF Directives
<1>7. CASE ~TakesEffect(r, d)
  <2>1. q = r
    BY <1>7 DEF Applied
  <2>2. SpendsNothing(r, r) /\ Extends(r, r)
    BY DEF SpendsNothing, Extends
  <2> QED
    BY <2>1, <2>2
<1>8. CASE TakesEffect(r, d) /\ d.do = "prune"
  <2> DEFINE u == Unqueues(counted, n)
             t == [u EXCEPT !.cleared = @ \cup {n}]
  <2>0. n \in Node /\ n \in r.live
    BY <1>6, <1>8 DEF TakesEffect
  <2>1. q = t
    BY <1>8 DEF Applied, counted
  <2>2. /\ u \in RunType /\ SameLedger(u, counted)
        /\ SameRoutes(u, counted) /\ u.deferred = counted.deferred
        /\ u.live = counted.live \ {n} /\ u.strays = counted.strays /\ u.next = counted.next
        /\ \A m \in Node \ {n} : u.seq[m] = counted.seq[m]
    BY <1>1, <2>0, Unqueued
  <2> HIDE DEF u
  <2>3. t \in RunType
    <3>1. u.cleared \cup {n} \in SUBSET Node
      BY <2>0, <2>2 DEF RunType
    <3> QED
      BY <2>2, <3>1, Zenon DEF RunType
  <2>4. /\ t.tokens = u.tokens /\ t.calls = u.calls /\ t.confirms = u.confirms
        /\ t.owing = u.owing /\ t.paidTokens = u.paidTokens /\ t.paidCalls = u.paidCalls
        /\ t.expanded = u.expanded /\ t.hops = u.hops /\ t.pops = u.pops
        /\ t.freePops = u.freePops
        /\ t.deferred = u.deferred /\ t.live = u.live /\ t.strays = u.strays
        /\ t.next = u.next /\ t.seq = u.seq /\ t.parent = u.parent /\ t.depth = u.depth
        /\ t.states = u.states /\ t.cleared = u.cleared \cup {n}
        /\ t.worth = u.worth /\ t.partial = u.partial
    BY <2>2 DEF RunType
  <2> HIDE DEF t
  <2>5. /\ t.tokens = r.tokens /\ t.calls = r.calls /\ t.confirms = r.confirms
        /\ t.owing = r.owing /\ t.paidTokens = r.paidTokens /\ t.paidCalls = r.paidCalls
        /\ t.expanded = r.expanded /\ t.hops = r.hops /\ t.pops = r.pops
        /\ t.freePops = r.freePops /\ t.states = r.states /\ t.depth = r.depth
        /\ t.parent = r.parent /\ t.cleared = r.cleared \cup {n}
        /\ t.worth = r.worth /\ t.partial = r.partial
    BY <1>2, <2>2, <2>4 DEF SameLedger, SameRoutes
  <2>6. Placed(t)
    <3> r.live \subseteq Node
      BY <1>0 DEF RunType
    <3> QED
      BY <1>0, <1>2, <2>0, <2>2, <2>4, <2>5 DEF Placed
  <2>7. Deep(t, limit)
    BY <1>0, <1>2, <2>2, <2>4, <2>5 DEF Deep
  <2>8. Acyclic(t)
    BY <2>5 DEF Sound, Acyclic
  <2>9. Ledger(t)
    <3> r.hops \in Nat /\ Ledger(r)
      BY <1>0 DEF RunType, Sound
    <3> QED
      BY <1>0, <2>3, <2>5, LedgerIsKept
  <2>10. Extends(t, r)
    BY <2>5 DEF Extends, Found
  <2> QED
    BY <2>1, <2>3, <2>5, <2>6, <2>7, <2>8, <2>9, <2>10 DEF Sound, SpendsNothing
<1>9. CASE TakesEffect(r, d) /\ d.do \in {"expand", "boost", "fade"}
  <2>0. n \in Node
    BY <1>6, <1>9
  <2>1. PICK p \in Nat : q = SetPriority(counted, n, p)
    <3>1. Top \in Nat /\ 2 * r.priority[n] \in Nat /\ 0 \in Nat
      BY <1>0, <2>0 DEF RunType, Top
    <3>2. CASE d.do = "expand"
      BY <1>9, <3>1, <3>2 DEF Applied, counted
    <3>3. CASE d.do = "boost"
      BY <1>9, <3>1, <3>3 DEF Applied, counted
    <3>4. CASE d.do = "fade"
      BY <1>9, <3>1, <3>4 DEF Applied, counted
    <3> QED
      BY <1>9, <3>2, <3>3, <3>4
  <2> DEFINE t == SetPriority(counted, n, p)
  <2>2. /\ t \in RunType /\ SameLedger(t, counted)
        /\ SameRoutes(t, counted) /\ t.deferred = counted.deferred
        /\ t.live = counted.live /\ t.strays = counted.strays /\ t.next = counted.next
        /\ t.seq = counted.seq
    BY <1>1, <2>0, Reordered
  <2> HIDE DEF t
  <2>3. Good
    BY <1>5, <2>1, <2>2 DEF t
  <2> QED
    BY <2>3
<1>10. CASE TakesEffect(r, d) /\ d.do = "redirect"
  <2>0. n \in Node /\ q = Redirects(counted, n, limit)
    BY <1>6, <1>10 DEF Applied, counted
  <2>1. Sound(q, limit) /\ SpendsNothing(q, counted) /\ Extends(q, counted)
    BY <1>4, <2>0, RedirectsAreSound
  <2> QED
    BY <1>4, <2>1 DEF SpendsNothing, Extends
<1>11. CASE TakesEffect(r, d) /\ d.do = "raise"
  <2> DEFINE t == [counted EXCEPT !.raised = RaisePops]
  <2>1. q = t
    BY <1>11 DEF Applied, counted
  <2>2. t \in RunType
    BY <1>1, Zenon DEF RunType, RaisePops
  <2>3. /\ t.tokens = counted.tokens /\ t.calls = counted.calls
        /\ t.confirms = counted.confirms
        /\ t.owing = counted.owing /\ t.paidTokens = counted.paidTokens
        /\ t.paidCalls = counted.paidCalls
        /\ t.expanded = counted.expanded /\ t.hops = counted.hops /\ t.pops = counted.pops
        /\ t.freePops = counted.freePops
        /\ t.deferred = counted.deferred /\ t.live = counted.live
        /\ t.strays = counted.strays
        /\ t.next = counted.next /\ t.seq = counted.seq /\ t.parent = counted.parent
        /\ t.depth = counted.depth /\ t.states = counted.states
        /\ t.cleared = counted.cleared /\ t.worth = counted.worth
        /\ t.partial = counted.partial
    BY <1>1 DEF RunType
  <2> HIDE DEF t
  <2>4. Placed(t) /\ Deep(t, limit)
    <3>1. Placed(t)
      BY <1>3, <2>3 DEF Placed
    <3>2. Deep(t, limit)
      BY <1>3, <2>3 DEF Deep
    <3> QED
      BY <3>1, <3>2
  <2>5. Acyclic(t)
    BY <1>4, <2>3 DEF Sound, Acyclic
  <2>6. Ledger(t)
    <3> counted.hops \in Nat /\ Ledger(counted)
      BY <1>1, <1>4 DEF RunType, Sound
    <3> QED
      BY <1>1, <2>2, <2>3, LedgerIsKept
  <2>7. SpendsNothing(t, r)
    BY <1>4, <2>3 DEF SpendsNothing
  <2>8. Extends(t, r)
    BY <1>4, <2>3 DEF Extends, Found
  <2> QED
    BY <2>1, <2>2, <2>4, <2>5, <2>6, <2>7, <2>8 DEF Sound
<1>12. CASE TakesEffect(r, d)
            /\ d.do \notin {"prune", "expand", "boost", "fade", "redirect", "raise"}
  <2>1. q = counted
    BY <1>12 DEF Applied, counted
  <2> QED
    BY <1>4, <2>1
<1> QED
  BY <1>7, <1>8, <1>9, <1>10, <1>11, <1>12
-----------------------------------------------------------------------------
(* The hops an expansion keeps of what it was offered.                     *)

\* No two of the hops lead to one node, and none leads into `gone`.
Distinct(edges) == \A i, j \in DOMAIN edges : edges[i].to = edges[j].to => i = j
Avoids(edges, gone) == \A i \in DOMAIN edges : edges[i].to \notin gone
Goals(edges) == {edges[i].to : i \in DOMAIN edges}

\* A hop appended to distinct hops that lead elsewhere leaves them distinct.
LEMMA HopAppended ==
    ASSUME NEW kept \in Seq(Hops), NEW e \in Hops, Distinct(kept), e.to \notin Goals(kept)
    PROVE  /\ Append(kept, e) \in Seq(Hops) /\ Distinct(Append(kept, e))
           /\ Goals(Append(kept, e)) = Goals(kept) \cup {e.to}
<1> DEFINE q == Append(kept, e)
           L == Len(kept)
<1>1. /\ q \in Seq(Hops) /\ L \in Nat /\ DOMAIN kept = 1..L /\ DOMAIN q = 1..(L + 1)
      /\ \A i \in 1..L : q[i] = kept[i]
      /\ q[L + 1] = e
  OBVIOUS
<1> HIDE DEF q, L
<1>2. 1..(L + 1) = (1..L) \cup {L + 1} /\ L + 1 \notin 1..L
  BY <1>1
<1>3. \A i \in 1..L : kept[i].to # e.to
  BY <1>1 DEF Goals
<1>4. Distinct(q)
  <2> SUFFICES ASSUME NEW i \in 1..(L + 1), NEW j \in 1..(L + 1), q[i].to = q[j].to
               PROVE  i = j
    BY <1>1 DEF Distinct
  <2>1. CASE i \in 1..L /\ j \in 1..L
    BY <1>1, <2>1 DEF Distinct
  <2>2. CASE i = L + 1 /\ j \in 1..L
    BY <1>1, <1>3, <2>2
  <2>3. CASE j = L + 1 /\ i \in 1..L
    BY <1>1, <1>3, <2>3
  <2>4. CASE i = L + 1 /\ j = L + 1
    BY <2>4
  <2> QED
    BY <1>2, <2>1, <2>2, <2>3, <2>4
<1>5. Goals(q) = Goals(kept) \cup {e.to}
  <2>1. Goals(q) = {q[i].to : i \in (1..L) \cup {L + 1}}
    BY <1>1, <1>2 DEF Goals
  <2>2. Goals(kept) = {kept[i].to : i \in 1..L}
    BY <1>1 DEF Goals
  <2> QED
    BY <1>1, <2>1, <2>2
<1> QED
  BY <1>1, <1>4, <1>5 DEF q

\* What is kept of distinct hops are distinct hops, none of them into what is
\* gone.
LEMMA HopsAreKept ==
    ASSUME NEW edges \in Seq(Hops), Distinct(edges), NEW gone
    PROVE  LET kept == Without(edges, gone) IN
           /\ kept \in Seq(Hops) /\ Distinct(kept) /\ Avoids(kept, gone)
           /\ Goals(kept) \subseteq Goals(edges)
<1> DEFINE L == Len(edges)
           V == Seq(Hops)
           base == <<>>
           Op(kept, e) == IF e.to \in gone THEN kept ELSE Append(kept, e)
           step == [p \in V \X (1..L) |-> Op(p[1], edges[p[2]])]
           Next(g) == [u \in SUBSET (1..L) |->
                         IF u = {} THEN base ELSE Op(g[u \ {Max(u)}], edges[Max(u)])]
           iter == CHOOSE g : g = Next(g)
<1>0. /\ L \in Nat /\ DOMAIN edges = 1..L /\ \A i \in 1..L : edges[i] \in Hops
  OBVIOUS
<1>1. base \in V
  OBVIOUS
<1>2. ASSUME NEW kept \in V, NEW e \in Hops PROVE Op(kept, e) \in V
  OBVIOUS
<1> HIDE DEF V, Op, base
<1>4. step \in [V \X (1..L) -> V]
  BY <1>0, <1>2
<1>5. PICK f \in [SUBSET (1..L) -> V] : FoldsBy(f, L, base, step)
  <2> HIDE DEF step, L
  <2> QED
    BY <1>0, <1>1, <1>4, FoldsExist, Zenon
<1>6. ASSUME NEW u \in SUBSET (1..L), u # {}
      PROVE  f[u] = Op(f[u \ {Max(u)}], edges[Max(u)])
  <2>0. Max(u) \in u
    BY <1>0, <1>6, MaxOfUpTo
  <2>1. Max(u) \in 1..L
    BY <2>0
  <2>2. f[u \ {Max(u)}] \in V
    OBVIOUS
  <2>3. f[u] = step[<<f[u \ {Max(u)}], Max(u)>>]
    BY <1>5, <1>6 DEF FoldsBy
  <2> QED
    BY <2>1, <2>2, <2>3
<1>8. f = Next(f)
  <2>2. f[{}] = base
    BY <1>5 DEF FoldsBy
  <2> QED
    BY <1>6, <2>2
<1>9. iter = Next(iter)
  BY <1>8
<1>10. Without(edges, gone) = iter[1..L]
  BY <1>0 DEF Without, FoldLeft, MapThenFoldSet, Op, base
<1> HIDE DEF iter
<1> DEFINE Inv(kept, k) ==
              /\ kept \in V /\ Distinct(kept) /\ Avoids(kept, gone)
              /\ Goals(kept) \subseteq {edges[i].to : i \in 1..k}
           S == {k \in Nat : k <= L => Inv(iter[1..k], k)}
<1>11. 0 \in S
  <2> 1..0 = {} /\ {} \in SUBSET (1..L)
    OBVIOUS
  <2>1. iter[1..0] = base
    BY <1>9
  <2>2. DOMAIN base = {}
    BY DEF base
  <2>3. Inv(base, 0)
    BY <1>1, <2>2 DEF Distinct, Avoids, Goals
  <2> QED
    BY <2>1, <2>3
<1>12. ASSUME NEW k \in Nat, k \in S PROVE k + 1 \in S
  <2>0. k + 1 \in Nat /\ (k + 1 <= L => k <= L)
    BY <1>0
  <2> HIDE DEF Inv
  <2> SUFFICES ASSUME k + 1 <= L PROVE Inv(iter[1..(k + 1)], k + 1)
    BY <2>0
  <2>1. Inv(iter[1..k], k)
    BY <2>0, <1>12
  <2>2. iter[1..(k + 1)] = Op(iter[1..k], edges[k + 1])
    <3>1. /\ 1..(k + 1) \in SUBSET (1..L) /\ 1..(k + 1) \in SUBSET (1..(k + 1))
          /\ k + 1 \in 1..(k + 1) /\ (1..(k + 1)) \ {k + 1} = 1..k
          /\ 1..(k + 1) # {}
      BY <1>0, <2>0
    <3>2. Max(1..(k + 1)) = k + 1
      BY <2>0, <3>1, MaxOfUpTo
    <3> QED
      BY <1>9, <3>1, <3>2
  <2>3. k + 1 \in 1..L /\ k + 1 \notin 1..k /\ 1..(k + 1) = (1..k) \cup {k + 1} /\ 1..k \subseteq 1..L
    BY <1>0, <2>0
  <2> DEFINE kept == iter[1..k]
             e == edges[k + 1]
  <2>4. /\ kept \in V /\ Distinct(kept) /\ Avoids(kept, gone)
        /\ Goals(kept) \subseteq {edges[i].to : i \in 1..k}
        /\ e \in Hops
    BY <1>0, <2>1, <2>3 DEF Inv
  <2>5. e.to \notin Goals(kept)
    <3>1. \A i \in 1..k : edges[i].to # e.to
      BY <1>0, <2>3 DEF Distinct
    <3> QED
      BY <2>4, <3>1
  <2>6. {edges[i].to : i \in 1..(k + 1)} = {edges[i].to : i \in 1..k} \cup {e.to}
    BY <2>3
  <2>7. CASE e.to \in gone
    BY <2>2, <2>4, <2>6, <2>7 DEF Inv, Op
  <2>8. CASE e.to \notin gone
    <3> HIDE DEF e, kept
    <3>1. /\ Append(kept, e) \in Seq(Hops) /\ Distinct(Append(kept, e))
          /\ Goals(Append(kept, e)) = Goals(kept) \cup {e.to}
      BY <2>4, <2>5, HopAppended DEF V
    <3>2. Avoids(Append(kept, e), gone)
      <4>1. \A m \in Goals(Append(kept, e)) : m \notin gone
        BY <2>4, <2>8, <3>1 DEF Avoids, Goals
      <4> HIDE DEF kept
      <4> QED
        BY <4>1 DEF Avoids, Goals
    <3>3. iter[1..(k + 1)] = Append(kept, e)
      BY <2>2, <2>8 DEF Op, kept, e
    <3> QED
      BY <2>4, <2>6, <3>1, <3>2, <3>3 DEF Inv, V
  <2> QED
    BY <2>7, <2>8
<1>13. Inv(iter[1..L], L)
  <2> HIDE DEF S, Inv
  <2>1. L \in S /\ L <= L
    BY <1>0, <1>11, <1>12, CountingUp
  <2> QED
    BY <2>1 DEF S
<1>14. {edges[i].to : i \in 1..L} = Goals(edges)
  BY <1>0 DEF Goals
<1> QED
  BY <1>10, <1>13, <1>14 DEF V
-----------------------------------------------------------------------------
(* One expansion.                                                          *)

\* q holds in the queue, and has found, what r does; what was expanded in part
\* there is expanded in part, or in full, in q.
SameQueue(q, r) ==
    /\ q.live = r.live /\ q.deferred = r.deferred /\ q.strays = r.strays
    /\ q.seq = r.seq /\ q.next = r.next
    /\ q.expanded = r.expanded /\ q.cleared = r.cleared
    /\ q.states = r.states /\ q.parent = r.parent /\ q.depth = r.depth
    /\ q.worth = r.worth /\ q.hops = r.hops
    /\ r.partial \subseteq q.partial \cup q.expanded

\* What holds of a queue and its routes holds of the same queue and routes.
LEMMA SameQueueIsAsSound ==
    ASSUME NEW r, NEW q, SameQueue(q, r), NEW limit
    PROVE  /\ Placed(r) => Placed(q)
           /\ Deep(r, limit) => Deep(q, limit)
           /\ Acyclic(r) => Acyclic(q)
           /\ Found(q) = Found(r) /\ \A n : Ranked(q, r, n, limit)
<1>1. Placed(r) => Placed(q)
  BY DEF SameQueue, Placed
<1>2. Deep(r, limit) => Deep(q, limit)
  BY DEF SameQueue, Deep
<1>3. Acyclic(r) => Acyclic(q)
  BY DEF SameQueue, Acyclic
<1>4. Found(q) = Found(r)
  BY DEF SameQueue, Found
<1>5. ASSUME NEW n PROVE Ranked(q, r, n, limit)
  <2>1. Kindred(r) => Kindred(q)
    BY <1>4 DEF SameQueue, Kindred
  <2>2. HalfDone(r) => HalfDone(q)
    BY DEF SameQueue, HalfDone
  <2>3. \A top, was, C, k : Fixes(r, limit, top, was, C, k) => Fixes(q, limit, top, was, C, k)
    BY <1>4 DEF SameQueue, Fixes, Closed, Parents, Results
  <2> QED
    BY <2>1, <2>2, <2>3 DEF SameQueue, Ranked
<1> QED
  BY <1>1, <1>2, <1>3, <1>4, <1>5

\* The in-degrees are counts, whatever is counted in or out.
LEMMA CountedIsTyped ==
    ASSUME NEW r \in RunType, NEW edges \in Seq(Hops), NEW by \in {1, -1}
    PROVE  LET q == Counts(r, edges, by) IN
           /\ q \in RunType /\ SameQueue(q, r) /\ SameLedger(q, r)
<1> DEFINE Into(m) == {i \in DOMAIN edges : edges[i].to = m}
           seen == [m \in Node |-> r.inSeen[m] + by * Cardinality(Into(m))]
           q == Counts(r, edges, by)
<1>1. IsFiniteSet(DOMAIN edges)
  <2>1. DOMAIN edges = 1..Len(edges) /\ Len(edges) \in Nat
    OBVIOUS
  <2> QED
    BY <2>1, FS_Interval
<1>2. \A m : Cardinality(Into(m)) \in Nat
  BY <1>1, FS_Subset, FS_CardinalityType
<1> HIDE DEF Into
<1>3. seen \in [Node -> Int]
  <2>1. \A m \in Node : r.inSeen[m] \in Int
    BY DEF RunType
  <2> QED
    BY <1>2, <2>1
<1>4. q = [r EXCEPT !.inSeen = seen]
  BY DEF Counts, Into
<1> HIDE DEF seen
<1>5. [r EXCEPT !.inSeen = seen] \in RunType
  BY <1>3, Zenon DEF RunType
<1>6. /\ SameQueue([r EXCEPT !.inSeen = seen], r)
      /\ SameLedger([r EXCEPT !.inSeen = seen], r)
  BY DEF RunType, SameQueue, SameLedger
<1> HIDE DEF q
<1>7. q \in RunType /\ SameQueue(q, r) /\ SameLedger(q, r)
  BY <1>4, <1>5, <1>6
<1> QED
  BY <1>7 DEF q

\* A node taken off the queue is expanded, and one more pop.
LEMMA PoppedOff ==
    ASSUME NEW r \in RunType, Placed(r), NEW n \in r.live
    PROVE  LET t == Pops(r, n) IN
           /\ t \in RunType /\ Placed(t)
           /\ t.live = r.live \ {n} /\ t.deferred = r.deferred /\ t.strays = r.strays
           /\ \A m \in Node \ {n} : t.seq[m] = r.seq[m]
           /\ t.next = r.next /\ t.expanded = r.expanded \cup {n} /\ t.cleared = r.cleared
           /\ SameRoutes(t, r)
           /\ t.tokens = r.tokens /\ t.calls = r.calls /\ t.confirms = r.confirms
           /\ t.owing = r.owing /\ t.paidTokens = r.paidTokens /\ t.paidCalls = r.paidCalls
           /\ t.raised = r.raised
           /\ t.pops = IF n \in Connective THEN r.pops ELSE r.pops + 1
           /\ t.freePops = IF n \in Connective THEN r.freePops + 1 ELSE r.freePops
<1> DEFINE u == Unqueues(r, n)
           t == Pops(r, n)
           pops == IF n \in Connective THEN r.pops ELSE r.pops + 1
           freePops == IF n \in Connective THEN r.freePops + 1 ELSE r.freePops
<1>0. n \in Node /\ n \in Found(r)
  BY DEF RunType, Placed, Found
<1>1. /\ u \in RunType /\ SameLedger(u, r)
      /\ SameRoutes(u, r) /\ u.deferred = r.deferred
      /\ u.live = r.live \ {n} /\ u.strays = r.strays /\ u.next = r.next
      /\ \A m \in Node \ {n} : u.seq[m] = r.seq[m]
  BY <1>0, Unqueued
<1>2. t = IF n \in Connective
          THEN [[u EXCEPT !.expanded = @ \cup {n}] EXCEPT !.freePops = @ + 1]
          ELSE [[u EXCEPT !.expanded = @ \cup {n}] EXCEPT !.pops = @ + 1]
  BY DEF Pops
<1> HIDE DEF u, t
<1> DEFINE taken == [u EXCEPT !.expanded = @ \cup {n}]
<1>3. taken \in RunType /\ taken.expanded = u.expanded \cup {n}
  <2>1. u.expanded \cup {n} \in SUBSET Node
    BY <1>0, <1>1 DEF RunType
  <2>2. taken \in RunType
    BY <1>1, <2>1, Zenon DEF RunType
  <2> QED
    BY <1>1, <2>2 DEF RunType
<1>4. /\ taken.live = u.live /\ taken.deferred = u.deferred /\ taken.strays = u.strays
      /\ taken.seq = u.seq /\ taken.next = u.next /\ taken.cleared = u.cleared
      /\ taken.states = u.states /\ taken.parent = u.parent /\ taken.depth = u.depth
      /\ taken.worth = u.worth /\ taken.hops = u.hops
      /\ taken.tokens = u.tokens /\ taken.calls = u.calls /\ taken.confirms = u.confirms
      /\ taken.owing = u.owing /\ taken.paidTokens = u.paidTokens
      /\ taken.paidCalls = u.paidCalls /\ taken.raised = u.raised
      /\ taken.pops = u.pops /\ taken.freePops = u.freePops
      /\ taken.partial = u.partial /\ taken.inSeen = u.inSeen
  BY <1>1 DEF RunType
<1>5. taken.pops \in Nat /\ taken.freePops \in Nat
  BY <1>3 DEF RunType
<1> HIDE DEF taken
<1>6. t \in RunType
  <2>1. taken.pops + 1 \in Nat /\ taken.freePops + 1 \in Nat
    BY <1>5
  <2>2. /\ [taken EXCEPT !.freePops = @ + 1] \in RunType
        /\ [taken EXCEPT !.pops = @ + 1] \in RunType
    BY <1>3, <2>1, Zenon DEF RunType
  <2> QED
    BY <1>2, <2>2 DEF taken
<1>7. /\ t.live = taken.live /\ t.deferred = taken.deferred /\ t.strays = taken.strays
      /\ t.seq = taken.seq /\ t.next = taken.next /\ t.cleared = taken.cleared
      /\ t.states = taken.states /\ t.parent = taken.parent /\ t.depth = taken.depth
      /\ t.partial = taken.partial /\ t.inSeen = taken.inSeen
      /\ t.worth = taken.worth /\ t.hops = taken.hops /\ t.expanded = taken.expanded
      /\ t.tokens = taken.tokens /\ t.calls = taken.calls /\ t.confirms = taken.confirms
      /\ t.owing = taken.owing /\ t.paidTokens = taken.paidTokens
      /\ t.paidCalls = taken.paidCalls /\ t.raised = taken.raised
      /\ t.pops = (IF n \in Connective THEN taken.pops ELSE taken.pops + 1)
      /\ t.freePops = (IF n \in Connective THEN taken.freePops + 1 ELSE taken.freePops)
  <2>1. t = IF n \in Connective THEN [taken EXCEPT !.freePops = @ + 1]
                                ELSE [taken EXCEPT !.pops = @ + 1]
    BY <1>2 DEF taken
  <2> QED
    BY <1>3, <2>1 DEF RunType
<1>8. /\ t.live = r.live \ {n} /\ t.deferred = r.deferred /\ t.strays = r.strays
      /\ \A m \in Node \ {n} : t.seq[m] = r.seq[m]
      /\ t.next = r.next /\ t.expanded = r.expanded \cup {n} /\ t.cleared = r.cleared
      /\ SameRoutes(t, r)
      /\ t.tokens = r.tokens /\ t.calls = r.calls /\ t.confirms = r.confirms
      /\ t.owing = r.owing /\ t.paidTokens = r.paidTokens /\ t.paidCalls = r.paidCalls
      /\ t.raised = r.raised
      /\ t.pops = pops /\ t.freePops = freePops
  BY <1>1, <1>3, <1>4, <1>7 DEF SameLedger, SameRoutes
<1>9. Placed(t)
  <2>1. t.states = r.states /\ r.live \subseteq Node
    BY <1>8 DEF SameRoutes, RunType
  <2> QED
    BY <1>0, <1>8, <2>1 DEF Placed, Found
<1> QED
  BY <1>6, <1>8, <1>9 DEF t

\* A state put back in its place is queued again, and no pop of it is left but
\* when it adopted some of its hops.
LEMMA PutBack ==
    ASSUME NEW r \in RunType, Placed(r), NEW n \in r.expanded, n \notin r.cleared,
           NEW p \in Nat, NEW s \in Nat, s < r.next, \A m \in r.live : r.seq[m] # s,
           NEW adopted \in BOOLEAN,
           IF n \in Connective THEN r.freePops > 0 ELSE r.pops > 0
    PROVE  LET q == Requeues(r, n, p, s, adopted) IN
           /\ q \in RunType /\ Placed(q)
           /\ q.expanded = r.expanded \ {n} /\ q.deferred = r.deferred
           /\ q.live = r.live \cup {n} /\ q.cleared = r.cleared
           /\ q.states = r.states /\ q.worth = r.worth
           /\ q.depth = r.depth /\ q.parent = r.parent /\ q.hops = r.hops
           /\ q.tokens = r.tokens /\ q.calls = r.calls /\ q.confirms = r.confirms
           /\ q.owing = r.owing /\ q.paidTokens = r.paidTokens /\ q.paidCalls = r.paidCalls
           /\ q.pops <= r.pops /\ q.freePops <= r.freePops
<1> DEFINE back == [r EXCEPT !.expanded = @ \ {n}, !.live = @ \cup {n},
                             !.priority[n] = p, !.seq[n] = s]
           q == Requeues(r, n, p, s, adopted)
<1>0. n \in Node /\ r.pops \in Nat /\ r.freePops \in Nat
  BY DEF RunType
<1>1. back \in RunType
  <2>1. /\ [r.priority EXCEPT ![n] = p] \in [Node -> Nat]
        /\ [r.seq EXCEPT ![n] = s] \in [Node -> Nat]
        /\ r.expanded \ {n} \in SUBSET Node /\ r.live \cup {n} \in SUBSET Node
    BY <1>0 DEF RunType
  <2> QED
    BY <2>1, Zenon DEF RunType
<1>2. /\ back.live = r.live \cup {n} /\ back.expanded = r.expanded \ {n}
      /\ back.seq = [r.seq EXCEPT ![n] = s]
      /\ back.deferred = r.deferred /\ back.strays = r.strays
      /\ back.next = r.next /\ back.cleared = r.cleared /\ back.states = r.states
      /\ back.depth = r.depth /\ back.parent = r.parent /\ back.hops = r.hops
      /\ back.worth = r.worth
      /\ back.tokens = r.tokens /\ back.calls = r.calls /\ back.confirms = r.confirms
      /\ back.owing = r.owing /\ back.paidTokens = r.paidTokens
      /\ back.paidCalls = r.paidCalls
      /\ back.pops = r.pops /\ back.freePops = r.freePops
  BY DEF RunType
<1>3. q = IF adopted THEN back
          ELSE IF n \in Connective THEN [back EXCEPT !.freePops = @ - 1]
          ELSE [back EXCEPT !.pops = @ - 1]
  BY DEF Requeues
<1> HIDE DEF back, q
<1>4. q \in RunType
  <2>1. CASE adopted
    BY <1>1, <1>3, <2>1
  <2>2. CASE ~adopted /\ n \in Connective
    <3>1. back.freePops - 1 \in Nat
      BY <1>0, <1>2, <2>2
    <3>2. [back EXCEPT !.freePops = @ - 1] \in RunType
      BY <1>1, <3>1, Zenon DEF RunType
    <3> QED
      BY <1>3, <2>2, <3>2
  <2>3. CASE ~adopted /\ n \notin Connective
    <3>1. back.pops - 1 \in Nat
      BY <1>0, <1>2, <2>3
    <3>2. [back EXCEPT !.pops = @ - 1] \in RunType
      BY <1>1, <3>1, Zenon DEF RunType
    <3> QED
      BY <1>3, <2>3, <3>2
  <2> QED
    BY <2>1, <2>2, <2>3
<1>5. /\ q.live = r.live \cup {n} /\ q.expanded = r.expanded \ {n}
      /\ q.seq = [r.seq EXCEPT ![n] = s]
      /\ q.deferred = r.deferred /\ q.strays = r.strays
      /\ q.next = r.next /\ q.cleared = r.cleared /\ q.states = r.states
      /\ q.depth = r.depth /\ q.parent = r.parent /\ q.hops = r.hops
      /\ q.worth = r.worth
      /\ q.tokens = r.tokens /\ q.calls = r.calls /\ q.confirms = r.confirms
      /\ q.owing = r.owing /\ q.paidTokens = r.paidTokens
      /\ q.paidCalls = r.paidCalls
  BY <1>1, <1>2, <1>3 DEF RunType
<1>6. q.pops <= r.pops /\ q.freePops <= r.freePops
  <2>1. /\ q.pops \in {back.pops, back.pops - 1}
        /\ q.freePops \in {back.freePops, back.freePops - 1}
    BY <1>1, <1>3 DEF RunType
  <2> QED
    BY <1>0, <1>2, <2>1
<1>7. Placed(q)
  <2>1. /\ r.seq \in [Node -> Nat] /\ r.live \subseteq Node
    BY DEF RunType
  <2>2. q.seq[n] = s /\ \A m \in Node \ {n} : q.seq[m] = r.seq[m]
    BY <1>0, <1>5, <2>1
  <2> QED
    BY <1>0, <1>5, <2>1, <2>2 DEF Placed
<1> QED
  BY <1>4, <1>5, <1>6, <1>7 DEF q
\* What x has paid beyond t for the calls of n: the map's in tokens and in
\* calls, the confirmer's, and the hops it adopted; none of it past the caps
\* of b, and what a cut leaves paid is kept for the retry.
Bills(x, t, n, b, cut) ==
    \E T \in Nat, C \in Nat, asked \in Nat, adopted \in Nat :
        /\ x.tokens = t.tokens + T + PerEdge * adopted /\ x.hops = t.hops + adopted
        /\ x.calls = t.calls + C + asked /\ x.confirms = t.confirms + asked
        /\ x.tokens > t.tokens => x.tokens <= b.tokens
        /\ x.calls > t.calls => x.calls <= b.calls
        /\ T # 0 => T <= CallTokens /\ t.paidTokens[n] = 0 /\ (cut => x.paidTokens[n] # 0)
        /\ C # 0 => C <= 1 /\ t.paidCalls[n] = 0 /\ (cut => x.paidCalls[n] # 0)

\* What is kept for the retries of the others does not change, and what is
\* kept for n goes once n is done.
Keeps(x, t, n, cut) ==
    /\ \A m \in Node \ {n} : x.paidTokens[m] = t.paidTokens[m] /\ x.paidCalls[m] = t.paidCalls[m]
    /\ ~cut => x.owing = t.owing \ {n} /\ x.paidTokens[n] = 0 /\ x.paidCalls[n] = 0
    /\ cut => /\ t.paidTokens[n] # 0 => x.paidTokens[n] # 0
              /\ t.paidCalls[n] # 0 => x.paidCalls[n] # 0
              /\ \/ x.owing = t.owing \cup {n}
                 \/ /\ x.owing = t.owing /\ x.paidTokens = t.paidTokens
                    /\ x.paidCalls = t.paidCalls

\* q owes a retry of n, for which this much is paid, and is else as r.
OwesMore(q, r, n, tokens, externals) ==
    /\ q \in RunType /\ SameQueue(q, r)
    /\ q.tokens = r.tokens /\ q.calls = r.calls /\ q.confirms = r.confirms
    /\ q.pops = r.pops /\ q.freePops = r.freePops
    /\ q.owing = r.owing \cup {n}
    /\ q.paidTokens = [r.paidTokens EXCEPT ![n] = tokens]
    /\ q.paidCalls = [r.paidCalls EXCEPT ![n] = externals]

\* What is kept for the retry of a node touches nothing else.
LEMMA OwedIsKept ==
    ASSUME NEW r \in RunType, NEW n \in Node, NEW tokens, tokens \in {0, CallTokens},
           NEW externals, externals \in 0..1
    PROVE  OwesMore(Owes(r, n, tokens, externals), r, n, tokens, externals)
<1> DEFINE o == Owes(r, n, tokens, externals)
<1>1. o \in RunType
  <2>1. /\ r.owing \cup {n} \in SUBSET Node
        /\ [r.paidTokens EXCEPT ![n] = tokens] \in [Node -> {0, CallTokens}]
        /\ [r.paidCalls EXCEPT ![n] = externals] \in [Node -> 0..1]
    BY DEF RunType
  <2> QED
    BY <2>1, Zenon DEF RunType, Owes
<1>2. /\ SameQueue(o, r)
      /\ o.tokens = r.tokens /\ o.calls = r.calls /\ o.confirms = r.confirms
      /\ o.pops = r.pops /\ o.freePops = r.freePops
      /\ o.owing = r.owing \cup {n}
      /\ o.paidTokens = [r.paidTokens EXCEPT ![n] = tokens]
      /\ o.paidCalls = [r.paidCalls EXCEPT ![n] = externals]
  BY DEF RunType, SameQueue, Owes
<1> QED
  BY <1>1, <1>2 DEF OwesMore

\* A node that is done with owes nothing, and nothing else changes.
LEMMA SettledOwesNothing ==
    ASSUME NEW r \in RunType, NEW n \in r.expanded
    PROVE  LET q == Settles(r, n) IN
           /\ q \in RunType /\ SameQueue(q, r)
           /\ q.tokens = r.tokens /\ q.calls = r.calls /\ q.confirms = r.confirms
           /\ q.pops = r.pops /\ q.freePops = r.freePops
           /\ q.owing = r.owing \ {n}
           /\ q.paidTokens = [r.paidTokens EXCEPT ![n] = 0]
           /\ q.paidCalls = [r.paidCalls EXCEPT ![n] = 0]
<1> DEFINE s == Settles(r, n)
<1> n \in Node
  BY DEF RunType
<1>3. s \in RunType
  <2>1. /\ r.owing \ {n} \in SUBSET Node /\ r.partial \ {n} \in SUBSET Node
        /\ [r.paidTokens EXCEPT ![n] = 0] \in [Node -> {0, CallTokens}]
        /\ [r.paidCalls EXCEPT ![n] = 0] \in [Node -> 0..1]
    BY DEF RunType
  <2> QED
    BY <2>1, Zenon DEF RunType, Settles
<1>4. /\ SameQueue(s, r)
      /\ s.tokens = r.tokens /\ s.calls = r.calls /\ s.confirms = r.confirms
      /\ s.pops = r.pops /\ s.freePops = r.freePops
      /\ s.owing = r.owing \ {n}
      /\ s.paidTokens = [r.paidTokens EXCEPT ![n] = 0]
      /\ s.paidCalls = [r.paidCalls EXCEPT ![n] = 0]
  BY DEF RunType, SameQueue, Settles
<1> QED
  BY <1>3, <1>4

\* What an expansion e of n leaves of t.
IsExpanded(e, t, n, b) ==
    /\ e.cut \in BOOLEAN /\ e.adopted \in BOOLEAN
    /\ e.run \in RunType /\ Placed(e.run) /\ Acyclic(e.run) /\ Deep(e.run, b.depth)
    /\ Later(e.run, t)
    /\ e.run.expanded = t.expanded /\ e.run.cleared = t.cleared
    /\ e.run.pops = t.pops /\ e.run.freePops = t.freePops
    /\ Bills(e.run, t, n, b, e.cut) /\ Keeps(e.run, t, n, e.cut)
    /\ Ranked(e.run, t, n, b.depth)

\* One expansion of n, cut or not: what hangs together before still does, and
\* the bill is paid once and within the caps.
LEMMA ExpandedIsBilled ==
    ASSUME NEW b, b.depth \in Nat, b.tokens \in Nat, b.calls \in Nat,
           NEW t \in RunType, Placed(t), Acyclic(t), Deep(t, b.depth), NEW n \in t.expanded,
           NEW got \in Seq(Hops), Distinct(got), NEW late \in BOOLEAN,
           NEW price, price.tokens \in {0, CallTokens}, price.calls \in 0..1,
           OwedCalls(t, n, price) > 0 => CallsLeft(t, b) > 0,
           NEW asked \in 0..1, asked > 0 => CallsLeft(Charged(t, n, price), b) > 0,
           NEW refused
    PROVE  IsExpanded(Expand(t, b, n, got, late, price, asked, refused), t, n, b)
<1> DEFINE paid == Charged(t, n, price)
           owed == OwedTokens(t, n, price)
           C == OwedCalls(t, n, price)
           externals == Larger(price.calls, t.paidCalls[n])
           kept == Larger(price.tokens, t.paidTokens[n])
           counted == Counts(paid, Offered(t, got), 1)
           confirmed == [counted EXCEPT !.calls = @ + asked, !.confirms = @ + asked]
           steps == Without(Kept(t, n, got), refused)
           affordable == (TokensLeft(t, b) - owed) \div PerEdge
           walked == Walks(confirmed, b, n, steps, affordable)
           w == walked.run
           adopted == Adopted(walked)
           done == [w EXCEPT !.tokens = @ + owed + Adopted(walked) * PerEdge]
           cut == walked.truncated \/ late
           left == Counts(Owes(done, n, kept, externals), Offered(t, got), -1)
           e == Expand(t, b, n, got, late, price, asked, refused)
           Good(x, c) ==
              /\ x \in RunType /\ Placed(x) /\ Acyclic(x) /\ Deep(x, b.depth) /\ Later(x, t)
              /\ x.expanded = t.expanded /\ x.cleared = t.cleared
              /\ x.pops = t.pops /\ x.freePops = t.freePops
              /\ Bills(x, t, n, b, c) /\ Keeps(x, t, n, c) /\ Ranked(x, t, n, b.depth)
<1> n \in Node
  BY DEF RunType
<1>0. e = IF IsDropped(t, b, n, price)
          THEN [run |-> IF C > 0 THEN Owes(paid, n, t.paidTokens[n], externals) ELSE paid,
                cut |-> TRUE, adopted |-> FALSE]
          ELSE IF ~cut THEN [run |-> Settles(done, n), cut |-> FALSE, adopted |-> TRUE]
          ELSE [run |-> IF adopted > 0 THEN [left EXCEPT !.partial = @ \cup {n}] ELSE left,
                cut |-> TRUE, adopted |-> adopted > 0 \/ late]
  BY DEF Expand
<1> DEFINE All == e.cut \in BOOLEAN /\ e.adopted \in BOOLEAN /\ Good(e.run, e.cut)
<1> SUFFICES All
  BY DEF IsExpanded
<1>1. /\ t.paidTokens[n] \in {0, CallTokens} /\ t.paidCalls[n] \in 0..1
      /\ t.tokens \in Nat /\ t.calls \in Nat /\ t.confirms \in Nat /\ t.hops \in Nat
      /\ t.next \in Nat
  BY DEF RunType
<1>2. /\ owed \in Nat /\ C \in Nat /\ externals \in 0..1 /\ kept \in {0, CallTokens}
      /\ owed # 0 => owed <= CallTokens /\ t.paidTokens[n] = 0 /\ kept # 0
      /\ C # 0 => C <= 1 /\ t.paidCalls[n] = 0 /\ externals # 0
      /\ t.paidTokens[n] # 0 => kept # 0
      /\ t.paidCalls[n] # 0 => externals # 0
  BY <1>1 DEF OwedTokens, OwedCalls, LeftOf, Larger, CallTokens
<1>3. /\ TokensLeft(t, b) \in Nat /\ CallsLeft(t, b) \in Nat
      /\ TokensLeft(t, b) > 0 => t.tokens + TokensLeft(t, b) = b.tokens
      /\ CallsLeft(t, b) > 0 => t.calls + CallsLeft(t, b) = b.calls
  BY <1>1 DEF TokensLeft, CallsLeft, LeftOf
<1> HIDE DEF owed, C, externals, kept
<1>4. /\ paid \in RunType /\ SameQueue(paid, t)
      /\ paid.tokens = t.tokens /\ paid.calls = t.calls + C /\ paid.confirms = t.confirms
      /\ paid.owing = t.owing /\ paid.paidTokens = t.paidTokens
      /\ paid.paidCalls = t.paidCalls
      /\ paid.pops = t.pops /\ paid.freePops = t.freePops
  <2> paid = [t EXCEPT !.calls = @ + C] /\ t.calls + C \in Nat
    BY <1>1, <1>2 DEF Charged, C
  <2> HIDE DEF paid
  <2>1. paid \in RunType
    BY Zenon DEF RunType
  <2> QED
    BY <2>1 DEF RunType, SameQueue
<1>5. /\ t.calls + C + asked > t.calls => t.calls + C + asked <= b.calls
  <2>1. C > 0 => t.calls + C <= b.calls
    <3>1. C > 0 => CallsLeft(t, b) > 0
      BY DEF C
    <3> QED
      BY <1>1, <1>2, <1>3, <3>1
  <2>2. asked > 0 => t.calls + C < b.calls
    <3>1. asked > 0 => LeftOf(b.calls, t.calls + C) > 0
      BY <1>4 DEF CallsLeft
    <3> QED
      BY <1>1, <1>2, <3>1 DEF LeftOf
  <2> QED
    BY <1>1, <1>2, <2>1, <2>2
<1> HIDE DEF paid, e, Good
<1>6. CASE IsDropped(t, b, n, price)
  <2> DEFINE x == IF C > 0 THEN Owes(paid, n, t.paidTokens[n], externals) ELSE paid
  <2>1. e = [run |-> x, cut |-> TRUE, adopted |-> FALSE]
    BY <1>0, <1>6
  <2>2. /\ x \in RunType /\ SameQueue(x, t)
        /\ x.tokens = t.tokens /\ x.calls = t.calls + C /\ x.confirms = t.confirms
        /\ x.pops = t.pops /\ x.freePops = t.freePops
        /\ C > 0 => /\ x.owing = t.owing \cup {n}
                    /\ x.paidTokens = [t.paidTokens EXCEPT ![n] = t.paidTokens[n]]
                    /\ x.paidCalls = [t.paidCalls EXCEPT ![n] = externals]
        /\ ~(C > 0) => /\ x.owing = t.owing /\ x.paidTokens = t.paidTokens
                       /\ x.paidCalls = t.paidCalls
    <3>1. CASE C > 0
      <4> DEFINE q == Owes(paid, n, t.paidTokens[n], externals)
      <4>1. /\ q \in RunType /\ SameQueue(q, paid)
            /\ q.tokens = paid.tokens /\ q.calls = paid.calls /\ q.confirms = paid.confirms
            /\ q.pops = paid.pops /\ q.freePops = paid.freePops
            /\ q.owing = paid.owing \cup {n}
            /\ q.paidTokens = [paid.paidTokens EXCEPT ![n] = t.paidTokens[n]]
            /\ q.paidCalls = [paid.paidCalls EXCEPT ![n] = externals]
        <5>1. OwesMore(q, paid, n, t.paidTokens[n], externals)
          BY <1>1, <1>2, <1>4, OwedIsKept
        <5> QED
          BY <5>1 DEF OwesMore
      <4> HIDE DEF q
      <4>2. SameQueue(q, t)
        BY <1>4, <4>1 DEF SameQueue
      <4>3. x = q
        BY <3>1 DEF q
      <4> QED
        BY <1>4, <3>1, <4>1, <4>2, <4>3
    <3>2. CASE ~(C > 0)
      BY <1>4, <3>2
    <3> QED
      BY <3>1, <3>2
  <2> HIDE DEF x
  <2>3. Placed(x) /\ Deep(x, b.depth) /\ Acyclic(x) /\ Ranked(x, t, n, b.depth)
    BY <2>2, SameQueueIsAsSound
  <2>4. Later(x, t) /\ x.expanded = t.expanded /\ x.cleared = t.cleared
    BY <1>1, <2>2 DEF SameQueue, Later
  <2>5. /\ \A m \in Node \ {n} : x.paidTokens[m] = t.paidTokens[m] /\ x.paidCalls[m] = t.paidCalls[m]
        /\ x.paidTokens[n] = t.paidTokens[n]
        /\ C > 0 => x.paidCalls[n] = externals
    <3>1. t.paidTokens \in [Node -> {0, CallTokens}] /\ t.paidCalls \in [Node -> 0..1]
      BY DEF RunType
    <3> QED
      BY <2>2, <3>1
  <2>6. Bills(x, t, n, b, TRUE)
    <3> DEFINE Fits(T, c, a, k) ==
          /\ x.tokens = t.tokens + T + PerEdge * k /\ x.hops = t.hops + k
          /\ x.calls = t.calls + c + a /\ x.confirms = t.confirms + a
          /\ x.tokens > t.tokens => x.tokens <= b.tokens
          /\ x.calls > t.calls => x.calls <= b.calls
          /\ T # 0 => T <= CallTokens /\ t.paidTokens[n] = 0 /\ (TRUE => x.paidTokens[n] # 0)
          /\ c # 0 => c <= 1 /\ t.paidCalls[n] = 0 /\ (TRUE => x.paidCalls[n] # 0)
    <3>1. x.hops = t.hops
      BY <2>2 DEF SameQueue
    <3>2. x.calls > t.calls => x.calls <= b.calls
      BY <1>1, <1>2, <1>5, <2>2
    <3>3. C # 0 => C <= 1 /\ t.paidCalls[n] = 0 /\ (TRUE => x.paidCalls[n] # 0)
      BY <1>2, <2>5
    <3>4. Fits(0, C, 0, 0)
      BY <1>1, <1>2, <2>2, <3>1, <3>2, <3>3 DEF PerEdge
    <3> HIDE DEF Fits
    <3>5. \E T \in Nat, c \in Nat, a \in Nat, k \in Nat : Fits(T, c, a, k)
      BY <1>2, <3>4
    <3> QED
      BY <3>5 DEF Bills, Fits
  <2>7. Keeps(x, t, n, TRUE)
    <3>1. C > 0 => t.paidCalls[n] = 0
      BY <1>2
    <3>2. ~(C > 0) \/ x.owing = t.owing \cup {n}
      BY <2>2
    <3> QED
      BY <2>2, <2>5, <3>1, <3>2 DEF Keeps
  <2>8. Good(x, TRUE)
    BY <2>2, <2>3, <2>4, <2>6, <2>7 DEF Good
  <2> QED
    BY <2>1, <2>8
<1>7. CASE ~IsDropped(t, b, n, price)
  <2>1. Offered(t, got) \in Seq(Hops) /\ Distinct(Offered(t, got))
        /\ Avoids(Offered(t, got), t.cleared)
    BY HopsAreKept DEF Offered
  <2>2. /\ Kept(t, n, got) \in Seq(Hops) /\ Distinct(Kept(t, n, got))
        /\ Avoids(Kept(t, n, got), Chain(t, n))
        /\ Goals(Kept(t, n, got)) \subseteq Goals(Offered(t, got))
    BY <2>1, HopsAreKept DEF Kept
  <2>3. /\ steps \in Seq(Hops) /\ Distinct(steps)
        /\ Goals(steps) \subseteq Goals(Kept(t, n, got))
    BY <2>2, HopsAreKept
  <2>4. DOMAIN steps = 1..Len(steps) /\ \A i \in 1..Len(steps) : steps[i].to \in Goals(steps)
    <3>1. DOMAIN steps = 1..Len(steps)
      BY <2>3
    <3> HIDE DEF steps
    <3> QED
      BY <3>1 DEF Goals
  <2>5. \A i \in 1..Len(steps) : steps[i].to \notin Chain(t, n) \cup t.cleared
    <3>1. \A m \in Goals(Kept(t, n, got)) : m \notin Chain(t, n)
      BY <2>2 DEF Avoids, Goals
    <3>2. \A m \in Goals(Offered(t, got)) : m \notin t.cleared
      BY <2>1 DEF Avoids, Goals
    <3> HIDE DEF steps
    <3> QED
      BY <2>2, <2>3, <2>4, <3>1, <3>2
  <2>6. /\ counted \in RunType /\ SameQueue(counted, paid) /\ SameLedger(counted, paid)
    BY <1>4, <2>1, CountedIsTyped
  <2> HIDE DEF counted, steps
  <2>7. confirmed \in RunType
    <3>1. counted.calls + asked \in Nat /\ counted.confirms + asked \in Nat
      <4>1. counted.calls \in Nat /\ counted.confirms \in Nat
        BY <2>6 DEF RunType
      <4> QED
        BY <4>1
    <3> QED
      BY <2>6, <3>1, Zenon DEF RunType
  <2>8. /\ SameQueue(confirmed, counted)
        /\ confirmed.tokens = counted.tokens /\ confirmed.calls = counted.calls + asked
        /\ confirmed.confirms = counted.confirms + asked
        /\ confirmed.owing = counted.owing /\ confirmed.paidTokens = counted.paidTokens
        /\ confirmed.paidCalls = counted.paidCalls
        /\ confirmed.pops = counted.pops /\ confirmed.freePops = counted.freePops
    BY <2>6 DEF RunType, SameQueue
  <2> HIDE DEF confirmed
  <2>9. /\ SameQueue(confirmed, t)
        /\ confirmed.tokens = t.tokens /\ confirmed.calls = t.calls + C + asked
        /\ confirmed.confirms = t.confirms + asked
        /\ confirmed.owing = t.owing /\ confirmed.paidTokens = t.paidTokens
        /\ confirmed.paidCalls = t.paidCalls
        /\ confirmed.pops = t.pops /\ confirmed.freePops = t.freePops
    <3>1. SameQueue(confirmed, t)
      BY <1>4, <2>6, <2>8 DEF SameQueue
    <3> QED
      BY <1>4, <2>6, <2>8, <3>1 DEF SameLedger
  <2>10. /\ Placed(confirmed) /\ Deep(confirmed, b.depth) /\ Acyclic(confirmed)
         /\ Ranked(confirmed, t, n, b.depth)
    BY <2>9, SameQueueIsAsSound
  <2>11. /\ owed <= TokensLeft(t, b) /\ affordable \in Nat
         /\ PerEdge * affordable <= TokensLeft(t, b) - owed
    <3>1. owed <= TokensLeft(t, b)
      BY <1>2, <1>3, <1>7 DEF IsDropped, owed
    <3>2. \A d \in Nat : d \div PerEdge \in Nat /\ PerEdge * (d \div PerEdge) <= d
      BY DEF PerEdge
    <3>3. TokensLeft(t, b) - owed \in Nat
      BY <1>2, <1>3, <3>1
    <3> QED
      BY <3>1, <3>2, <3>3
  <2> HIDE DEF affordable
  <2>12. walked \in Walking(confirmed, b, n, affordable, Chain(t, n))
    <3>1. n \in Chain(t, n) /\ Closed(t, Chain(t, n))
      BY ChainIsClosed
    <3>2. Closed(confirmed, Chain(t, n)) /\ confirmed.cleared = t.cleared
          /\ n \in confirmed.expanded
      BY <2>9, <3>1 DEF Closed, Parents, SameQueue
    <3>3. \A i, j \in 1..Len(steps) : steps[i].to = steps[j].to => i = j
      BY <2>3, <2>4 DEF Distinct
    <3>4. \A i \in 1..Len(steps) : steps[i].to \notin Chain(t, n) \cup confirmed.cleared
      BY <2>5, <3>2
    <3> QED
      BY <2>3, <2>7, <2>10, <2>11, <3>1, <3>2, <3>3, <3>4, Walked
  <2> HIDE DEF walked
  <2>13. /\ w \in RunType /\ walked.before = t.hops /\ walked.truncated \in BOOLEAN
         /\ SameLedger(w, confirmed) /\ Placed(w) /\ Deep(w, b.depth)
         /\ Later(w, confirmed) /\ Acyclic(w)
         /\ t.hops <= w.hops /\ w.hops <= t.hops + affordable
         /\ Ranked(w, confirmed, n, b.depth)
    <3>1. confirmed.hops = t.hops
      BY <2>9 DEF SameQueue
    <3> QED
      BY <2>12, <3>1 DEF Walking
  <2>14. adopted \in Nat /\ w.hops = t.hops + adopted /\ adopted <= affordable
    <3>1. w.hops \in Nat
      BY <2>13 DEF RunType
    <3> QED
      BY <1>1, <2>11, <2>13, <3>1 DEF Adopted
  <2>15. /\ w.tokens = t.tokens /\ w.calls = t.calls + C + asked
         /\ w.confirms = t.confirms + asked
         /\ w.owing = t.owing /\ w.paidTokens = t.paidTokens /\ w.paidCalls = t.paidCalls
         /\ w.pops = t.pops /\ w.freePops = t.freePops
         /\ w.expanded = t.expanded /\ w.cleared = t.cleared
    BY <2>9, <2>13 DEF SameLedger, SameQueue
  <2>16. Later(w, t)
    <3>1. confirmed.live = t.live /\ confirmed.seq = t.seq /\ confirmed.next = t.next
      BY <2>9 DEF SameQueue
    <3> QED
      BY <2>13, <3>1 DEF Later
  <2> DEFINE spent == t.tokens + owed + PerEdge * adopted
  <2>17. /\ spent \in Nat
         /\ (spent > t.tokens => spent <= b.tokens)
    <3> HIDE DEF adopted
    <3>1. PerEdge * adopted <= TokensLeft(t, b) - owed
      BY <1>2, <1>3, <2>11, <2>14 DEF PerEdge
    <3>2. PerEdge * adopted \in Nat
      BY <2>14 DEF PerEdge
    <3> QED
      BY <1>1, <1>2, <1>3, <2>11, <3>1, <3>2
  <2>18. /\ done \in RunType /\ SameQueue(done, w) /\ done.tokens = spent
         /\ done.calls = w.calls /\ done.confirms = w.confirms
         /\ done.owing = w.owing /\ done.paidTokens = w.paidTokens
         /\ done.paidCalls = w.paidCalls
         /\ done.pops = w.pops /\ done.freePops = w.freePops
    <3>1. w.tokens + owed + adopted * PerEdge = spent
      BY <1>1, <1>2, <2>14, <2>15 DEF PerEdge
    <3>2. done = [w EXCEPT !.tokens = spent]
      BY <3>1
    <3> HIDE DEF done, spent, w
    <3>3. done \in RunType
      BY <2>13, <2>17, <3>2, Zenon DEF RunType
    <3> QED
      BY <2>13, <3>2, <3>3 DEF RunType, SameQueue
  <2> HIDE DEF done, adopted, spent
  <2>19. ASSUME NEW x \in RunType, NEW c \in BOOLEAN, SameQueue(x, done),
                x.tokens = done.tokens, x.calls = done.calls, x.confirms = done.confirms,
                x.pops = done.pops, x.freePops = done.freePops,
                x.paidTokens = [done.paidTokens EXCEPT ![n] = IF c THEN kept ELSE 0],
                x.paidCalls = [done.paidCalls EXCEPT ![n] = IF c THEN externals ELSE 0],
                x.owing = IF c THEN done.owing \cup {n} ELSE done.owing \ {n}
         PROVE  Good(x, c)
    <3>1. /\ SameQueue(x, w)
          /\ x.tokens = spent /\ x.calls = t.calls + C + asked
          /\ x.confirms = t.confirms + asked
          /\ x.pops = t.pops /\ x.freePops = t.freePops
          /\ x.paidTokens = [t.paidTokens EXCEPT ![n] = IF c THEN kept ELSE 0]
          /\ x.paidCalls = [t.paidCalls EXCEPT ![n] = IF c THEN externals ELSE 0]
          /\ x.owing = IF c THEN t.owing \cup {n} ELSE t.owing \ {n}
      <4>1. SameQueue(x, w)
        BY <2>18, <2>19 DEF SameQueue
      <4> QED
        BY <2>15, <2>18, <2>19, <4>1
    <3>2. Placed(x) /\ Deep(x, b.depth) /\ Acyclic(x) /\ Ranked(x, w, n, b.depth)
      BY <2>13, <3>1, SameQueueIsAsSound
    <3>7. Ranked(x, t, n, b.depth)
      BY <2>10, <2>13, <3>2, RanksCompose
    <3>3. Later(x, t) /\ x.expanded = t.expanded /\ x.cleared = t.cleared /\ x.hops = w.hops
      BY <2>15, <2>16, <3>1 DEF SameQueue, Later
    <3>4. /\ \A m \in Node \ {n} : x.paidTokens[m] = t.paidTokens[m]
                                   /\ x.paidCalls[m] = t.paidCalls[m]
          /\ x.paidTokens[n] = (IF c THEN kept ELSE 0)
          /\ x.paidCalls[n] = (IF c THEN externals ELSE 0)
      <4>1. t.paidTokens \in [Node -> {0, CallTokens}] /\ t.paidCalls \in [Node -> 0..1]
        BY DEF RunType
      <4> QED
        BY <3>1, <4>1
    <3>5. Bills(x, t, n, b, c)
      <4> DEFINE Fits(T, d, a, k) ==
            /\ x.tokens = t.tokens + T + PerEdge * k /\ x.hops = t.hops + k
            /\ x.calls = t.calls + d + a /\ x.confirms = t.confirms + a
            /\ x.tokens > t.tokens => x.tokens <= b.tokens
            /\ x.calls > t.calls => x.calls <= b.calls
            /\ T # 0 => T <= CallTokens /\ t.paidTokens[n] = 0 /\ (c => x.paidTokens[n] # 0)
            /\ d # 0 => d <= 1 /\ t.paidCalls[n] = 0 /\ (c => x.paidCalls[n] # 0)
      <4>1. x.calls > t.calls => x.calls <= b.calls
        BY <1>5, <3>1
      <4>2. x.tokens = t.tokens + owed + PerEdge * adopted
            /\ (x.tokens > t.tokens => x.tokens <= b.tokens)
        BY <2>17, <3>1 DEF spent
      <4>3. x.hops = t.hops + adopted
        BY <2>14, <3>3
      <4>4. owed # 0 => owed <= CallTokens /\ t.paidTokens[n] = 0 /\ (c => x.paidTokens[n] # 0)
        BY <1>2, <3>4
      <4>5. C # 0 => C <= 1 /\ t.paidCalls[n] = 0 /\ (c => x.paidCalls[n] # 0)
        BY <1>2, <3>4
      <4>6. Fits(owed, C, asked, adopted)
        BY <3>1, <4>1, <4>2, <4>3, <4>4, <4>5
      <4> HIDE DEF Fits
      <4>7. \E T \in Nat, d \in Nat, a \in Nat, k \in Nat : Fits(T, d, a, k)
        <5> asked \in Nat
          OBVIOUS
        <5> QED
          BY <1>2, <2>14, <4>6
      <4> QED
        BY <4>7 DEF Bills, Fits
    <3>6. Keeps(x, t, n, c)
      BY <1>2, <3>1, <3>4 DEF Keeps
    <3> QED
      BY <3>1, <3>2, <3>3, <3>5, <3>6, <3>7 DEF Good
  <2>20. CASE ~cut
    <3> DEFINE x == Settles(done, n)
    <3>1. e = [run |-> x, cut |-> FALSE, adopted |-> TRUE]
      BY <1>0, <1>7, <2>20
    <3>2. /\ x \in RunType /\ SameQueue(x, done)
          /\ x.tokens = done.tokens /\ x.calls = done.calls /\ x.confirms = done.confirms
          /\ x.pops = done.pops /\ x.freePops = done.freePops
          /\ x.owing = done.owing \ {n}
          /\ x.paidTokens = [done.paidTokens EXCEPT ![n] = 0]
          /\ x.paidCalls = [done.paidCalls EXCEPT ![n] = 0]
      <4> n \in done.expanded
        BY <2>15, <2>18 DEF SameQueue
      <4> QED
        BY <2>18, SettledOwesNothing
    <3> HIDE DEF x
    <3>3. Good(x, FALSE)
      BY <2>19, <3>2
    <3> QED
      BY <3>1, <3>3
  <2>21. CASE cut
    <3> DEFINE o == Owes(done, n, kept, externals)
               x == IF adopted > 0 THEN [left EXCEPT !.partial = @ \cup {n}] ELSE left
    <3>1. e = [run |-> x, cut |-> TRUE, adopted |-> adopted > 0 \/ late]
      BY <1>0, <1>7, <2>21
    <3>2. /\ o \in RunType /\ SameQueue(o, done)
          /\ o.tokens = done.tokens /\ o.calls = done.calls /\ o.confirms = done.confirms
          /\ o.pops = done.pops /\ o.freePops = done.freePops
          /\ o.owing = done.owing \cup {n}
          /\ o.paidTokens = [done.paidTokens EXCEPT ![n] = kept]
          /\ o.paidCalls = [done.paidCalls EXCEPT ![n] = externals]
      <4>1. OwesMore(o, done, n, kept, externals)
        BY <1>2, <2>18, OwedIsKept
      <4> QED
        BY <4>1 DEF OwesMore
    <3> HIDE DEF o
    <3>3. left \in RunType /\ SameQueue(left, o) /\ SameLedger(left, o)
      BY <2>1, <3>2, CountedIsTyped DEF o
    <3> HIDE DEF left
    <3>4. x \in RunType
      <4>1. left.partial \cup {n} \in SUBSET Node
        BY <3>3 DEF RunType
      <4>2. [left EXCEPT !.partial = @ \cup {n}] \in RunType
        BY <3>3, <4>1, Zenon DEF RunType
      <4> QED
        BY <3>3, <4>2
    <3>5. SameQueue(x, left) /\ SameLedger(x, left)
      <4>1. SameQueue(left, left) /\ SameLedger(left, left)
        BY DEF SameQueue, SameLedger
      <4>2. /\ SameQueue([left EXCEPT !.partial = @ \cup {n}], left)
            /\ SameLedger([left EXCEPT !.partial = @ \cup {n}], left)
        BY <3>3 DEF SameQueue, SameLedger, RunType
      <4> QED
        BY <4>1, <4>2
    <3> HIDE DEF x
    <3>6. /\ SameQueue(x, done)
          /\ x.tokens = done.tokens /\ x.calls = done.calls /\ x.confirms = done.confirms
          /\ x.pops = done.pops /\ x.freePops = done.freePops
          /\ x.owing = done.owing \cup {n}
          /\ x.paidTokens = [done.paidTokens EXCEPT ![n] = kept]
          /\ x.paidCalls = [done.paidCalls EXCEPT ![n] = externals]
      <4>1. SameQueue(x, done)
        BY <3>2, <3>3, <3>5 DEF SameQueue
      <4> QED
        BY <3>2, <3>3, <3>5, <4>1 DEF SameLedger
    <3>7. Good(x, TRUE)
      BY <2>19, <3>4, <3>6
    <3>8. (adopted > 0 \/ late) \in BOOLEAN
      OBVIOUS
    <3> QED
      BY <3>1, <3>7, <3>8
  <2> QED
    BY <2>20, <2>21
<1> QED
  BY <1>6, <1>7
\* A bill grows no faster than what it is charged for.
LEMMA BillsAreCovered ==
    ASSUME NEW r \in RunType, NEW q \in RunType, Ledger(r), NEW n \in Node,
           NEW T \in Nat, NEW C \in Nat, NEW asked \in Nat, NEW adopted \in Nat,
           q.tokens = r.tokens + T + PerEdge * adopted, q.hops = r.hops + adopted,
           q.calls = r.calls + C + asked, q.confirms = r.confirms + asked,
           TokensOf(r) \subseteq TokensOf(q), CallsOf(r) \subseteq CallsOf(q),
           T # 0 => T <= CallTokens /\ n \in TokensOf(q) \ TokensOf(r),
           C # 0 => C <= 1 /\ n \in CallsOf(q) \ CallsOf(r)
    PROVE  /\ q.tokens <= PerEdge * q.hops + CallTokens * Cardinality(TokensOf(q))
           /\ q.calls <= q.confirms + Cardinality(CallsOf(q))
<1>1. ASSUME NEW A, NEW B \in SUBSET Node, A \subseteq B
      PROVE  /\ Cardinality(A) \in Nat /\ Cardinality(B) \in Nat
             /\ Cardinality(A) <= Cardinality(B)
             /\ n \in B \ A => Cardinality(A) + 1 <= Cardinality(B)
  <2>1. IsFiniteSet(B)
    BY NodesAndMenus, FS_Subset
  <2>2. IsFiniteSet(A) /\ Cardinality(A) <= Cardinality(B)
    BY <1>1, <2>1, FS_Subset
  <2>3. Cardinality(A) \in Nat /\ Cardinality(B) \in Nat
    BY <2>1, <2>2, FS_CardinalityType
  <2>4. ASSUME n \in B \ A PROVE Cardinality(A) + 1 <= Cardinality(B)
    <3>1. Cardinality(A \cup {n}) = Cardinality(A) + 1
      BY <2>2, <2>4, FS_AddElement
    <3>2. A \cup {n} \in SUBSET B
      BY <1>1, <2>4
    <3>3. Cardinality(A \cup {n}) <= Cardinality(B)
      BY <2>1, <3>2, FS_Subset
    <3> QED
      BY <3>1, <3>3
  <2> QED
    BY <2>2, <2>3, <2>4
<1>2. TokensOf(q) \in SUBSET Node /\ CallsOf(q) \in SUBSET Node
  BY DEF TokensOf, CallsOf, RunType
<1>3. r.hops \in Nat /\ r.tokens \in Nat /\ r.calls \in Nat /\ r.confirms \in Nat
  BY DEF RunType
<1>4. q.tokens <= PerEdge * q.hops + CallTokens * Cardinality(TokensOf(q))
  <2> DEFINE a == Cardinality(TokensOf(r))
             c == Cardinality(TokensOf(q))
  <2>1. /\ a \in Nat /\ c \in Nat /\ a <= c
        /\ n \in TokensOf(q) \ TokensOf(r) => a + 1 <= c
    BY <1>1, <1>2
  <2>2. r.tokens <= PerEdge * r.hops + CallTokens * a
    BY DEF Ledger
  <2> HIDE DEF a, c
  <2>3. T <= CallTokens * (c - a)
    BY <2>1 DEF CallTokens
  <2>4. q.tokens <= PerEdge * q.hops + CallTokens * c
    BY <1>3, <2>1, <2>2, <2>3 DEF PerEdge, CallTokens
  <2> QED
    BY <2>4 DEF c
<1>5. q.calls <= q.confirms + Cardinality(CallsOf(q))
  <2> DEFINE a == Cardinality(CallsOf(r))
             c == Cardinality(CallsOf(q))
  <2>1. /\ a \in Nat /\ c \in Nat /\ a <= c
        /\ n \in CallsOf(q) \ CallsOf(r) => a + 1 <= c
    BY <1>1, <1>2
  <2>2. r.calls <= r.confirms + a
    BY DEF Ledger
  <2> HIDE DEF a, c
  <2>3. C <= c - a
    BY <2>1
  <2>4. q.calls <= q.confirms + c
    BY <1>3, <2>1, <2>2, <2>3
  <2> QED
    BY <2>4 DEF c
<1> QED
  BY <1>4, <1>5

\* What a step of a call may do to the ranks: what is fixed stays so, and what
\* was cut is found half done by the next call.
RanksStay(q, r, limit, cut) ==
    Kindred(r) /\ HalfDone(r) =>
        /\ Kindred(q) /\ (~cut => HalfDone(q))
        /\ \A top, was, C, k : Fixes(r, limit, top, was, C, k) => Fixes(q, limit, top, was, C, k)

\* What is queued is worth no more than what is fixed, and so is all that an
\* expansion of it finds, whether it is put back or not.
LEMMA PopKeepsTheRanks ==
    ASSUME NEW limit \in Nat, NEW r \in RunType, NEW n \in r.live, r.depth[n] < limit,
           NEW t, SameRoutes(t, r), t.live = r.live \ {n}, t.expanded = r.expanded \cup {n},
           t.cleared = r.cleared,
           NEW x, Ranked(x, t, n, limit), x.expanded = t.expanded, x.cleared = t.cleared,
           NEW cut, NEW q, q.states = x.states, q.parent = x.parent, q.depth = x.depth,
           q.worth = x.worth, q.cleared = x.cleared, ~cut => q = x,
           cut => q.expanded = x.expanded \ {n} /\ q.live = x.live \cup {n}
    PROVE  RanksStay(q, r, limit, cut)
<1> SUFFICES ASSUME Kindred(r), HalfDone(r)
    PROVE /\ Kindred(q) /\ (~cut => HalfDone(q))
          /\ \A top, was, C, k : Fixes(r, limit, top, was, C, k)
                                    => Fixes(q, limit, top, was, C, k)
  BY DEF RanksStay
<1>1. /\ n \in Node /\ Found(t) = Found(r) /\ t.parent = r.parent /\ t.worth = r.worth
      /\ t.depth = r.depth /\ t.partial = r.partial
  BY DEF RunType, SameRoutes, Found
<1>2. Kindred(t) /\ HalfDone(t)
  BY <1>1 DEF Kindred, HalfDone
<1>3. /\ Kindred(x) /\ HalfDone(x)
      /\ x.worth[n] = t.worth[n] /\ x.depth[n] = t.depth[n]
      /\ \A top, was, C, k : Fixes(t, limit, top, was, C, k) /\ t.worth[n] <= k
                                => Fixes(x, limit, top, was, C, k)
  BY <1>2 DEF Ranked
<1>4. Found(q) = Found(x)
  BY DEF Found
<1>5. Kindred(q) /\ (~cut => HalfDone(q))
  BY <1>3, <1>4 DEF Kindred
<1>6. ASSUME NEW top, NEW was, NEW C, NEW k, Fixes(r, limit, top, was, C, k)
      PROVE  Fixes(q, limit, top, was, C, k)
  <2>1. Results(t) = Results(r)
    BY <1>1 DEF Results
  <2>2. Fixes(t, limit, top, was, C, k) /\ t.worth[n] <= k
    BY <1>1, <1>6, <2>1 DEF Fixes, Closed, Parents
  <2>3. Fixes(x, limit, top, was, C, k)
    BY <1>3, <2>2
  <2>4. CASE ~cut
    BY <2>3, <2>4
  <2>5. CASE cut
    <3>1. Results(q) = Results(x)
      BY <1>4 DEF Results
    <3>2. q.depth[n] < limit /\ q.worth[n] <= k
      BY <1>1, <1>3, <2>2
    <3> QED
      BY <1>4, <2>3, <2>5, <3>1, <3>2 DEF Fixes, Closed, Parents
  <2> QED
    BY <2>4, <2>5
<1> QED
  BY <1>5, <1>6

\* One turn of the loop: a state is popped, expanded, and put back when that
\* was cut.
LEMMA PopIsSound ==
    ASSUME NEW b, b.depth \in Nat, b.tokens \in Nat, b.calls \in Nat,
           NEW r, Sound(r, b.depth), NEW n \in r.live,
           NEW got \in Seq(Hops), Distinct(got), NEW late \in BOOLEAN,
           NEW price \in Prices(r, b, n, late),
           NEW asked \in Confirms(Charged(r, n, price), b, n, got), NEW refused
    PROVE  LET p == Popped(r, b, n, got, late, price, asked, refused)
               q == p.run
           IN /\ p.cut \in BOOLEAN /\ Sound(q, b.depth)
              /\ q.tokens > r.tokens => q.tokens <= b.tokens
              /\ q.calls > r.calls => q.calls <= b.calls
              /\ q.pops > r.pops => n \notin Connective /\ q.pops <= r.pops + 1
              /\ q.freePops > r.freePops => q.freePops <= r.freePops + 1
              /\ r.depth[n] < b.depth => RanksStay(q, r, b.depth, p.cut)
<1> DEFINE t == Pops(r, n)
           e == Expand(t, b, n, got, late, price, asked, refused)
           x == e.run
           p == Popped(r, b, n, got, late, price, asked, refused)
           q == p.run
<1>0. /\ r \in RunType /\ Placed(r) /\ Acyclic(r) /\ Deep(r, b.depth) /\ Ledger(r)
      /\ n \in Node /\ n \notin r.expanded /\ n \notin r.cleared /\ n \notin r.deferred
      /\ r.seq[n] \in Nat /\ r.seq[n] < r.next /\ r.priority[n] \in Nat
      /\ r.pops \in Nat /\ r.freePops \in Nat /\ r.live \subseteq Node
      /\ r.paidTokens \in [Node -> {0, CallTokens}] /\ r.paidCalls \in [Node -> 0..1]
  <2>1. r \in RunType /\ Placed(r) /\ Acyclic(r) /\ Deep(r, b.depth) /\ Ledger(r)
    BY DEF Sound
  <2>2. n \in Node /\ r.live \subseteq Node
    BY <2>1 DEF RunType
  <2>3. /\ n \notin r.expanded /\ n \notin r.cleared /\ n \notin r.deferred
        /\ r.seq[n] < r.next
    BY <2>1 DEF Placed
  <2>4. /\ r.seq[n] \in Nat /\ r.priority[n] \in Nat /\ r.pops \in Nat /\ r.freePops \in Nat
        /\ r.paidTokens \in [Node -> {0, CallTokens}] /\ r.paidCalls \in [Node -> 0..1]
    BY <2>1, <2>2 DEF RunType
  <2> QED
    BY <2>1, <2>2, <2>3, <2>4
<1>1. /\ t \in RunType /\ Placed(t)
      /\ t.live = r.live \ {n} /\ t.deferred = r.deferred /\ t.strays = r.strays
      /\ \A m \in Node \ {n} : t.seq[m] = r.seq[m]
      /\ t.next = r.next /\ t.expanded = r.expanded \cup {n} /\ t.cleared = r.cleared
      /\ SameRoutes(t, r)
      /\ t.tokens = r.tokens /\ t.calls = r.calls /\ t.confirms = r.confirms
      /\ t.owing = r.owing /\ t.paidTokens = r.paidTokens /\ t.paidCalls = r.paidCalls
      /\ t.raised = r.raised
      /\ t.pops = (IF n \in Connective THEN r.pops ELSE r.pops + 1)
      /\ t.freePops = (IF n \in Connective THEN r.freePops + 1 ELSE r.freePops)
  BY <1>0, PoppedOff
<1>2. p = IF e.cut
          THEN [run |-> Requeues(x, n, r.priority[n], r.seq[n], e.adopted), cut |-> TRUE]
          ELSE [run |-> x, cut |-> FALSE]
  BY DEF Popped
<1>3. /\ price.tokens \in {0, CallTokens} /\ price.calls \in 0..1
      /\ OwedCalls(t, n, price) > 0 => CallsLeft(t, b) > 0
  <2>1. r.paidCalls[n] \in 0..1 /\ r.calls \in Nat
    BY <1>0 DEF RunType
  <2>2. CallsLeft(r, b) \in Nat
    BY <2>1 DEF CallsLeft, LeftOf
  <2>3. \/ price = [tokens |-> CallTokens, calls |-> Smaller(1, CallsLeft(r, b) + r.paidCalls[n])]
        \/ price = [tokens |-> 0, calls |-> 0]
    BY DEF Prices, Full
  <2>4. price.tokens \in {0, CallTokens}
    BY <2>3
  <2>5. \/ price.calls = Smaller(1, CallsLeft(r, b) + r.paidCalls[n])
        \/ price.calls = 0
    BY <2>3
  <2>6. CallsLeft(t, b) = CallsLeft(r, b) /\ OwedCalls(t, n, price) = LeftOf(price.calls, r.paidCalls[n])
    BY <1>1 DEF CallsLeft, OwedCalls
  <2> HIDE DEF t
  <2>7. price.calls \in 0..1 /\ (LeftOf(price.calls, r.paidCalls[n]) > 0 => CallsLeft(r, b) > 0)
    BY <2>1, <2>2, <2>5 DEF Smaller, LeftOf
  <2> QED
    BY <2>4, <2>6, <2>7
<1>4. /\ asked \in 0..1
      /\ asked > 0 => CallsLeft(Charged(t, n, price), b) > 0
  <2>1. CallsLeft(Charged(t, n, price), b) = CallsLeft(Charged(r, n, price), b)
    <3>1. Charged(t, n, price).calls = t.calls + LeftOf(price.calls, t.paidCalls[n])
      BY <1>1 DEF Charged, OwedCalls, RunType
    <3>2. Charged(r, n, price).calls = r.calls + LeftOf(price.calls, r.paidCalls[n])
      BY <1>0 DEF Charged, OwedCalls, RunType
    <3> HIDE DEF t
    <3> QED
      BY <1>1, <3>1, <3>2 DEF CallsLeft
  <2> QED
    BY <2>1 DEF Confirms
<1> HIDE DEF t
<1>5. Acyclic(t) /\ Deep(t, b.depth)
  BY <1>0, <1>1 DEF Acyclic, Deep, SameRoutes
<1>6. /\ e.cut \in BOOLEAN /\ e.adopted \in BOOLEAN
      /\ x \in RunType /\ Placed(x) /\ Acyclic(x) /\ Deep(x, b.depth) /\ Later(x, t)
      /\ x.expanded = t.expanded /\ x.cleared = t.cleared
      /\ x.pops = t.pops /\ x.freePops = t.freePops
      /\ Bills(x, t, n, b, e.cut) /\ Keeps(x, t, n, e.cut)
      /\ Ranked(x, t, n, b.depth)
  <2> HIDE DEF e
  <2>1. IsExpanded(e, t, n, b)
    BY <1>0, <1>1, <1>3, <1>4, <1>5, ExpandedIsBilled DEF e
  <2> QED
    BY <2>1 DEF IsExpanded
<1> DEFINE cut == e.cut
<1>7. PICK T \in Nat, C \in Nat, confirms \in Nat, adopted \in Nat :
        /\ x.tokens = r.tokens + T + PerEdge * adopted /\ x.hops = r.hops + adopted
        /\ x.calls = r.calls + C + confirms /\ x.confirms = r.confirms + confirms
        /\ x.tokens > r.tokens => x.tokens <= b.tokens
        /\ x.calls > r.calls => x.calls <= b.calls
        /\ T # 0 => T <= CallTokens /\ r.paidTokens[n] = 0 /\ (cut => x.paidTokens[n] # 0)
        /\ C # 0 => C <= 1 /\ r.paidCalls[n] = 0 /\ (cut => x.paidCalls[n] # 0)
  <2>1. t.hops = r.hops
    BY <1>1 DEF SameRoutes
  <2> HIDE DEF e
  <2> QED
    BY <1>1, <1>6, <2>1 DEF Bills
<1>8. /\ \A m \in Node \ {n} : x.paidTokens[m] = r.paidTokens[m] /\ x.paidCalls[m] = r.paidCalls[m]
      /\ ~cut => x.owing = r.owing \ {n} /\ x.paidTokens[n] = 0 /\ x.paidCalls[n] = 0
      /\ cut => /\ r.paidTokens[n] # 0 => x.paidTokens[n] # 0
                /\ r.paidCalls[n] # 0 => x.paidCalls[n] # 0
                /\ \/ x.owing = r.owing \cup {n}
                   \/ /\ x.owing = r.owing /\ x.paidTokens = r.paidTokens
                      /\ x.paidCalls = r.paidCalls
  <2> HIDE DEF e
  <2> QED
    BY <1>1, <1>6 DEF Keeps
<1> HIDE DEF e, p
\* What remains is about q, whether it was put back or not.
<1>9. ASSUME q \in RunType, Placed(q), q.deferred = x.deferred, q.depth = x.depth,
             q.parent = x.parent, q.hops = x.hops, q.tokens = x.tokens, q.calls = x.calls,
             q.confirms = x.confirms, q.owing = x.owing, q.paidTokens = x.paidTokens,
             q.paidCalls = x.paidCalls, q.pops <= x.pops, q.freePops <= x.freePops,
             q.expanded = IF cut THEN r.expanded ELSE r.expanded \cup {n},
             r.depth[n] < b.depth => RanksStay(q, r, b.depth, cut), p.cut = cut
      PROVE  /\ Sound(q, b.depth)
             /\ q.tokens > r.tokens => q.tokens <= b.tokens
             /\ q.calls > r.calls => q.calls <= b.calls
             /\ q.pops > r.pops => n \notin Connective /\ q.pops <= r.pops + 1
             /\ q.freePops > r.freePops => q.freePops <= r.freePops + 1
             /\ r.depth[n] < b.depth => RanksStay(q, r, b.depth, p.cut)
  <2> HIDE DEF x, q, cut
  <2>1. Acyclic(q) /\ Deep(q, b.depth)
    BY <1>6, <1>9 DEF Acyclic, Deep
  <2>2. /\ q.tokens > r.tokens => q.tokens <= b.tokens
        /\ q.calls > r.calls => q.calls <= b.calls
    BY <1>7, <1>9
  <2>3. /\ q.pops > r.pops => n \notin Connective /\ q.pops <= r.pops + 1
        /\ q.freePops > r.freePops => q.freePops <= r.freePops + 1
    <3>1. q.pops \in Nat /\ q.freePops \in Nat
      BY <1>9 DEF RunType
    <3> QED
      BY <1>0, <1>1, <1>6, <1>9, <3>1
  <2>4. TokensOf(r) \subseteq TokensOf(q) /\ CallsOf(r) \subseteq CallsOf(q)
    <3> SUFFICES ASSUME NEW m \in Node
                 PROVE  /\ m \in TokensOf(r) => m \in TokensOf(q)
                        /\ m \in CallsOf(r) => m \in CallsOf(q)
      <4>1. TokensOf(r) \subseteq Node /\ CallsOf(r) \subseteq Node
        BY <1>0 DEF TokensOf, CallsOf, RunType
      <4> QED
        BY <4>1
    <3>1. CASE m = n
      BY <1>0, <1>8, <1>9, <3>1 DEF TokensOf, CallsOf
    <3>2. CASE m # n
      BY <1>8, <1>9, <3>2 DEF TokensOf, CallsOf
    <3> QED
      BY <3>1, <3>2
  <2>5. /\ T # 0 => T <= CallTokens /\ n \in TokensOf(q) \ TokensOf(r)
        /\ C # 0 => C <= 1 /\ n \in CallsOf(q) \ CallsOf(r)
    <3>1. n \in TokensOf(r) => r.paidTokens[n] # 0
      BY <1>0 DEF TokensOf
    <3>2. n \in CallsOf(r) => r.paidCalls[n] # 0
      BY <1>0 DEF CallsOf
    <3>3. /\ x.paidTokens[n] # 0 => n \in TokensOf(q)
          /\ x.paidCalls[n] # 0 => n \in CallsOf(q)
          /\ ~cut => n \in TokensOf(q) /\ n \in CallsOf(q)
      BY <1>0, <1>9 DEF TokensOf, CallsOf
    <3> QED
      BY <1>7, <3>1, <3>2, <3>3
  <2>6. /\ q.tokens <= PerEdge * q.hops + CallTokens * Cardinality(TokensOf(q))
        /\ q.calls <= q.confirms + Cardinality(CallsOf(q))
    <3>1. /\ q.tokens = r.tokens + T + PerEdge * adopted /\ q.hops = r.hops + adopted
          /\ q.calls = r.calls + C + confirms /\ q.confirms = r.confirms + confirms
      BY <1>7, <1>9
    <3> QED
      BY <1>0, <1>9, <2>4, <2>5, <3>1, BillsAreCovered
  <2>7. q.owing \cap q.expanded = {}
    <3>1. r.owing \cap r.expanded = {}
      BY <1>0 DEF Ledger
    <3> QED
      BY <1>0, <1>8, <1>9, <3>1
  <2>8. \A m \in Node : q.paidTokens[m] # 0 \/ q.paidCalls[m] # 0 => m \in q.owing
    <3>1. \A m \in Node : r.paidTokens[m] # 0 \/ r.paidCalls[m] # 0 => m \in r.owing
      BY <1>0 DEF Ledger
    <3> TAKE m \in Node
    <3>2. CASE m = n
      BY <1>8, <1>9, <3>1, <3>2
    <3>3. CASE m # n
      BY <1>8, <1>9, <3>1, <3>3
    <3> QED
      BY <3>2, <3>3
  <2>9. Ledger(q)
    BY <2>6, <2>7, <2>8 DEF Ledger
  <2> QED
    BY <1>9, <2>1, <2>2, <2>3, <2>9 DEF Sound
<1>10. CASE ~cut
  <2>1. p = [run |-> x, cut |-> FALSE]
    BY <1>2, <1>10
  <2>2. q = x /\ p.cut = FALSE
    BY <2>1
  <2>3. x.pops \in Nat /\ x.freePops \in Nat
    BY <1>6 DEF RunType
  <2>4. x.expanded = r.expanded \cup {n}
    BY <1>1, <1>6
  <2> HIDE DEF x
  <2>5. x.pops <= x.pops /\ x.freePops <= x.freePops
    BY <2>3
  <2>6. r.depth[n] < b.depth => RanksStay(x, r, b.depth, cut)
    BY <1>0, <1>1, <1>6, <1>10, PopKeepsTheRanks
  <2> QED
    BY <1>6, <1>9, <1>10, <2>2, <2>4, <2>5, <2>6 DEF p
<1>11. CASE cut
  <2> DEFINE s == r.seq[n]
  <2>1. p = [run |-> Requeues(x, n, r.priority[n], s, e.adopted), cut |-> TRUE]
    BY <1>2, <1>11
  <2>2. q = Requeues(x, n, r.priority[n], s, e.adopted) /\ p.cut = TRUE
    BY <2>1
  <2>3. \A m \in x.live : x.seq[m] # s
    <3>1. \A m \in r.live \ {n} : r.seq[m] # s /\ m \in Node \ {n}
      BY <1>0 DEF Placed
    <3>2. s < t.next /\ \A m \in t.live : t.seq[m] # s
      BY <1>0, <1>1, <3>1
    <3>3. \A m \in x.live : x.seq[m] \in Nat
      BY <1>6 DEF RunType
    <3>4. t.next \in Nat /\ s \in Nat
      BY <1>0, <1>1 DEF RunType
    <3> HIDE DEF s
    <3> QED
      BY <1>6, <3>2, <3>3, <3>4 DEF Later
  <2>4. s < x.next
    <3>1. x.next \in Nat /\ t.next \in Nat /\ x.next >= t.next
      BY <1>1, <1>6 DEF Later, RunType
    <3> QED
      BY <1>0, <1>1, <3>1
  <2>5. /\ n \in x.expanded /\ n \notin x.cleared
        /\ IF n \in Connective THEN x.freePops > 0 ELSE x.pops > 0
    BY <1>0, <1>1, <1>6
  <2>6. /\ q \in RunType /\ Placed(q)
        /\ q.expanded = x.expanded \ {n} /\ q.deferred = x.deferred
        /\ q.live = x.live \cup {n} /\ q.cleared = x.cleared
        /\ q.states = x.states /\ q.worth = x.worth
        /\ q.depth = x.depth /\ q.parent = x.parent /\ q.hops = x.hops
        /\ q.tokens = x.tokens /\ q.calls = x.calls /\ q.confirms = x.confirms
        /\ q.owing = x.owing /\ q.paidTokens = x.paidTokens /\ q.paidCalls = x.paidCalls
        /\ q.pops <= x.pops /\ q.freePops <= x.freePops
    <3> HIDE DEF x
    <3> QED
      BY <1>0, <1>6, <2>2, <2>3, <2>4, <2>5, PutBack
  <2>7. q.expanded = r.expanded
    BY <1>0, <1>1, <1>6, <2>6
  <2> HIDE DEF x, q
  <2>8. r.depth[n] < b.depth => RanksStay(q, r, b.depth, cut)
    BY <1>0, <1>1, <1>6, <1>11, <2>6, PopKeepsTheRanks
  <2> QED
    BY <1>9, <1>11, <2>2, <2>6, <2>7, <2>8 DEF p, q
<1> QED
  BY <1>6, <1>10, <1>11
-----------------------------------------------------------------------------
(* The results a walk ranks first, and what fixes them.                    *)

\* Of things that are numbered from 0 on, the first k are k.
LEMMA FirstAreAsMany ==
    ASSUME NEW R, IsFiniteSet(R), NEW rank \in [R -> Nat],
           \A m, n \in R : rank[m] = rank[n] => m = n,
           \A n \in R : rank[n] < Cardinality(R),
           NEW k \in Nat, k <= Cardinality(R)
    PROVE  Cardinality({n \in R : rank[n] < k}) = k
<1> DEFINE N == Cardinality(R)
           T == {n \in R : rank[n] < k}
           g == [n \in T |-> rank[n]]
<1>1. N \in Nat
  BY FS_CardinalityType
<1>2. /\ IsFiniteSet(0..(N - 1)) /\ Cardinality(0..(N - 1)) = N
      /\ IsFiniteSet(0..(k - 1)) /\ Cardinality(0..(k - 1)) = k
  <2>1. \A x \in Nat : /\ x - 1 \in Int /\ IsFiniteSet(0..(x - 1))
                       /\ Cardinality(0..(x - 1)) = IF 0 > x - 1 THEN 0 ELSE x - 1 - 0 + 1
    BY FS_Interval
  <2> HIDE DEF N
  <2> QED
    BY <1>1, <2>1
<1>3. rank \in Injection(R, 0..(N - 1))
  <2>1. \A n \in R : rank[n] \in 0..(N - 1)
    BY <1>1
  <2>2. rank \in [R -> 0..(N - 1)]
    BY <2>1
  <2> QED
    BY <2>2 DEF Injection, IsInjective
<1>4. rank \in Surjection(R, 0..(N - 1))
  BY <1>2, <1>3, FS_Injection
<1>5. g \in Bijection(T, 0..(k - 1))
  <2>1. g \in [T -> 0..(k - 1)]
    <3>1. \A n \in T : rank[n] \in 0..(k - 1)
      OBVIOUS
    <3> QED
      BY <3>1
  <2>2. \A m, n \in T : g[m] = g[n] => m = n
    OBVIOUS
  <2>3. ASSUME NEW i \in 0..(k - 1) PROVE \E n \in T : g[n] = i
    <3>1. i \in 0..(N - 1) /\ i < k
      BY <1>1
    <3>2. PICK n \in R : rank[n] = i
      BY <1>4, <3>1 DEF Surjection
    <3>3. n \in T
      BY <3>1, <3>2
    <3> QED
      BY <3>2, <3>3
  <2> HIDE DEF g
  <2> QED
    BY <2>1, <2>2, <2>3 DEF Bijection, Injection, Surjection, IsInjective
<1>6. IsFiniteSet(T)
  BY FS_Subset
<1> HIDE DEF T, g
<1>7. Cardinality(0..(k - 1)) = Cardinality(T)
  BY <1>5, <1>6, FS_Bijection DEF ExistsBijection
<1> QED
  BY <1>2, <1>7 DEF T

\* Of enough results the first K are K, and none of the others is worth more.
LEMMA TopIsFull ==
    ASSUME NEW r \in RunType, Placed(r), Cardinality(Results(r)) >= K
    PROVE  /\ TopSet(r) \subseteq Results(r)
           /\ IsFiniteSet(TopSet(r)) /\ Cardinality(TopSet(r)) = K
           /\ \A n \in Results(r) \ TopSet(r), m \in TopSet(r) : r.worth[n] <= r.worth[m]
<1> DEFINE R == Results(r)
           Above(n) == {m \in R : Outranks(r, m, n)}
           rank == [n \in R |-> Cardinality(Above(n))]
<1>0. K \in Nat
  BY BudgetsAreCaps
<1>1. /\ R \subseteq Node /\ IsFiniteSet(R) /\ Cardinality(R) \in Nat
      /\ \A n \in R : r.worth[n] \in Nat
  <2>1. R \in SUBSET Node
    BY FoundAreNodes DEF Results
  <2>2. IsFiniteSet(R)
    BY <2>1, NodesAndMenus, FS_Subset
  <2>3. Cardinality(R) \in Nat
    BY <2>2, FS_CardinalityType
  <2>4. r.worth \in [Node -> Nat]
    BY DEF RunType
  <2> HIDE DEF R
  <2> QED
    BY <2>1, <2>2, <2>3, <2>4
<1>2. \A n \in R : IndexOf(r, n) \in Nat /\ r.states[IndexOf(r, n)] = n
  <2> TAKE n \in R
  <2>1. DOMAIN r.states \subseteq Nat
    <3>1. r.states \in Seq(Node)
      BY DEF RunType
    <3> QED
      BY <3>1
  <2>2. \E i \in DOMAIN r.states : r.states[i] = n
    BY DEF Results, Found, Range
  <2> QED
    BY <2>1, <2>2 DEF IndexOf
<1> HIDE DEF R
<1>3. /\ \A n \in R : ~Outranks(r, n, n)
      /\ \A m, n \in R : m # n => Outranks(r, m, n) \/ Outranks(r, n, m)
      /\ \A l, m, n \in R : Outranks(r, l, m) /\ Outranks(r, m, n) => Outranks(r, l, n)
  <2>1. \A n \in R : ~Outranks(r, n, n)
    BY <1>1, <1>2 DEF Outranks
  <2>2. \A m, n \in R : m # n => Outranks(r, m, n) \/ Outranks(r, n, m)
    <3> TAKE m, n \in R
    <3> HAVE m # n
    <3>1. IndexOf(r, m) # IndexOf(r, n) /\ IndexOf(r, m) \in Nat /\ IndexOf(r, n) \in Nat
      BY <1>2
    <3> QED
      BY <1>1, <3>1 DEF Outranks
  <2>3. \A l, m, n \in R : Outranks(r, l, m) /\ Outranks(r, m, n) => Outranks(r, l, n)
    BY <1>1, <1>2 DEF Outranks
  <2> QED
    BY <2>1, <2>2, <2>3
<1>4. ASSUME NEW n \in R
      PROVE  /\ IsFiniteSet(Above(n)) /\ Cardinality(Above(n)) \in Nat
             /\ Cardinality(Above(n)) < Cardinality(R)
  <2>1. Above(n) \in SUBSET R /\ n \notin Above(n)
    BY <1>3
  <2> HIDE DEF Above
  <2>2. /\ IsFiniteSet(Above(n)) /\ Cardinality(Above(n)) <= Cardinality(R)
        /\ Cardinality(Above(n)) # Cardinality(R)
    BY <1>1, <2>1, FS_Subset
  <2> QED
    BY <1>1, <2>2, FS_CardinalityType
<1>5. ASSUME NEW m \in R, NEW n \in R, Outranks(r, m, n)
      PROVE  Cardinality(Above(m)) < Cardinality(Above(n))
  <2>1. Above(m) \in SUBSET Above(n) /\ m \in Above(n) /\ m \notin Above(m)
    BY <1>3, <1>5
  <2> HIDE DEF Above
  <2>2. /\ Cardinality(Above(m)) <= Cardinality(Above(n))
        /\ Cardinality(Above(m)) # Cardinality(Above(n))
    BY <1>4, <2>1, FS_Subset
  <2> QED
    BY <1>4, <2>2
<1>6. TopSet(r) = {n \in R : rank[n] < K}
  BY DEF TopSet, R
<1> HIDE DEF Above
<1>7. rank \in [R -> Nat] /\ \A n \in R : rank[n] = Cardinality(Above(n))
  BY <1>4
<1> HIDE DEF rank
<1>8. \A m, n \in R : rank[m] = rank[n] => m = n
  BY <1>3, <1>4, <1>5, <1>7
<1>9. Cardinality(TopSet(r)) = K
  <2>1. \A n \in R : rank[n] < Cardinality(R)
    BY <1>4, <1>7
  <2>2. K <= Cardinality(R)
    BY <1>0, <1>1 DEF R
  <2> QED
    BY <1>0, <1>1, <1>6, <1>7, <1>8, <2>1, <2>2, FirstAreAsMany
<1>10. ASSUME NEW n \in R \ TopSet(r), NEW m \in TopSet(r) PROVE r.worth[n] <= r.worth[m]
  <2>1. m \in R /\ rank[m] < K /\ ~(rank[n] < K) /\ rank[m] \in Nat /\ rank[n] \in Nat
    BY <1>6, <1>7
  <2>2. ~Outranks(r, n, m)
    BY <1>0, <1>5, <1>7, <2>1
  <2> QED
    BY <1>1, <2>1, <2>2 DEF Outranks
<1>11. TopSet(r) \in SUBSET R
  BY <1>6
<1>12. IsFiniteSet(TopSet(r))
  BY <1>1, <1>11, FS_Subset
<1> QED
  BY <1>9, <1>10, <1>11, <1>12 DEF R

\* Where the bound holds and the limit holds nothing of the top back, the top
\* is fixed.
LEMMA BoundFixesTheTop ==
    ASSUME NEW r \in RunType, Placed(r), Kindred(r), NEW limit \in Nat, BoundHolds(r),
           ~TopIsHeld(r, limit)
    PROVE  \E C, k : Fixes(r, limit, TopSet(r), r.worth, C, k)
<1> DEFINE top == TopSet(r)
           C == UNION {Chain(r, n) : n \in top}
           T == {r.worth[n] : n \in top}
<1>0. /\ Cardinality(Results(r)) >= K
      /\ \A n \in r.live, m \in top : r.worth[n] <= r.worth[m]
  BY DEF BoundHolds
<1>1. /\ top \subseteq Results(r) /\ IsFiniteSet(top) /\ Cardinality(top) = K
      /\ \A n \in Results(r) \ top, m \in top : r.worth[n] <= r.worth[m]
  BY <1>0, TopIsFull
<1>2. top \subseteq Node /\ top \subseteq Found(r) /\ r.worth \in [Node -> Nat]
  BY <1>1, FoundAreNodes DEF Results, RunType
<1>3. top # {} /\ K \in Nat
  BY <1>1, FS_EmptySet, BudgetsAreCaps
<1>4. \A n \in top : Chain(r, n) \subseteq Node /\ n \in Chain(r, n) /\ Closed(r, Chain(r, n))
  BY <1>2, ChainIsClosed
<1>5. \A n \in top : \A m \in Chain(r, n) \ (r.expanded \cup r.cleared) : ~(r.depth[m] >= limit)
  BY DEF TopIsHeld
<1> HIDE DEF top
<1>6. PICK k \in T : \A y \in T : k <= y
  <2>1. T \subseteq Nat /\ T # {}
    BY <1>2, <1>3
  <2> HIDE DEF T
  <2> QED
    BY <2>1, LeastNumber
<1>7. PICK least \in top : k = r.worth[least]
  OBVIOUS
<1>8. k \in Nat /\ \A n \in top : k <= r.worth[n]
  BY <1>2, <1>6
<1>9. C \subseteq Found(r)
  <2>1. Closed(r, Found(r))
    <3>1. ASSUME NEW m \in Found(r), r.parent[m] # None PROVE r.parent[m] \in Found(r)
      BY <3>1, FoundAreNodes DEF Kindred
    <3> QED
      BY <3>1 DEF Closed, Parents
  <2>2. \A n \in top : Chain(r, n) \subseteq Found(r)
    BY <1>2, <2>1, ChainIsLeast
  <2> QED
    BY <2>2
<1>10. top \subseteq C /\ Closed(r, C)
  <2>1. top \subseteq C
    BY <1>4
  <2>2. ASSUME NEW m \in C, r.parent[m] # None PROVE r.parent[m] \in C
    <3>1. PICK n \in top : m \in Chain(r, n)
      OBVIOUS
    <3>2. r.parent[m] \in Chain(r, n)
      BY <1>4, <2>2, <3>1 DEF Closed, Parents
    <3> QED
      BY <3>2
  <2> QED
    BY <2>1, <2>2 DEF Closed, Parents
<1>11. ASSUME NEW m \in C
       PROVE  r.worth[m] >= k /\ (m \in r.expanded \cup r.cleared \/ r.depth[m] < limit)
  <2>1. PICK n \in top : m \in Chain(r, n)
    OBVIOUS
  <2>2. r.worth[n] <= r.worth[m] /\ m \in Node
    BY <1>2, <1>4, <2>1, NoneIsWorthMore
  <2>3. r.worth[m] >= k
    BY <1>2, <1>8, <2>2
  <2>4. m \in r.expanded \cup r.cleared \/ ~(r.depth[m] >= limit)
    BY <1>5, <2>1
  <2>5. r.depth[m] \in Nat
    BY <2>2 DEF RunType
  <2> QED
    BY <2>3, <2>4, <2>5
<1>12. /\ \A n \in r.live : r.worth[n] <= k
       /\ \A n \in Results(r) \ top : r.worth[n] <= k
  BY <1>0, <1>1, <1>7 DEF top
<1> HIDE DEF C, T
<1>13. Fixes(r, limit, top, r.worth, C, k)
  BY <1>1, <1>8, <1>9, <1>10, <1>11, <1>12 DEF Fixes
<1> QED
  BY <1>13 DEF top

\* What is found later than a fixed top can only tie with a part of it.
LEMMA FixedTopIsKept ==
    ASSUME NEW r \in RunType, Placed(r), NEW limit, NEW top, NEW was, NEW C, NEW k,
           Fixes(r, limit, top, was, C, k)
    PROVE  /\ \A n \in top : r.worth[n] = was[n]
           /\ \A n \in TopSet(r) \ top :
                 \E m \in top \ TopSet(r) : r.worth[n] = r.worth[m]
<1>1. /\ k \in Nat /\ Cardinality(top) = K /\ top \subseteq C /\ top \subseteq Results(r)
      /\ \A n \in top : r.worth[n] = was[n] /\ r.worth[n] >= k
      /\ \A n \in Results(r) \ top : r.worth[n] <= k
  BY DEF Fixes
<1>2. /\ Results(r) \subseteq Node /\ IsFiniteSet(Results(r)) /\ r.worth \in [Node -> Nat]
      /\ K \in Nat
  <2>1. Results(r) \in SUBSET Node
    BY FoundAreNodes DEF Results
  <2>2. IsFiniteSet(Results(r))
    BY <2>1, NodesAndMenus, FS_Subset
  <2> QED
    BY <2>1, <2>2, BudgetsAreCaps DEF RunType
<1>3. Cardinality(Results(r)) >= K
  <2>1. K <= Cardinality(Results(r))
    BY <1>1, <1>2, FS_Subset
  <2> QED
    BY <1>2, <2>1, FS_CardinalityType
<1>4. /\ TopSet(r) \subseteq Results(r) /\ IsFiniteSet(TopSet(r)) /\ Cardinality(TopSet(r)) = K
      /\ \A n \in Results(r) \ TopSet(r), m \in TopSet(r) : r.worth[n] <= r.worth[m]
  BY <1>3, TopIsFull
<1>5. ASSUME NEW n \in TopSet(r) \ top
      PROVE  \E m \in top \ TopSet(r) : r.worth[n] = r.worth[m]
  <2>1. PICK m \in top : m \notin TopSet(r)
    <3> SUFFICES ASSUME top \in SUBSET TopSet(r) PROVE FALSE
      OBVIOUS
    <3>1. TopSet(r) = top
      BY <1>1, <1>4, FS_Subset
    <3> QED
      BY <3>1
  <2>2. r.worth[n] <= k /\ r.worth[m] >= k /\ r.worth[m] <= r.worth[n]
    BY <1>1, <1>4, <2>1
  <2>3. r.worth[n] \in Nat /\ r.worth[m] \in Nat
    BY <1>1, <1>2, <1>4, <2>1
  <2>4. r.worth[n] = r.worth[m]
    BY <1>1, <2>2, <2>3
  <2> QED
    BY <2>1, <2>4
<1> QED
  BY <1>1, <1>5
-----------------------------------------------------------------------------
(* The inductive invariant of the walk, and what follows from it.          *)

\* Whatever a node may offer.
Menus == UNION {Menu[n] : n \in Node}

\* What a call starts from, runs with and leaves behind.
TravInv ==
    /\ run \in RunType /\ Placed(run) /\ Acyclic(run) /\ Ledger(run)
    /\ budget \in Budgets
    /\ mode \in {"new", "running"} => Deep(run, budget.depth)
    /\ offers \in [Node -> Menus \cup {Unasked}]
    /\ \A n \in Node : offers[n] # Unasked => offers[n] \in Menu[n]

\* The caps of a budget are numbers.
LEMMA BudgetsAreNumbers ==
    ASSUME NEW b \in Budgets
    PROVE  b.pops \in Nat /\ b.depth \in Nat /\ b.tokens \in Nat /\ b.calls \in Nat
BY BudgetsAreCaps

\* Every depth limit is above none.
LEMMA SoundAtNoDepth ==
    ASSUME NEW r \in RunType, Placed(r), Acyclic(r), Ledger(r) PROVE Sound(r, 0)
<1>1. Deep(r, 0)
  BY DEF Deep, RunType
<1> QED
  BY <1>1 DEF Sound

\* What the maps answer is a part of what a node offers.
LEMMA HarvestsAreHops ==
    ASSUME TravInv, NEW n \in Node, NEW a \in Harvests(n)
    PROVE  /\ a.all \in Menu[n] /\ a.late \in BOOLEAN
           /\ a.got \in Seq(Hops) /\ Distinct(a.got)
<1>1. PICK all : /\ all \in Menu[n] /\ a.all = all /\ a.late \in BOOLEAN
                 /\ \/ a.got = all
                    \/ \E i \in 0..Len(all) : a.got = SubSeq(all, 1, i)
  <2> DEFINE asked == IF offers[n] = Unasked THEN Menu[n] ELSE {offers[n]}
  <2>1. asked \subseteq Menu[n]
    BY DEF TravInv
  <2>2. PICK all \in asked :
          \/ a = [all |-> all, got |-> all, late |-> FALSE]
          \/ \E i \in 0..Len(all) : a = [all |-> all, got |-> SubSeq(all, 1, i), late |-> TRUE]
    BY DEF Harvests
  <2> HIDE DEF asked
  <2>3. all \in Menu[n]
    BY <2>1
  <2>4. CASE a = [all |-> all, got |-> all, late |-> FALSE]
    <3>1. a.all = all /\ a.got = all /\ a.late = FALSE
      BY <2>4
    <3> QED
      BY <2>3, <3>1
  <2>5. ASSUME NEW i \in 0..Len(all), a = [all |-> all, got |-> SubSeq(all, 1, i), late |-> TRUE]
        PROVE  \E every : /\ every \in Menu[n] /\ a.all = every /\ a.late \in BOOLEAN
                         /\ \/ a.got = every
                            \/ \E j \in 0..Len(every) : a.got = SubSeq(every, 1, j)
    <3>1. a.all = all /\ a.got = SubSeq(all, 1, i) /\ a.late = TRUE
      BY <2>5
    <3> QED
      BY <2>3, <2>5, <3>1
  <2> QED
    BY <2>2, <2>4, <2>5
<1>2. /\ all \in Seq(Hops)
      /\ \A i, j \in DOMAIN all : all[i].to = all[j].to => i = j
  <2>1. Menu[n] \in SUBSET Seq(Hops)
    BY NodesAndMenus DEF Hops
  <2> QED
    BY <1>1, <2>1, NodesAndMenus
<1>3. CASE a.got = all
  BY <1>1, <1>2, <1>3 DEF Distinct
<1>4. CASE \E i \in 0..Len(all) : a.got = SubSeq(all, 1, i)
  <2>1. PICK i \in 0..Len(all) : a.got = SubSeq(all, 1, i)
    BY <1>4
  <2>2. /\ a.got \in Seq(Hops) /\ DOMAIN a.got = 1..i /\ DOMAIN all = 1..Len(all)
        /\ \A j \in 1..i : a.got[j] = all[j] /\ j \in 1..Len(all)
    BY <1>2, <2>1
  <2>3. Distinct(a.got)
    BY <1>2, <2>2 DEF Distinct
  <2> QED
    BY <1>1, <2>2, <2>3
<1> QED
  BY <1>1, <1>3, <1>4

\* Of a stop, only its count and its place are noted.
LEMMA StopIsNoted ==
    ASSUME NEW limit, NEW r, Sound(r, limit)
    PROVE  LET q == [r EXCEPT !.stops = @ + 1, !.lastStop = r.pops]
           IN Sound(q, limit) /\ SpendsNothing(q, r) /\ Extends(q, r)
<1> DEFINE q == [r EXCEPT !.stops = @ + 1, !.lastStop = r.pops]
<1>0. r \in RunType /\ Placed(r) /\ Deep(r, limit)
  BY DEF Sound
<1>1. q \in RunType
  <2>1. r.stops + 1 \in Nat /\ r.pops \in Nat
    BY <1>0 DEF RunType
  <2> QED
    BY <1>0, <2>1, Zenon DEF RunType
<1>2. SameQueue(q, r) /\ SameLedger(q, r) /\ Extends(q, r)
  <2>1. SameQueue(q, r) /\ SameLedger(q, r) /\ q.partial = r.partial
    BY <1>0 DEF RunType, SameQueue, SameLedger
  <2> HIDE DEF q
  <2> QED
    BY <2>1 DEF SameQueue, Extends, Found
<1> HIDE DEF q
<1>3. Placed(q) /\ Deep(q, limit)
  BY <1>0, <1>2, SameQueueIsAsSound
<1>4. q.parent = r.parent /\ q.hops = r.hops
  BY <1>2 DEF SameQueue
<1>5. Sound(q, limit) /\ SpendsNothing(q, r)
  BY <1>1, <1>2, <1>3, <1>4, SoundnessIsKept
<1> QED
  BY <1>2, <1>5 DEF q

\* A walk starts in its inductive invariant.
LEMMA TravInvInit == TravInit => TravInv
<1> SUFFICES ASSUME TravInit PROVE TravInv
  OBVIOUS
<1>1. Sound(run, budget.depth) /\ budget \in Budgets
  BY BudgetsAreNumbers, NewRunIsSound DEF TravInit
<1>2. /\ offers \in [Node -> Menus \cup {Unasked}]
      /\ \A n \in Node : offers[n] # Unasked => offers[n] \in Menu[n]
  <2>1. offers = [n \in Node |-> Unasked]
    BY DEF TravInit
  <2>2. \A n \in Node : offers[n] = Unasked
    BY <2>1
  <2>3. offers \in [Node -> Menus \cup {Unasked}]
    BY <2>1
  <2> QED
    BY <2>2, <2>3
<1> QED
  BY <1>1, <1>2 DEF TravInv, Sound

\* A step that spends nothing is within the budget.
LEMMA SpendingNothingIsWithin ==
    ASSUME TravInv, SpendsNothing(run', run) PROVE SpendsWithin
<1>1. run.tokens \in Nat /\ run.calls \in Nat /\ run.pops \in Nat /\ run.freePops \in Nat
  BY DEF TravInv, RunType
<1> QED
  BY <1>1 DEF SpendsNothing, SpendsWithin

\* Every step keeps the invariant and spends within the budget of its call.
LEMMA TravInvNext == TravInv /\ [TravNext]_travVars => TravInv' /\ (TravNext => SpendsWithin)
<1> SUFFICES ASSUME TravInv, [TravNext]_travVars PROVE TravInv' /\ (TravNext => SpendsWithin)
  OBVIOUS
<1>0. /\ run \in RunType /\ Placed(run) /\ Acyclic(run) /\ Ledger(run)
      /\ budget \in Budgets
      /\ mode \in {"new", "running"} => Deep(run, budget.depth)
      /\ mode \in {"new", "running"} => Sound(run, budget.depth)
      /\ budget.pops \in Nat /\ budget.depth \in Nat /\ budget.tokens \in Nat
      /\ budget.calls \in Nat
  BY BudgetsAreNumbers DEF TravInv, Sound
<1> DEFINE Asked == /\ offers' \in [Node -> Menus \cup {Unasked}]
                    /\ \A n \in Node : offers'[n] # Unasked => offers'[n] \in Menu[n]
<1>1. UNCHANGED offers => Asked
  BY DEF TravInv
<1>2. ASSUME NEW r, NEW limit, Sound(r, limit), SpendsNothing(r, run), NEW how, Ends(r, how),
             budget' \in Budgets, Asked
      PROVE  TravInv' /\ SpendsWithin
  <2>1. run' = r /\ mode' \notin {"new", "running"}
    BY <1>2 DEF Ends
  <2>2. TravInv'
    BY <1>2, <2>1 DEF TravInv, Sound
  <2> QED
    BY <1>2, <2>1, <2>2, SpendingNothingIsWithin
<1>3. ASSUME NEW r, Sound(r, budget'.depth), SpendsNothing(r, run), run' = r,
             budget' \in Budgets, Asked
      PROVE  TravInv' /\ SpendsWithin
  <2>1. TravInv'
    BY <1>3 DEF TravInv, Sound
  <2> QED
    BY <1>3, <2>1, SpendingNothingIsWithin
<1>4. SpendsNothing(run, run)
  BY DEF SpendsNothing
<1>5. CASE Start
  <2> DEFINE q == FoldLeft(LAMBDA r, n : AddSeed(r, n, budget.depth), run, SetToSeq(Seed))
  <2>1. run' = q /\ budget' = budget /\ UNCHANGED offers /\ mode = "new"
    BY <1>5 DEF Start
  <2>2. Sound(q, budget.depth) /\ SpendsNothing(q, run)
    BY <1>0, <2>1, SeedsAreSound
  <2> HIDE DEF q
  <2> QED
    BY <1>0, <1>1, <1>3, <2>1, <2>2
<1>6. ASSUME NEW b \in Budgets, Resume(b) PROVE TravInv' /\ SpendsWithin
  <2> DEFINE q == Restored(run, b.depth)
  <2>0. budget' = b /\ UNCHANGED offers /\ b.depth \in Nat
    BY <1>6, BudgetsAreNumbers DEF Resume
  <2>1. Sound(q, b.depth) /\ SpendsNothing(q, run)
    <3>1. /\ q \in RunType /\ SameLedger(q, run) /\ q.parent = run.parent
          /\ q.hops = run.hops /\ Placed(q) /\ Deep(q, b.depth)
      BY <1>0, <2>0, HeldAreRestored
    <3>2. Sound(run, 0)
      BY <1>0, SoundAtNoDepth
    <3> HIDE DEF q
    <3> QED
      BY <3>1, <3>2, SoundnessIsKept
  <2>2. CASE run' = q
    BY <1>1, <1>3, <2>0, <2>1, <2>2
  <2>3. ASSUME NEW d \in Directives(TRUE),
               \/ Ends(Applied(q, d, b.depth), "stopped")
               \/ run' = Applied(q, d, b.depth)
        PROVE  TravInv' /\ SpendsWithin
    <3> DEFINE s == Applied(q, d, b.depth)
    <3> HIDE DEF q
    <3>1. Sound(s, b.depth) /\ SpendsNothing(s, q)
      BY <2>0, <2>1, DirectivesAreSound
    <3>2. SpendsNothing(s, run)
      BY <2>1, <3>1 DEF SpendsNothing
    <3>3. CASE Ends(s, "stopped")
      BY <1>1, <1>2, <2>0, <3>1, <3>2, <3>3
    <3>4. CASE run' = s
      BY <1>1, <1>3, <2>0, <3>1, <3>2, <3>4
    <3> QED
      BY <2>3, <3>3, <3>4
  <2> QED
    BY <1>6, <2>2, <2>3 DEF Resume
<1>7. CASE EndsDry
  <2>1. Ends(run, "complete") /\ budget' = budget /\ UNCHANGED offers /\ Sound(run, budget.depth)
    BY <1>0, <1>7 DEF EndsDry
  <2> QED
    BY <1>0, <1>1, <1>2, <1>4, <2>1
<1>8. CASE EndsOnBound
  <2>1. Ends(run, "bound") /\ budget' = budget /\ UNCHANGED offers /\ Sound(run, budget.depth)
    BY <1>0, <1>8 DEF EndsOnBound, Goes
  <2> QED
    BY <1>0, <1>1, <1>2, <1>4, <2>1
<1>9. CASE EndsSpent
  <2>1. Ends(run, "exhausted") /\ budget' = budget /\ UNCHANGED offers /\ Sound(run, budget.depth)
    BY <1>0, <1>9 DEF EndsSpent, Goes
  <2> QED
    BY <1>0, <1>1, <1>2, <1>4, <2>1
<1>10. CASE StopsHere
  <2> DEFINE noted == [run EXCEPT !.stops = @ + 1, !.lastStop = run.pops]
  <2>0. budget' = budget /\ UNCHANGED offers /\ Sound(run, budget.depth)
    BY <1>0, <1>10 DEF StopsHere, Goes
  <2>1. Sound(noted, budget.depth) /\ SpendsNothing(noted, run)
    BY <2>0, StopIsNoted
  <2>2. \/ Ends(noted, "stopped")
        \/ \E d \in Directives(FALSE) : \/ Ends(Applied(noted, d, budget.depth), "stopped")
                                        \/ run' = Applied(noted, d, budget.depth)
    BY <1>10 DEF StopsHere
  <2> HIDE DEF noted
  <2>3. CASE Ends(noted, "stopped")
    BY <1>0, <1>1, <1>2, <2>0, <2>1, <2>3
  <2>4. ASSUME NEW d \in Directives(FALSE),
               \/ Ends(Applied(noted, d, budget.depth), "stopped")
               \/ run' = Applied(noted, d, budget.depth)
        PROVE  TravInv' /\ SpendsWithin
    <3> DEFINE s == Applied(noted, d, budget.depth)
    <3>1. Sound(s, budget.depth) /\ SpendsNothing(s, noted)
      BY <1>0, <2>1, DirectivesAreSound
    <3>2. SpendsNothing(s, run)
      BY <2>1, <3>1 DEF SpendsNothing
    <3>3. CASE Ends(s, "stopped")
      BY <1>0, <1>1, <1>2, <2>0, <3>1, <3>2, <3>3
    <3>4. CASE run' = s
      BY <1>0, <1>1, <1>3, <2>0, <3>1, <3>2, <3>4
    <3> QED
      BY <2>4, <3>3, <3>4
  <2> QED
    BY <2>2, <2>3, <2>4
<1>11. CASE Defers
  <2> DEFINE n == First(run)
             q == Holds(Unqueues(run, n), n)
  <2>0. /\ budget' = budget /\ UNCHANGED offers /\ run' = q /\ run.live # {}
        /\ run.depth[n] >= budget.depth /\ Sound(run, budget.depth)
    BY <1>0, <1>11 DEF Defers, Goes
  <2>1. n \in run.live
    BY <1>0, <2>0, FirstIsQueued
  <2> HIDE DEF n
  <2>2. n \in Node /\ n \in Found(run) /\ n \notin run.expanded \cup run.cleared
    BY <1>0, <2>1 DEF Placed, Found, RunType
  <2>3. /\ q \in RunType /\ SameLedger(q, run) /\ SameRoutes(q, run) /\ Placed(q)
        /\ q.deferred = run.deferred \cup {n}
    BY <1>0, <2>2, QueuedIsHeld
  <2> HIDE DEF q
  <2>4. Deep(q, budget.depth) /\ q.parent = run.parent /\ q.hops = run.hops
    <3>1. Deep(run, budget.depth)
      BY <2>0 DEF Sound
    <3> QED
      BY <2>0, <2>3, <3>1 DEF Deep, SameRoutes
  <2>5. Sound(q, budget.depth) /\ SpendsNothing(q, run)
    BY <2>0, <2>3, <2>4, SoundnessIsKept
  <2> QED
    BY <1>0, <1>1, <1>3, <2>0, <2>5
<1>12. CASE Expands
  <2> DEFINE n == First(run)
  <2>0. /\ budget' = budget /\ run.live # {} /\ ~IsSpent(run, budget)
        /\ Sound(run, budget.depth)
    BY <1>0, <1>12 DEF Expands, Goes
  <2>1. n \in run.live /\ n \in Node
    BY <1>0, <2>0, FirstIsQueued DEF RunType
  <2>2. PICK a \in Harvests(n) : \E price \in Prices(run, budget, n, a.late) :
          \E asked \in Confirms(Charged(run, n, price), budget, n, a.got) : \E refused :
             LET p == Popped(run, budget, n, a.got, a.late, price, asked, refused)
             IN /\ offers' = [offers EXCEPT ![n] = a.all]
                /\ IF p.cut THEN Ends(p.run, "exhausted")
                   ELSE run' = p.run /\ UNCHANGED mode
    BY <1>12 DEF Expands
  <2>3. PICK price \in Prices(run, budget, n, a.late) :
          \E asked \in Confirms(Charged(run, n, price), budget, n, a.got) : \E refused :
             LET p == Popped(run, budget, n, a.got, a.late, price, asked, refused)
             IN /\ offers' = [offers EXCEPT ![n] = a.all]
                /\ IF p.cut THEN Ends(p.run, "exhausted")
                   ELSE run' = p.run /\ UNCHANGED mode
    BY <2>2
  <2>11. PICK asked \in Confirms(Charged(run, n, price), budget, n, a.got) : \E refused :
             LET p == Popped(run, budget, n, a.got, a.late, price, asked, refused)
             IN /\ offers' = [offers EXCEPT ![n] = a.all]
                /\ IF p.cut THEN Ends(p.run, "exhausted")
                   ELSE run' = p.run /\ UNCHANGED mode
    BY <2>3
  <2>4. PICK refused :
             LET p == Popped(run, budget, n, a.got, a.late, price, asked, refused)
             IN /\ offers' = [offers EXCEPT ![n] = a.all]
                /\ IF p.cut THEN Ends(p.run, "exhausted")
                   ELSE run' = p.run /\ UNCHANGED mode
    BY <2>11
  <2> DEFINE p == Popped(run, budget, n, a.got, a.late, price, asked, refused)
             q == p.run
  <2>5. /\ offers' = [offers EXCEPT ![n] = a.all] /\ run' = q
        /\ mode' = mode \/ mode' \notin {"new", "running"}
    BY <2>4 DEF Ends
  <2> HIDE DEF n
  <2>6. /\ a.all \in Menu[n] /\ a.late \in BOOLEAN
        /\ a.got \in Seq(Hops) /\ Distinct(a.got)
    BY <2>1, HarvestsAreHops
  <2>7. /\ Sound(q, budget.depth)
        /\ q.tokens > run.tokens => q.tokens <= budget.tokens
        /\ q.calls > run.calls => q.calls <= budget.calls
        /\ q.pops > run.pops => n \notin Connective /\ q.pops <= run.pops + 1
        /\ q.freePops > run.freePops => q.freePops <= run.freePops + 1
    BY <1>0, <2>0, <2>1, <2>6, PopIsSound
  <2> HIDE DEF q
  <2>8. Asked
    <3>1. /\ offers \in [Node -> Menus \cup {Unasked}]
          /\ \A m \in Node : offers[m] # Unasked => offers[m] \in Menu[m]
      BY DEF TravInv
    <3>2. a.all \in Menus \cup {Unasked}
      BY <2>1, <2>6 DEF Menus
    <3>3. offers' \in [Node -> Menus \cup {Unasked}]
      BY <2>5, <3>1, <3>2
    <3>4. ASSUME NEW m \in Node, offers'[m] # Unasked PROVE offers'[m] \in Menu[m]
      BY <2>5, <2>6, <3>1, <3>4
    <3> QED
      BY <3>3, <3>4
  <2>9. TravInv'
    BY <1>0, <2>0, <2>5, <2>7, <2>8 DEF TravInv, Sound
  <2>10. SpendsWithin
    <3>1. /\ run.pops \in Nat /\ run.freePops \in Nat /\ run.raised \in Nat
          /\ q.pops \in Nat /\ q.freePops \in Nat
      BY <1>0, <2>7 DEF RunType, Sound
    <3>2. PopsCap(run, budget) \in Nat
      BY <1>0, <3>1 DEF PopsCap
    <3>3. run.freePops < PopsCap(run, budget)
      BY <2>0, <3>1, <3>2 DEF IsSpent
    <3>4. n \notin Connective => run.pops < PopsCap(run, budget)
      BY <2>0, <3>1, <3>2 DEF IsSpent, n
    <3> HIDE DEF n
    <3> QED
      BY <2>5, <2>7, <3>1, <3>2, <3>3, <3>4 DEF SpendsWithin
  <2> QED
    BY <2>9, <2>10
<1>13. CASE UNCHANGED travVars
  <2>1. TravInv'
    BY <1>13 DEF TravInv, travVars
  <2>2. SpendsWithin
    BY <1>0, <1>4, <1>13, SpendingNothingIsWithin DEF travVars
  <2> QED
    BY <2>1, <2>2
<1> HIDE DEF Asked
<1> QED
  BY <1>5, <1>6, <1>7, <1>8, <1>9, <1>10, <1>11, <1>12, <1>13 DEF TravNext

\* The walk keeps its inductive invariant.
THEOREM WalkKeepsItsInvariant == TravSpec => []TravInv
<1> QED
  BY TravInvInit, TravInvNext, PTL DEF TravSpec

\* What a walk has found and what it has still to do agree: a handle holds what
\* the next call will load, nothing found is lost by a cut, a limit or a
\* resume, and nothing is held back that the limit lets be.
THEOREM WalkLosesNothing == TravSpec => []QueueIsWhole
<1>1. TravInv => QueueIsWhole
  <2> SUFFICES ASSUME TravInv PROVE QueueIsWhole
    OBVIOUS
  <2>0. run \in RunType /\ Placed(run) /\ Acyclic(run) /\ Ledger(run)
    BY DEF TravInv
  <2>1. \A n \in Found(run) : run.parent[n] # None => n \notin Chain(run, run.parent[n])
    <3>1. Found(run) \subseteq Node
      <4>1. run.states \in Seq(Node)
        BY <2>0 DEF RunType
      <4> QED
        BY <4>1 DEF Found, Range
    <3> QED
      BY <2>0, <3>1, NoneHangsFromItself
  <2>2. HandleLoads
    BY <2>0, <2>1 DEF HandleLoads, Placed, Ledger
  <2>3. NothingIsLost
    BY <2>0 DEF NothingIsLost, Placed, Found
  <2>4. DeferredIsDeep
    BY DEF DeferredIsDeep, TravInv, Deep
  <2> QED
    BY <2>2, <2>3, <2>4 DEF QueueIsWhole
<1> QED
  BY <1>1, WalkKeepsItsInvariant, PTL

\* No call gets more of a budget than it was given, the retries of a cut pop
\* and the free pops included, and the calls of a node's expansion are paid
\* once however often it is cut and retried.
THEOREM WalkKeepsItsBudget == TravSpec => BudgetIsKept
<1>1. TravInv => PaysOnce
  BY LedgerPaysOnce DEF TravInv, PaysOnce
<1>2. TravInv /\ TravInv' /\ [TravNext]_travVars => [PaysOnce' /\ SpendsWithin]_travVars
  <2>1. TravInv' => PaysOnce'
    BY <1>1, PTL
  <2> QED
    BY <2>1, TravInvNext
<1> QED
  BY <1>2, WalkKeepsItsInvariant, PTL DEF TravSpec, BudgetIsKept
-----------------------------------------------------------------------------
(* What the bound has fixed.                                               *)

\* What a run's scores are to each other, and that what the bound found settled
\* in this call is fixed.
RanksInv ==
    /\ Kindred(run)
    /\ mode \in {"new", "running"} => HalfDone(run)
    /\ mode = "new" => settled = None
    /\ settled # None /\ ~settled.held =>
          \E C, k : Fixes(run, budget.depth, settled.top, settled.worth, C, k)

\* A run that only has more roots keeps its scores.
LEMMA ExtensionsAreKin ==
    ASSUME NEW r, NEW q, Extends(q, r), Kindred(r)
    PROVE  Kindred(q) /\ (HalfDone(r) => HalfDone(q))
<1>1. Kindred(q)
  BY DEF Extends, Kindred
<1>2. HalfDone(r) => HalfDone(q)
  BY DEF Extends, HalfDone
<1> QED
  BY <1>1, <1>2

\* A call that is resumed finds every state half done whose hops were walked in
\* part.
LEMMA RestoredIsHalfDone ==
    ASSUME NEW r \in RunType, Placed(r), NEW limit \in Nat, Kindred(r)
    PROVE  Kindred(Restored(r, limit)) /\ HalfDone(Restored(r, limit))
<1> DEFINE q == Restored(r, limit)
<1>1. /\ q.states = r.states /\ q.parent = r.parent /\ q.worth = r.worth
      /\ q.partial = {r.parent[n] : n \in Found(r)} \ (r.expanded \cup {None})
      /\ SameLedger(q, r)
  BY HeldAreRestored
<1> HIDE DEF q
<1>2. q.expanded = r.expanded /\ Found(q) = Found(r)
  BY <1>1 DEF SameLedger, Found
<1>3. Kindred(q)
  BY <1>1, <1>2 DEF Kindred
<1>4. HalfDone(q)
  BY <1>1, <1>2 DEF Kindred, HalfDone
<1> QED
  BY <1>3, <1>4 DEF q

\* A walk starts with nothing ranked.
LEMMA RanksInvInit == TravInit => RanksInv
<1> SUFFICES ASSUME TravInit PROVE RanksInv
  OBVIOUS
<1>1. run.parent = [n \in Node |-> None] /\ settled = None
  BY DEF TravInit, NewRun
<1>2. \A n \in Node : run.parent[n] = None
  BY <1>1
<1> QED
  BY <1>1, <1>2 DEF RanksInv, Kindred, HalfDone

\* Every step of a call keeps what the bound has fixed in it.
LEMMA RanksInvNext == TravInv /\ RanksInv /\ [TravNext]_travVars => RanksInv'
<1> SUFFICES ASSUME TravInv, RanksInv, [TravNext]_travVars PROVE RanksInv'
  OBVIOUS
<1>0. /\ run \in RunType /\ Placed(run) /\ Acyclic(run) /\ Ledger(run)
      /\ budget \in Budgets /\ budget.depth \in Nat /\ budget.tokens \in Nat
      /\ budget.calls \in Nat
      /\ mode \in {"new", "running"} => Sound(run, budget.depth)
      /\ Kindred(run) /\ (mode \in {"new", "running"} => HalfDone(run))
      /\ mode = "new" => settled = None
  BY BudgetsAreNumbers DEF TravInv, Sound, RanksInv
\* A call that begins, or a stop in it, settles nothing.
<1>1. ASSUME NEW q, Kindred(q), HalfDone(q), run' = q, settled' = None PROVE RanksInv'
  BY <1>1 DEF RanksInv
\* A call that ends settles nothing more.
<1>2. ASSUME Ends(run, "complete") \/ Ends(run, "bound") \/ Ends(run, "exhausted"),
             UNCHANGED <<budget, settled>>
      PROVE  RanksInv'
  <2>1. run' = run /\ mode' \notin {"new", "running"}
    BY <1>2 DEF Ends
  <2> QED
    BY <1>2, <2>1 DEF RanksInv
<1>3. CASE Start
  <2> DEFINE q == FoldLeft(LAMBDA r, n : AddSeed(r, n, budget.depth), run, SetToSeq(Seed))
  <2>1. run' = q /\ mode = "new" /\ settled' = None
    BY <1>0, <1>3 DEF Start
  <2>2. Extends(q, run)
    BY <1>0, <2>1, SeedsAreSound
  <2> HIDE DEF q
  <2>3. Kindred(q) /\ HalfDone(q)
    BY <1>0, <2>1, <2>2, ExtensionsAreKin
  <2> QED
    BY <1>1, <2>1, <2>3
<1>4. ASSUME NEW b \in Budgets, Resume(b) PROVE RanksInv'
  <2> DEFINE q == Restored(run, b.depth)
  <2>0. settled' = None /\ b.depth \in Nat
    BY <1>4, BudgetsAreNumbers DEF Resume
  <2>1. Kindred(q) /\ HalfDone(q)
    BY <1>0, <2>0, RestoredIsHalfDone
  <2>2. Sound(q, b.depth)
    <3>1. /\ q \in RunType /\ SameLedger(q, run) /\ q.parent = run.parent
          /\ q.hops = run.hops /\ Placed(q) /\ Deep(q, b.depth)
      BY <1>0, <2>0, HeldAreRestored
    <3>2. Sound(run, 0)
      BY <1>0, SoundAtNoDepth
    <3> HIDE DEF q
    <3> QED
      BY <3>1, <3>2, SoundnessIsKept
  <2>3. \/ run' = q
        \/ \E d \in Directives(TRUE) : \/ Ends(Applied(q, d, b.depth), "stopped")
                                       \/ run' = Applied(q, d, b.depth)
    BY <1>4 DEF Resume
  <2> HIDE DEF q
  <2>4. CASE run' = q
    BY <1>1, <2>0, <2>1, <2>4
  <2>5. ASSUME NEW d \in Directives(TRUE), \/ Ends(Applied(q, d, b.depth), "stopped")
                                           \/ run' = Applied(q, d, b.depth)
        PROVE  RanksInv'
    <3> DEFINE s == Applied(q, d, b.depth)
    <3>1. Extends(s, q)
      BY <2>0, <2>2, DirectivesAreSound
    <3>2. run' = s
      BY <2>5 DEF Ends
    <3> HIDE DEF s
    <3>3. Kindred(s) /\ HalfDone(s)
      BY <2>1, <3>1, ExtensionsAreKin
    <3> QED
      BY <1>1, <2>0, <3>2, <3>3
  <2> QED
    BY <2>3, <2>4, <2>5
<1>5. CASE EndsDry
  BY <1>2, <1>5 DEF EndsDry
<1>6. CASE EndsOnBound
  BY <1>2, <1>6 DEF EndsOnBound
<1>7. CASE EndsSpent
  BY <1>2, <1>7 DEF EndsSpent
<1>8. CASE StopsHere
  <2> DEFINE noted == [run EXCEPT !.stops = @ + 1, !.lastStop = run.pops]
  <2>0. Sound(run, budget.depth) /\ HalfDone(run) /\ settled' = None
    BY <1>0, <1>8 DEF StopsHere, Goes
  <2>1. Sound(noted, budget.depth) /\ Extends(noted, run)
    BY <2>0, StopIsNoted
  <2>2. \/ Ends(noted, "stopped")
        \/ \E d \in Directives(FALSE) : \/ Ends(Applied(noted, d, budget.depth), "stopped")
                                        \/ run' = Applied(noted, d, budget.depth)
    BY <1>8 DEF StopsHere
  <2> HIDE DEF noted
  <2>3. Kindred(noted) /\ HalfDone(noted)
    BY <1>0, <2>0, <2>1, ExtensionsAreKin
  <2>4. CASE Ends(noted, "stopped")
    <3>1. run' = noted
      BY <2>4 DEF Ends
    <3> QED
      BY <1>1, <2>0, <2>3, <3>1
  <2>5. ASSUME NEW d \in Directives(FALSE),
               \/ Ends(Applied(noted, d, budget.depth), "stopped")
               \/ run' = Applied(noted, d, budget.depth)
        PROVE  RanksInv'
    <3> DEFINE s == Applied(noted, d, budget.depth)
    <3>1. Extends(s, noted)
      BY <1>0, <2>1, DirectivesAreSound
    <3>2. run' = s
      BY <2>5 DEF Ends
    <3> HIDE DEF s
    <3>3. Kindred(s) /\ HalfDone(s)
      BY <2>3, <3>1, ExtensionsAreKin
    <3> QED
      BY <1>1, <2>0, <3>2, <3>3
  <2> QED
    BY <2>2, <2>4, <2>5
<1>9. CASE Defers
  <2> DEFINE n == First(run)
             q == Holds(Unqueues(run, n), n)
  <2>0. /\ UNCHANGED <<budget, mode, settled>> /\ run' = q /\ run.live # {}
        /\ HalfDone(run)
    BY <1>0, <1>9 DEF Defers, Goes
  <2>1. n \in run.live
    BY <1>0, <2>0, FirstIsQueued
  <2> HIDE DEF n
  <2>2. n \in Node /\ n \in Found(run) /\ n \notin run.expanded \cup run.cleared
    BY <1>0, <2>1 DEF Placed, Found, RunType
  <2>3. SameLedger(q, run) /\ SameRoutes(q, run) /\ q.live = run.live \ {n}
    BY <1>0, <2>2, QueuedIsHeld
  <2> HIDE DEF q
  <2>4. Extends(q, run)
    BY <2>3 DEF SameLedger, SameRoutes, Extends, Found
  <2>5. Kindred(q) /\ HalfDone(q)
    BY <1>0, <2>0, <2>4, ExtensionsAreKin
  <2>6. /\ Found(q) = Found(run) /\ q.cleared = run.cleared /\ q.expanded = run.expanded
        /\ q.parent = run.parent /\ q.depth = run.depth /\ q.worth = run.worth
    BY <2>3 DEF SameLedger, SameRoutes, Found
  <2>7. \A top, was, C, k : Fixes(run, budget.depth, top, was, C, k)
                               => Fixes(q, budget.depth, top, was, C, k)
    BY <2>3, <2>6 DEF Fixes, Closed, Parents, Results
  <2> QED
    BY <1>0, <2>0, <2>5, <2>7 DEF RanksInv
<1>10. CASE Expands
  <2> DEFINE n == First(run)
  <2>0. /\ budget' = budget /\ run.live # {} /\ run.depth[n] < budget.depth
        /\ Sound(run, budget.depth) /\ HalfDone(run) /\ mode = "running"
        /\ settled' = IF settled = None /\ BoundHolds(run)
                      THEN [top |-> TopSet(run), worth |-> run.worth,
                            held |-> TopIsHeld(run, budget.depth)]
                      ELSE settled
    BY <1>0, <1>10 DEF Expands, Goes
  <2>1. n \in run.live /\ n \in Node
    BY <1>0, <2>0, FirstIsQueued DEF RunType
  <2>2. PICK a \in Harvests(n) : \E price \in Prices(run, budget, n, a.late) :
          \E asked \in Confirms(Charged(run, n, price), budget, n, a.got) : \E refused :
             LET p == Popped(run, budget, n, a.got, a.late, price, asked, refused)
             IN IF p.cut THEN Ends(p.run, "exhausted") ELSE run' = p.run /\ UNCHANGED mode
    BY <1>10 DEF Expands
  <2>3. PICK price \in Prices(run, budget, n, a.late) :
          \E asked \in Confirms(Charged(run, n, price), budget, n, a.got) : \E refused :
             LET p == Popped(run, budget, n, a.got, a.late, price, asked, refused)
             IN IF p.cut THEN Ends(p.run, "exhausted") ELSE run' = p.run /\ UNCHANGED mode
    BY <2>2
  <2>4. PICK asked \in Confirms(Charged(run, n, price), budget, n, a.got) : \E refused :
             LET p == Popped(run, budget, n, a.got, a.late, price, asked, refused)
             IN IF p.cut THEN Ends(p.run, "exhausted") ELSE run' = p.run /\ UNCHANGED mode
    BY <2>3
  <2>5. PICK refused :
             LET p == Popped(run, budget, n, a.got, a.late, price, asked, refused)
             IN IF p.cut THEN Ends(p.run, "exhausted") ELSE run' = p.run /\ UNCHANGED mode
    BY <2>4
  <2> DEFINE p == Popped(run, budget, n, a.got, a.late, price, asked, refused)
             q == p.run
  <2>6. /\ run' = q
        /\ p.cut => mode' \notin {"new", "running"}
        /\ ~p.cut => mode' = "running"
    BY <2>0, <2>5 DEF Ends
  <2> HIDE DEF n
  <2>7. /\ a.all \in Menu[n] /\ a.late \in BOOLEAN
        /\ a.got \in Seq(Hops) /\ Distinct(a.got)
    BY <2>1, HarvestsAreHops
  <2>8. RanksStay(q, run, budget.depth, p.cut)
    BY <1>0, <2>0, <2>1, <2>7, PopIsSound
  <2> HIDE DEF p
  <2>9. /\ Kindred(q) /\ (~p.cut => HalfDone(q))
        /\ \A top, was, C, k : Fixes(run, budget.depth, top, was, C, k)
                                  => Fixes(q, budget.depth, top, was, C, k)
    BY <1>0, <2>0, <2>8 DEF RanksStay
  <2>10. ASSUME settled' # None, ~settled'.held
         PROVE  \E C, k : Fixes(run, budget.depth, settled'.top, settled'.worth, C, k)
    <3>1. CASE settled = None /\ BoundHolds(run)
      <4>1. /\ settled'.top = TopSet(run) /\ settled'.worth = run.worth
            /\ settled'.held = TopIsHeld(run, budget.depth)
        BY <2>0, <3>1
      <4>2. \E C, k : Fixes(run, budget.depth, TopSet(run), run.worth, C, k)
        BY <1>0, <2>10, <3>1, <4>1, BoundFixesTheTop
      <4> QED
        BY <4>1, <4>2
    <3>2. CASE ~(settled = None /\ BoundHolds(run))
      BY <2>0, <2>10, <3>2 DEF RanksInv
    <3> QED
      BY <3>1, <3>2
  <2>11. settled' # None /\ ~settled'.held =>
            \E C, k : Fixes(q, budget.depth, settled'.top, settled'.worth, C, k)
    BY <2>9, <2>10
  <2> HIDE DEF q
  <2>12. /\ Kindred(run') /\ (mode' \in {"new", "running"} => HalfDone(run'))
         /\ mode' # "new"
    BY <2>6, <2>9
  <2>13. settled' # None /\ ~settled'.held =>
            \E C, k : Fixes(run', budget'.depth, settled'.top, settled'.worth, C, k)
    BY <2>0, <2>6, <2>11
  <2> QED
    BY <2>12, <2>13 DEF RanksInv
<1>11. CASE UNCHANGED travVars
  BY <1>11 DEF RanksInv, travVars
<1> QED
  BY <1>3, <1>4, <1>5, <1>6, <1>7, <1>8, <1>9, <1>10, <1>11 DEF TravNext

\* Once the bound holds in a call, its top K keep their potential and what is
\* found after can only tie with one of them, however the call goes on: cut
\* expansions, routes that move a state, what hangs from it, and what the
\* depth limit lets through again included.
THEOREM BoundFixesRanks == TravSpec => []BoundKeepsTheTopRanks
<1>1. TravInv /\ RanksInv => BoundKeepsTheTopRanks
  <2> SUFFICES ASSUME TravInv, RanksInv, settled # None, ~settled.held
               PROVE  /\ \A n \in settled.top : run.worth[n] = settled.worth[n]
                      /\ \A n \in TopSet(run) \ settled.top :
                            \E m \in settled.top \ TopSet(run) : run.worth[n] = run.worth[m]
    BY DEF BoundKeepsTheTopRanks
  <2>1. PICK C, k : Fixes(run, budget.depth, settled.top, settled.worth, C, k)
    BY DEF RanksInv
  <2>2. run \in RunType /\ Placed(run)
    BY DEF TravInv
  <2> QED
    BY <2>1, <2>2, FixedTopIsKept
<1>2. TravInit => RanksInv
  BY RanksInvInit
<1>3. TravSpec => []RanksInv
  BY <1>2, RanksInvNext, WalkKeepsItsInvariant, PTL DEF TravSpec
<1> QED
  BY <1>1, <1>3, WalkKeepsItsInvariant, PTL
==============================================================================
