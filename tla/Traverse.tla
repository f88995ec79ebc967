------------------------------ MODULE Traverse ------------------------------
(* The traversal engine: a best-first walk over the code graph that a       *)
(* budget, a deadline or a handler cuts, that a handle resumes, and that    *)
(* must not lose, pay twice or walk twice what the cut left half done.      *)
(*                                                                          *)
(* One run belongs to one task and every step between two awaits is its     *)
(* own, so an expansion is one step; the deadline may pass at any of them.  *)
(* A node has at most one state, so a state is named by its node.  There    *)
(* is one map (`offers`, chosen when a node is first asked and the same on  *)
(* a retry) and no tie-break; the boost over several maps, targets, the     *)
(* reranker, and the text of events and checkpoints are left out.           *)
EXTENDS Integers, FiniteSets, Sequences, SequencesExt

CONSTANTS
    Node, Seed,       \* the nodes, and those a walk starts from
    Connective,       \* files, commits and config keys: free to pop
    Proposing,        \* nodes whose hops the confirmer may be asked about
    Menu,             \* what each node may offer: sequences of [to, value]
    Budgets,          \* what a call may be given: [pops, depth, tokens, calls]
    K,                \* the result limit of the score bound
    MaxStops,         \* StopPolicy::max_stops
    MaxCalls,         \* calls of one walk (the bound of the model)
    MaxSteers,        \* directives of one walk (the bound of the model)
    None, Unasked

ASSUME BudgetsAreCaps ==
    /\ Seed \subseteq Node /\ Connective \subseteq Node /\ K \in Nat \ {0}
    /\ \A b \in Budgets : {b.pops, b.depth, b.tokens, b.calls} \subseteq Nat

\* A code graph is finite, a hop's worth comes in halves of its start's, and
\* fusion leaves one edge to a destination.
ASSUME NodesAndMenus ==
    /\ IsFiniteSet(Node) /\ None \notin Node
    /\ Menu \in [Node -> SUBSET Seq([to : Node, value : 0..2])]
    /\ \A n \in Node : \A edges \in Menu[n] :
          \A i, j \in DOMAIN edges : edges[i].to = edges[j].to => i = j

VARIABLES
    run,       \* the Run of the call, and between calls its snapshot
    budget,    \* what this call was given
    bounding,  \* whether the score bound is on
    mode,      \* "new", "running", "paused" (a handle waits), "over"
    status,    \* how the latest call ended
    handled,   \* a stop was handled in this turn of the loop
    calls,     \* calls of the walk so far
    offers,    \* what a node offers, once asked
    settled,   \* the results when the bound first held in this call
    plain      \* no directive was applied and no call had another depth
travVars == <<run, budget, bounding, mode, status, handled, calls, offers,
              settled, plain>>

-----------------------------------------------------------------------------
\* Potentials are whole multiples of a share small enough for any path the
\* bounds allow, and a hop is worth 0, 1 or 2 halves of what it starts from.
One == 16
Top == 1024
PerEdge == 2
CallTokens == 2
RaisePops == 1

Smaller(a, b) == IF a < b THEN a ELSE b
LeftOf(cap, used) == IF used < cap THEN cap - used ELSE 0

PopsCap(r, b) == b.pops + r.raised
PopsLeft(r, b) == LeftOf(PopsCap(r, b), r.pops)
TokensLeft(r, b) == LeftOf(b.tokens, r.tokens)
CallsLeft(r, b) == LeftOf(b.calls, r.calls)

NewRun == [states |-> <<>>, parent |-> [n \in Node |-> None],
           depth |-> [n \in Node |-> 0], worth |-> [n \in Node |-> 0],
           live |-> {}, priority |-> [n \in Node |-> 0],
           seq |-> [n \in Node |-> 0], next |-> 0,
           inSeen |-> [n \in Node |-> 0], expanded |-> {}, deferred |-> {},
           cleared |-> {}, partial |-> {}, strays |-> {}, owing |-> {},
           paidTokens |-> [n \in Node |-> 0], paidCalls |-> [n \in Node |-> 0],
           pops |-> 0, freePops |-> 0, hops |-> 0, tokens |-> 0, calls |-> 0,
           stops |-> 0, lastStop |-> 0, raised |-> 0, steers |-> 0, confirms |-> 0]

Found(r) == Range(r.states)

\* The states from n up to its root.
Chain(r, n) ==
    LET up[i \in 0..Cardinality(Node)] ==
            IF i = 0 THEN {n}
            ELSE up[i - 1] \cup ({r.parent[m] : m \in up[i - 1]} \ {None})
    IN up[Cardinality(Node)]
Below(r, root) == {n \in Found(r) \ {root} : root \in Chain(r, n)}

-----------------------------------------------------------------------------
(* The frontier: a state is queued once; the best priority goes first, and *)
(* of equal ones the one discovered first.                                 *)
Push(r, n, priority) ==
    IF n \in r.live THEN r
    ELSE [r EXCEPT !.live = @ \cup {n}, !.priority[n] = priority,
                   !.seq[n] = r.next, !.next = @ + 1, !.strays = @ \ {n}]
Unqueues(r, n) ==
    [r EXCEPT !.live = @ \ {n}, !.priority[n] = 0, !.seq[n] = 0]
SetPriority(r, n, priority) ==
    IF n \in r.live THEN [r EXCEPT !.priority[n] = Smaller(priority, Top)] ELSE r
Ahead(r, n, m) ==
    \/ r.priority[n] > r.priority[m]
    \/ r.priority[n] = r.priority[m] /\ r.seq[n] < r.seq[m]
First(r) == CHOOSE n \in r.live : \A m \in r.live \ {n} : Ahead(r, n, m)

Holds(r, n) == [r EXCEPT !.deferred = @ \cup {n}, !.strays = @ \ {n}]
Frees(r, n) == [r EXCEPT !.deferred = @ \ {n}]

AddSeed(r, n, limit) ==
    LET added == [r EXCEPT !.states = Append(@, n), !.worth[n] = One]
    IN IF n \in r.cleared \cup Found(r) THEN r
       ELSE IF limit > 0 THEN Push(added, n, One) ELSE Holds(added, n)

-----------------------------------------------------------------------------
(* A route to a node that has a state already.                             *)

\* The queue follows the new depth of one state below the relaxed root.
Follows(r, n, new, old, limit) ==
    IF n \in r.expanded \cup r.cleared THEN r
    ELSE IF r.depth[n] >= limit THEN Holds(Unqueues(r, n), n)
    ELSE IF n \in r.live THEN SetPriority(r, n, (r.priority[n] * new) \div old)
    ELSE IF n \in r.deferred THEN Push(Frees(r, n), n, r.worth[n])
    ELSE r

\* What hangs from a state that was cut mid-expansion follows its new route.
RescaleBelow(r, root, new, old, limit) ==
    LET below == Below(r, root)
        up == Cardinality(Chain(r, root))
        scaled == [r EXCEPT
            !.worth = [n \in Node |-> IF n \in below THEN (@[n] * new) \div old ELSE @[n]],
            !.depth = [n \in Node |-> IF n \in below
                           THEN r.depth[root] + Cardinality(Chain(r, n)) - up ELSE @[n]]]
    IN FoldLeft(LAMBDA s, n : IF n \in below THEN Follows(s, n, new, old, limit) ELSE s,
                scaled, r.states)

Unblocks(r, n, depth, limit) == n \in r.deferred /\ depth < limit
IsStronger(r, n, potential, depth, limit) ==
    /\ n \notin r.expanded
    /\ \/ Unblocks(r, n, depth, limit)
       \/ potential > r.worth[n] /\ (n \in r.live => depth < limit)

\* Fault variant of Arrive: what hangs from a relaxed state keeps its old route.
ArriveAlone(r, from, n, potential, limit) ==
    LET depth == r.depth[from] + 1
        moved == [r EXCEPT !.parent[n] = from, !.depth[n] = depth, !.worth[n] = potential]
    IN IF ~IsStronger(r, n, potential, depth, limit) THEN r
       ELSE IF Unblocks(r, n, depth, limit) THEN Push(Frees(moved, n), n, potential)
       ELSE SetPriority(moved, n, potential)
Arrive(r, from, n, potential, limit) ==
    LET depth == r.depth[from] + 1
        old == r.worth[n]
        moved == [r EXCEPT !.parent[n] = from, !.depth[n] = depth, !.worth[n] = potential]
        placed ==
            IF Unblocks(r, n, depth, limit) THEN Push(Frees(moved, n), n, potential)
            ELSE IF r.priority[n] # old /\ old > 0
                 THEN SetPriority(moved, n, (r.priority[n] * potential) \div old)
                 ELSE SetPriority(moved, n, potential)
    IN IF ~IsStronger(r, n, potential, depth, limit) THEN r
       ELSE IF n \in r.partial /\ old > 0
            THEN RescaleBelow(placed, n, potential, old, limit)
            ELSE placed

Adopt(r, from, n, potential, limit) ==
    LET depth == r.depth[from] + 1
        added == [r EXCEPT !.states = Append(@, n), !.parent[n] = from,
                           !.depth[n] = depth, !.worth[n] = potential,
                           !.hops = @ + 1]
    IN IF depth < limit THEN Push(added, n, potential) ELSE Holds(added, n)
-----------------------------------------------------------------------------
(* One expansion: the maps answer `got` at a price, then the confirmer may  *)
(* be asked and may refuse a hop, then the hops the tokens afford are       *)
(* adopted and every other route arrives, in order.                         *)

\* A map makes its call when it was given one, those an earlier run of the
\* same pop paid for included; one that fails reports no cost.
Full(r, b, n) ==
    [tokens |-> CallTokens, calls |-> Smaller(1, CallsLeft(r, b) + r.paidCalls[n])]
Prices(r, b, n, late) ==
    {Full(r, b, n)} \cup (IF late THEN {[tokens |-> 0, calls |-> 0]} ELSE {})
\* Fault variant of OwedTokens: a retry is charged in full.
OwedTokensAgain(r, n, price) == price.tokens
OwedTokens(r, n, price) == LeftOf(price.tokens, r.paidTokens[n])
OwedCalls(r, n, price) == LeftOf(price.calls, r.paidCalls[n])
Charged(r, n, price) == [r EXCEPT !.calls = @ + OwedCalls(r, n, price)]
IsDropped(r, b, n, price) == OwedTokens(r, n, price) > TokensLeft(r, b)

Counts(r, edges, by) ==
    [r EXCEPT !.inSeen = [m \in Node |->
        @[m] + by * Cardinality({i \in DOMAIN edges : edges[i].to = m})]]
\* The hops that lead nowhere in `gone`, in their order.
Without(edges, gone) ==
    FoldLeft(LAMBDA kept, e : IF e.to \in gone THEN kept ELSE Append(kept, e), <<>>, edges)
Offered(r, got) == Without(got, r.cleared)
Kept(r, n, got) == Without(Offered(r, got), Chain(r, n))

Adopted(s) == s.run.hops - s.before
TakesHop(s, e, r, b, n, affordable) ==
    LET potential == (r.worth[n] * e.value) \div 2
    IN IF e.to \in Found(r)
       THEN [s EXCEPT !.run = Arrive(@, n, e.to, potential, b.depth)]
       ELSE IF Adopted(s) >= affordable THEN [s EXCEPT !.truncated = TRUE]
       ELSE [s EXCEPT !.run = Adopt(@, n, e.to, potential, b.depth)]
Walks(r, b, n, steps, affordable) ==
    FoldLeft(LAMBDA s, e : TakesHop(s, e, r, b, n, affordable),
             [run |-> r, before |-> r.hops, truncated |-> FALSE], steps)

\* What is paid is kept for the retry of a pop that was cut.
Owes(r, n, tokens, externals) ==
    [r EXCEPT !.owing = @ \cup {n}, !.paidTokens[n] = tokens, !.paidCalls[n] = externals]
Settles(r, n) ==
    [r EXCEPT !.owing = @ \ {n}, !.paidTokens[n] = 0, !.paidCalls[n] = 0,
              !.partial = @ \ {n}]
Larger(a, b) == IF a > b THEN a ELSE b

\* [run, cut, adopted]: the run after the expansion, whether it was cut, and
\* whether some of its work was adopted.
Expand(r, b, n, got, late, price, asked, refused) ==
    LET paid == Charged(r, n, price)
        owed == OwedTokens(r, n, price)
        externals == Larger(price.calls, r.paidCalls[n])
        counted == Counts(paid, Offered(r, got), 1)
        confirmed == [counted EXCEPT !.calls = @ + asked, !.confirms = @ + asked]
        steps == Without(Kept(r, n, got), refused)
        walked == Walks(confirmed, b, n, steps, (TokensLeft(r, b) - owed) \div PerEdge)
        done == [walked.run EXCEPT !.tokens = @ + owed + Adopted(walked) * PerEdge]
        cut == walked.truncated \/ late
        left == Counts(Owes(done, n, Larger(price.tokens, r.paidTokens[n]), externals),
                       Offered(r, got), -1)
    IN IF IsDropped(r, b, n, price)
       THEN [run |-> IF OwedCalls(r, n, price) > 0
                     THEN Owes(paid, n, r.paidTokens[n], externals) ELSE paid,
             cut |-> TRUE, adopted |-> FALSE]
       ELSE IF ~cut THEN [run |-> Settles(done, n), cut |-> FALSE, adopted |-> TRUE]
       ELSE [run |-> IF Adopted(walked) > 0
                     THEN [left EXCEPT !.partial = @ \cup {n}] ELSE left,
             cut |-> TRUE, adopted |-> Adopted(walked) > 0 \/ late]

Pops(r, n) ==
    LET taken == [Unqueues(r, n) EXCEPT !.expanded = @ \cup {n}]
    IN IF n \in Connective THEN [taken EXCEPT !.freePops = @ + 1]
       ELSE [taken EXCEPT !.pops = @ + 1]

\* Fault variants of Requeues: the wrong count is taken back; the state goes
\* to the end of the queue.
RequeuesMiscounted(r, n, priority, seq, adopted) ==
    LET back == [r EXCEPT !.expanded = @ \ {n}, !.live = @ \cup {n},
                          !.priority[n] = priority, !.seq[n] = seq]
    IN IF adopted THEN back ELSE [back EXCEPT !.pops = @ - 1]
RequeuesLast(r, n, priority, seq, adopted) ==
    Push([r EXCEPT !.expanded = @ \ {n}], n, priority)
\* A pop that was cut goes back to its old place, and is no pop at all when
\* it adopted nothing.
Requeues(r, n, priority, seq, adopted) ==
    LET back == [r EXCEPT !.expanded = @ \ {n}, !.live = @ \cup {n},
                          !.priority[n] = priority, !.seq[n] = seq]
    IN IF adopted THEN back
       ELSE IF n \in Connective THEN [back EXCEPT !.freePops = @ - 1]
       ELSE [back EXCEPT !.pops = @ - 1]

Popped(r, b, n, got, late, price, asked, refused) ==
    LET e == Expand(Pops(r, n), b, n, got, late, price, asked, refused)
    IN IF e.cut
       THEN [run |-> Requeues(e.run, n, r.priority[n], r.seq[n], e.adopted), cut |-> TRUE]
       ELSE [run |-> e.run, cut |-> FALSE]

-----------------------------------------------------------------------------
(* The score bound: nothing queued can outrank the K-th result.            *)
Results(r) == {n \in Found(r) \ r.cleared : r.parent[n] # None}
IndexOf(r, n) == CHOOSE i \in DOMAIN r.states : r.states[i] = n
Outranks(r, n, m) ==
    \/ r.worth[n] > r.worth[m]
    \/ r.worth[n] = r.worth[m] /\ IndexOf(r, n) < IndexOf(r, m)
TopSet(r) ==
    {n \in Results(r) : Cardinality({m \in Results(r) : Outranks(r, m, n)}) < K}
\* Some route to the top leads through a state that the depth limit keeps from
\* being expanded.
TopIsHeld(r, limit) ==
    \E n \in TopSet(r) : \E m \in Chain(r, n) \ (r.expanded \cup r.cleared) :
        r.depth[m] >= limit
\* Fault variant of BoundHolds: a queued state is taken for what its priority is.
BoundHoldsByPriority(r) ==
    /\ Cardinality(Results(r)) >= K
    /\ \A n \in r.live, m \in TopSet(r) : r.priority[n] <= r.worth[m]
BoundHolds(r) ==
    /\ Cardinality(Results(r)) >= K
    /\ \A n \in r.live, m \in TopSet(r) : r.worth[n] <= r.worth[m]

-----------------------------------------------------------------------------
(* What a handler at a stop, or the agent between two calls, may direct.   *)
Directives(agent) ==
    [do : {"continue", "prune", "expand", "boost", "fade", "redirect"}, node : Node]
        \cup [do : {"stop"} \cup (IF agent THEN {"raise"} ELSE {}), node : {None}]

Redirects(r, n, limit) ==
    LET emptied == [r EXCEPT !.live = {}, !.strays = @ \cup r.live,
                             !.priority = [m \in Node |-> 0],
                             !.seq = [m \in Node |-> 0]]
    IN IF n \in r.cleared \cup r.expanded THEN emptied
       ELSE IF n \notin Found(r) THEN AddSeed(emptied, n, limit)
       ELSE IF r.depth[n] >= limit THEN Holds(emptied, n)
       ELSE Push(Frees(emptied, n), n, r.worth[n])

TakesEffect(r, d) ==
    CASE d.do \in {"continue", "prune", "expand", "boost", "fade"} -> d.node \in r.live
      [] OTHER -> TRUE
Applied(r, d, limit) ==
    LET n == d.node
        counted == [r EXCEPT !.steers = @ + 1]
    IN IF ~TakesEffect(r, d) THEN r
       ELSE CASE d.do = "prune" -> [Unqueues(counted, n) EXCEPT !.cleared = @ \cup {n}]
              [] d.do = "expand" -> SetPriority(counted, n, Top)
              [] d.do = "boost" -> SetPriority(counted, n, 2 * r.priority[n])
              [] d.do = "fade" -> SetPriority(counted, n, 0)
              [] d.do = "redirect" -> Redirects(counted, n, limit)
              [] d.do = "raise" -> [counted EXCEPT !.raised = RaisePops]
              [] OTHER -> counted

-----------------------------------------------------------------------------
TravInit ==
    /\ run = NewRun /\ budget \in Budgets /\ bounding \in BOOLEAN
    /\ mode = "new" /\ status = "none" /\ handled = FALSE /\ calls = 0
    /\ offers = [n \in Node |-> Unasked] /\ settled = None /\ plain = TRUE

\* The first call: its seeds are queued.
Start ==
    /\ mode = "new"
    /\ run' = FoldLeft(LAMBDA r, n : AddSeed(r, n, budget.depth), run, SetToSeq(Seed))
    /\ mode' = "running" /\ calls' = 1
    /\ UNCHANGED <<budget, bounding, status, handled, offers, settled, plain>>

\* Fault variant of Restored: what the limit still holds back is dropped.
RestoredShallow(r, limit) ==
    LET fresh == [r EXCEPT !.deferred = {},
            !.partial = {r.parent[n] : n \in Found(r)} \ (r.expanded \cup {None})]
    IN FoldLeft(LAMBDA s, n : IF n \in r.deferred /\ r.depth[n] < limit
                             THEN Push(s, n, r.worth[n]) ELSE s, fresh, r.states)
\* A later call of the handle: what the depth limit held back is queued when
\* this call's limit lets it be.
Restored(r, limit) ==
    LET fresh == [r EXCEPT
            !.partial = {r.parent[n] : n \in Found(r)} \ (r.expanded \cup {None})]
    IN FoldLeft(LAMBDA s, n :
                   IF n \in r.deferred \ r.cleared /\ r.depth[n] < limit
                   THEN Push(Frees(s, n), n, r.worth[n]) ELSE s,
                fresh, r.states)

Ends(r, how) ==
    /\ run' = r /\ status' = how /\ handled' = FALSE
    /\ mode' = IF how \in {"stopped", "exhausted"} /\ r.live # {} THEN "paused" ELSE "over"

Resume(b) ==
    /\ mode = "paused" /\ calls < MaxCalls
    /\ calls' = calls + 1 /\ budget' = b /\ settled' = None
    /\ \/ /\ run' = Restored(run, b.depth) /\ mode' = "running"
          /\ plain' = (plain /\ b.depth = budget.depth)
          /\ UNCHANGED <<status, handled>>
       \/ \E d \in Directives(TRUE) :
            /\ run.steers < MaxSteers
            /\ plain' = FALSE
            /\ IF d.do = "stop"
               THEN Ends(Applied(Restored(run, b.depth), d, b.depth), "stopped")
               ELSE /\ run' = Applied(Restored(run, b.depth), d, b.depth)
                    /\ mode' = "running" /\ UNCHANGED <<status, handled>>
    /\ UNCHANGED <<bounding, offers>>

Goes == mode = "running" /\ run.live # {}
BoundEnds == bounding /\ ~handled /\ BoundHolds(run)

EndsDry ==
    /\ mode = "running" /\ run.live = {}
    /\ Ends(run, "complete")
    /\ UNCHANGED <<budget, bounding, calls, offers, settled, plain>>

EndsOnBound ==
    /\ Goes /\ BoundEnds
    /\ Ends(run, "bound")
    /\ UNCHANGED <<budget, bounding, calls, offers, settled, plain>>

\* A trigger is due: the handler decides, and the walk goes on in this turn
\* of the loop unless it stops or escalates to the agent.
StopsHere ==
    /\ Goes /\ ~BoundEnds /\ ~handled
    /\ run.pops > 0 /\ run.lastStop # run.pops /\ run.stops < MaxStops
    /\ LET noted == [run EXCEPT !.stops = @ + 1, !.lastStop = run.pops]
       IN \/ Ends(noted, "stopped") /\ plain' = plain
          \/ \E d \in Directives(FALSE) :
               /\ run.steers < MaxSteers
               /\ plain' = FALSE
               /\ IF d.do = "stop" THEN Ends(Applied(noted, d, budget.depth), "stopped")
                  ELSE /\ run' = Applied(noted, d, budget.depth) /\ handled' = TRUE
                       /\ UNCHANGED <<mode, status>>
    /\ settled' = None
    /\ UNCHANGED <<budget, bounding, calls, offers>>

IsSpent(r, b) ==
    \/ r.freePops >= PopsCap(r, b)
    \/ r.pops >= PopsCap(r, b) /\ First(r) \notin Connective
    \/ TokensLeft(r, b) = 0

\* A cap is reached, or the deadline has passed.
EndsSpent ==
    /\ Goes /\ ~BoundEnds
    /\ Ends(run, "exhausted")
    /\ UNCHANGED <<budget, bounding, calls, offers, settled, plain>>

\* This call's depth limit holds for what an earlier call queued.
Defers ==
    /\ Goes /\ ~BoundEnds /\ ~IsSpent(run, budget)
    /\ run.depth[First(run)] >= budget.depth
    /\ run' = Holds(Unqueues(run, First(run)), First(run))
    /\ handled' = FALSE
    /\ UNCHANGED <<budget, bounding, mode, status, calls, offers, settled, plain>>

\* The maps answer in full, or the deadline passes and some of their edges
\* are missing.
Harvests(n) ==
    LET asked == IF offers[n] = Unasked THEN Menu[n] ELSE {offers[n]}
    IN {[all |-> all, got |-> all, late |-> FALSE] : all \in asked}
        \cup UNION {{[all |-> all, got |-> SubSeq(all, 1, i), late |-> TRUE]
                        : i \in 0..Len(all)} : all \in asked}

Confirms(r, b, n, got) ==
    IF n \in Proposing /\ CallsLeft(r, b) > 0 /\ Kept(r, n, got) # <<>> THEN 0..1 ELSE {0}

Expands ==
    /\ Goes /\ ~BoundEnds /\ ~IsSpent(run, budget)
    /\ run.depth[First(run)] < budget.depth
    /\ settled' = IF settled = None /\ BoundHolds(run)
                  THEN [top |-> TopSet(run), worth |-> run.worth,
                        held |-> TopIsHeld(run, budget.depth)]
                  ELSE settled
    /\ LET n == First(run)
       IN \E a \in Harvests(n) : \E price \in Prices(run, budget, n, a.late) :
            LET left == Charged(run, n, price)
            IN \E asked \in Confirms(left, budget, n, a.got) :
               \E refused \in {{}} \cup (IF asked > 0 THEN {{e.to} : e \in Range(a.got)}
                                          ELSE {}) :
                 LET p == Popped(run, budget, n, a.got, a.late, price, asked, refused)
                 IN /\ offers' = [offers EXCEPT ![n] = a.all]
                    /\ plain' = (plain /\ refused = {})
                    /\ IF p.cut THEN Ends(p.run, "exhausted")
                       ELSE /\ run' = p.run /\ handled' = FALSE
                            /\ UNCHANGED <<mode, status>>
    /\ UNCHANGED <<budget, bounding, calls>>

TravNext ==
    \/ Start
    \/ \E b \in Budgets : Resume(b)
    \/ EndsDry \/ EndsOnBound \/ StopsHere \/ EndsSpent \/ Defers \/ Expands

TravSpec == TravInit /\ [][TravNext]_travVars
-----------------------------------------------------------------------------
\* The records have their fields, and every count of the walk is a number.
TravTypeOK ==
    /\ run.states \in Seq(Node) /\ DOMAIN run = DOMAIN NewRun
    /\ run.parent \in [Node -> Node \cup {None}]
    /\ run.depth \in [Node -> 0..Cardinality(Node)]
    /\ run.worth \in [Node -> 0..One] /\ run.inSeen \in [Node -> 0..Cardinality(Node)]
    /\ run.priority \in [Node -> 0..Top]
    /\ run.paidTokens \in [Node -> {0, CallTokens}] /\ run.paidCalls \in [Node -> 0..1]
    /\ {run.pops, run.freePops, run.hops, run.tokens, run.calls} \subseteq Nat
    /\ mode \in {"new", "running", "paused", "over"}

\* What a call leaves in its handle, the next call loads: from_json refuses a
\* parent cycle, a state that is two of queued, expanded and deferred, one
\* that is expanded but owes a retry, and a discovery number past the next
\* (handle.rs).
HandleLoads ==
    mode = "paused" =>
        /\ IsInjective(run.states)
        /\ \A n \in Found(run) : run.parent[n] # None => n \notin Chain(run, run.parent[n])
        /\ run.live \cap run.expanded = {}
        /\ run.deferred \cap (run.live \cup run.expanded) = {}
        /\ run.owing \cap run.expanded = {}
        /\ \A n \in run.live : run.seq[n] < run.next

\* A state that was found and not pruned is expanded or waits to be: a cut, a
\* depth limit and a resume leave it queued or held, and only a redirect may
\* leave it out.
NothingIsLost ==
    Found(run) \ run.cleared \subseteq
        run.expanded \cup run.live \cup run.deferred \cup run.strays

\* No state is held back that this call's depth limit would let be expanded.
DeferredIsDeep ==
    mode = "running" => \A n \in run.deferred : run.depth[n] >= budget.depth

\* What a walk has found and what it still has to do agree, at every cut and
\* in every handle.
QueueIsWhole == HandleLoads /\ NothingIsLost /\ DeferredIsDeep

\* A state's potential and depth are those of the route it hangs on, also
\* after its parent was cut, relaxed and walked again.  Not when the potential
\* was 0: then there is no ratio to follow by, and its depth stays behind.
RouteIsItsProduct ==
    \A n \in Found(run) : LET p == run.parent[n] IN
        p # None /\ run.worth[n] > 0 =>
            \E e \in Range(offers[p]) :
                /\ e.to = n /\ run.worth[n] = (run.worth[p] * e.value) \div 2
                /\ run.depth[n] = run.depth[p] + 1

\* A node pays for the calls of its expansion once, however often it is cut
\* and expanded again: a retry owes only the difference.
PaysOnce ==
    LET asked == Cardinality(run.expanded \cup run.owing)
    IN /\ run.tokens <= PerEdge * run.hops + CallTokens * asked
       /\ run.calls - run.confirms <= asked

\* No count grows past the cap of the call that grows it, the retries of a
\* cut pop and the free pops included.
SpendsWithin ==
    /\ run'.tokens > run.tokens => run'.tokens <= budget.tokens
    /\ run'.calls > run.calls => run'.calls <= budget.calls
    /\ run'.pops > run.pops => run'.pops <= PopsCap(run, budget)
    /\ run'.freePops > run.freePops => run'.freePops <= PopsCap(run, budget)

\* No call gets more of a budget than it was given, and none is paid for twice.
BudgetIsKept == [][PaysOnce' /\ SpendsWithin]_travVars

\* The in-degree a hop is priced by counts a finished expansion once, and one
\* that was put back not at all.
SeenCountsFinished ==
    \A n \in Node \ run.cleared :
        run.inSeen[n] = Cardinality({m \in run.expanded :
                                        \E e \in Range(offers[m]) : e.to = n})

\* What ranks a state is what its route makes it: no cut leaves a trace in it.
PricesAreExact == RouteIsItsProduct /\ SeenCountsFinished

\* Once the bound has held, whatever the walk still finds can only tie with a
\* result of the top K, and those keep their potential.  Not when the depth
\* limit holds back, or is about to hold back, a state that one of them hangs
\* from: a shorter route takes that state whatever the route is worth.
BoundKeepsTheTopRanks ==
    settled # None /\ ~settled.held =>
        /\ \A n \in settled.top : run.worth[n] = settled.worth[n]
        /\ \A n \in TopSet(run) \ settled.top :
              \E m \in settled.top \ TopSet(run) : run.worth[n] = run.worth[m]

\* "The bound fixes the top-k set, not the order inside it" (stop.rs).
BoundFixesTheTopSet == settled # None => TopSet(run) = settled.top

\* The walk no call cut: every node of the queue expanded in full, in turn.
Rich == [pops |-> Top, depth |-> budget.depth, tokens |-> Top, calls |-> 0]
Straight ==
    LET walk[i \in 0..Cardinality(Node)] ==
            IF i = 0
            THEN FoldLeft(LAMBDA r, n : AddSeed(r, n, budget.depth), NewRun, SetToSeq(Seed))
            ELSE LET r == walk[i - 1] IN
                 IF r.live = {} \/ offers[First(r)] = Unasked THEN r
                 ELSE Popped(r, Rich, First(r), offers[First(r)], FALSE,
                             [tokens |-> 0, calls |-> 0], 0, {}).run
    IN walk[Cardinality(Node)]

\* A walk that was cut and resumed to its end found the same states, by the
\* same routes, as the walk no call cut.
PausesChangeNothing ==
    mode = "over" /\ status = "complete" /\ plain =>
        \A field \in {"states", "parent", "worth", "depth", "expanded"} :
            run[field] = Straight[field]
=============================================================================
