----------------------------- MODULE ModelClients -----------------------------
(* Calls of a model service over HTTP: the embedder, the reranker or the     *)
(* typed rescorer, each behind a connect breaker of its own.  A call checks  *)
(* the breaker once, makes one attempt or (indexing) up to MaxAttempts, and  *)
(* trips or clears the breaker by what came back.  Calls overlap, so what an *)
(* attempt met may be old news by the time its call hears of it.             *)
(*                                                                          *)
(* One service; bodies, keys and URLs are left out: an answer is good or     *)
(* bad.  The rescorer's shortlist goes in Batches requests of one call.      *)
EXTENDS Integers, FiniteSets

CONSTANTS
    Indexer,       \* calls that embed documents (RetryPolicy::Retry)
    Searcher,      \* calls of a search (RetryPolicy::FailFast)
    MaxAttempts,   \* MAX_ATTEMPTS
    Window,        \* the breaker's window, in ticks
    Batches        \* requests of one search call

ASSUME ClientsAreApart == Indexer \cap Searcher = {}
ASSUME ClientsAreBounded ==
    MaxAttempts \in Nat \ {0} /\ Window \in Nat \ {0} /\ Batches \in Nat \ {0}

ModelCall == Indexer \cup Searcher

VARIABLES
    up,         \* the service accepts connections
    open,       \* ticks the breaker stays open, 0 when it is not
    refusedAgo, \* ticks since a call last ended on a refused connection
    stage,      \* where each call is
    policy,     \* its retry policy
    tries,      \* attempts of its current request
    met,        \* what its attempt met at the service
    batch,      \* the request it is at
    scored,     \* the requests of it that were answered well
    probing     \* it began while the breaker was open
clientVars == <<up, open, refusedAgo, stage, policy, tries, met, batch, scored, probing>>

Ended == {"idle", "skipped", "failed", "answered"}
Faults == {"refused", "timeout", "dropped", "broken"}
Transient == Faults \ {"broken"}
Sends(c) == IF c \in Indexer THEN 1 ELSE Batches

ClientInit ==
    /\ up \in BOOLEAN /\ open = 0 /\ refusedAgo = Window
    /\ stage = [c \in ModelCall |-> "idle"] /\ policy = [c \in ModelCall |-> "FailFast"]
    /\ tries = [c \in ModelCall |-> 0] /\ met = [c \in ModelCall |-> "none"]
    /\ batch = [c \in ModelCall |-> 0] /\ scored = [c \in ModelCall |-> {}]
    /\ probing = {}

-----------------------------------------------------------------------------
\* While the breaker is open a search's call is skipped, and an index run
\* makes one probe of it without retries.
PolicyOf(c) == IF c \in Indexer /\ open = 0 THEN "Retry" ELSE "FailFast"

CallSkips(c) ==
    /\ stage[c] \in Ended /\ c \in Searcher /\ open > 0
    /\ stage' = [stage EXCEPT ![c] = "skipped"]
    /\ scored' = [scored EXCEPT ![c] = {}]
    /\ UNCHANGED <<up, open, refusedAgo, policy, tries, met, batch, probing>>

CallBegins(c) ==
    /\ stage[c] \in Ended /\ (c \in Searcher => open = 0)
    /\ stage' = [stage EXCEPT ![c] = "sending"]
    /\ policy' = [policy EXCEPT ![c] = PolicyOf(c)]
    /\ tries' = [tries EXCEPT ![c] = 1] /\ batch' = [batch EXCEPT ![c] = 1]
    /\ scored' = [scored EXCEPT ![c] = {}]
    /\ probing' = IF open > 0 THEN probing \cup {c} ELSE probing \ {c}
    /\ UNCHANGED <<up, open, refusedAgo, met>>

\* What the attempt meets at the service; its call hears of it later.
AttemptMeets(c) ==
    /\ stage[c] = "sending"
    /\ \E what \in {"timeout", "broken"} \cup
                   (IF up THEN {"response", "dropped"} ELSE {"refused"}) :
           met' = [met EXCEPT ![c] = what]
    /\ stage' = [stage EXCEPT ![c] = "met"]
    /\ UNCHANGED <<up, open, refusedAgo, policy, tries, batch, scored, probing>>

\* Fault variant of Retries: the first attempt does not count.
RetriesOnceMore(c) ==
    policy[c] = "Retry" /\ tries[c] <= MaxAttempts /\ met[c] \in Transient
Retries(c) == policy[c] = "Retry" /\ tries[c] < MaxAttempts /\ met[c] \in Transient

BacksOff(c) ==
    /\ stage[c] = "met" /\ Retries(c)
    /\ stage' = [stage EXCEPT ![c] = "sleeping"]
    /\ UNCHANGED <<up, open, refusedAgo, policy, tries, met, batch, scored, probing>>

TriesAgain(c) ==
    /\ stage[c] = "sleeping"
    /\ stage' = [stage EXCEPT ![c] = "sending"] /\ tries' = [tries EXCEPT ![c] = @ + 1]
    /\ UNCHANGED <<up, open, refusedAgo, policy, met, batch, scored, probing>>

\* The service answered, even with an error status: it is reachable.
HearsAnswer(c) ==
    /\ stage[c] = "met" /\ met[c] = "response"
    /\ open' = 0
    /\ stage' = [stage EXCEPT ![c] = "reading"]
    /\ UNCHANGED <<up, refusedAgo, policy, tries, met, batch, scored, probing>>

\* Fault variant of Trips: a slow service is taken for one that is down.
TripsOnTimeout(c) == met[c] \in {"refused", "timeout"}
Trips(c) == met[c] = "refused"

CallFails(c) ==
    /\ stage[c] = "met" /\ met[c] \in Faults /\ ~Retries(c)
    /\ open' = IF Trips(c) THEN Window ELSE open
    /\ refusedAgo' = IF met[c] = "refused" THEN 0 ELSE refusedAgo
    /\ stage' = [stage EXCEPT ![c] = "failed"]
    /\ UNCHANGED <<up, policy, tries, met, batch, scored, probing>>

\* The status, the body and its checks: an answer that is not good fails the
\* whole call; a good one may leave another request of the call to be sent.
CallReads(c) ==
    /\ stage[c] = "reading"
    /\ \/ /\ stage' = [stage EXCEPT ![c] = "failed"]
          /\ UNCHANGED <<batch, tries, scored>>
       \/ /\ scored' = [scored EXCEPT ![c] = @ \cup {batch[c]}]
          /\ IF batch[c] < Sends(c)
             THEN /\ stage' = [stage EXCEPT ![c] = "sending"]
                  /\ batch' = [batch EXCEPT ![c] = @ + 1] /\ tries' = [tries EXCEPT ![c] = 1]
             ELSE stage' = [stage EXCEPT ![c] = "answered"] /\ UNCHANGED <<batch, tries>>
    /\ UNCHANGED <<up, open, refusedAgo, policy, met, probing>>

\* The caller drops the call: no breaker hears of what it met.
CallDropped(c) ==
    /\ stage[c] \notin Ended
    /\ stage' = [stage EXCEPT ![c] = "idle"]
    /\ UNCHANGED <<up, open, refusedAgo, policy, tries, met, batch, scored, probing>>

\* Fault variant of WindowPasses: the window is measured from the latest check.
WindowRenewed == open
WindowPasses == IF open > 0 THEN open - 1 ELSE 0

ClockTicks ==
    /\ open > 0 \/ refusedAgo < Window
    /\ open' = WindowPasses
    /\ refusedAgo' = IF refusedAgo < Window THEN refusedAgo + 1 ELSE Window
    /\ UNCHANGED <<up, stage, policy, tries, met, batch, scored, probing>>

ServiceTurns ==
    /\ up' = ~up
    /\ UNCHANGED <<open, refusedAgo, stage, policy, tries, met, batch, scored, probing>>

CallGoesOn(c) ==
    AttemptMeets(c) \/ BacksOff(c) \/ TriesAgain(c) \/ HearsAnswer(c) \/ CallFails(c)
        \/ CallReads(c)
ClientNext ==
    \/ \E c \in ModelCall : CallSkips(c) \/ CallBegins(c) \/ CallGoesOn(c) \/ CallDropped(c)
    \/ ClockTicks \/ ServiceTurns

ClientSpec == ClientInit /\ [][ClientNext]_clientVars

\* Every request has a timeout, a backoff is a timer, and time passes.
ClientFairness ==
    /\ \A c \in ModelCall : WF_clientVars(CallGoesOn(c))
    /\ WF_clientVars(ClockTicks)
-----------------------------------------------------------------------------
\* Each call is at a step of send_with_retry or of its body, with the counts the
\* constants bound, and the breaker's window is a number of ticks.
ClientTypeOK ==
    /\ up \in BOOLEAN /\ open \in 0..Window /\ refusedAgo \in 0..Window
    /\ stage \in [ModelCall -> Ended \cup {"sending", "met", "sleeping", "reading"}]
    /\ policy \in [ModelCall -> {"Retry", "FailFast"}] /\ probing \subseteq ModelCall
    /\ tries \in [ModelCall -> 0..MaxAttempts] /\ met \in [ModelCall -> Faults \cup {"none", "response"}]
    /\ batch \in [ModelCall -> 0..Batches] /\ scored \in [ModelCall -> SUBSET (1..Batches)]

\* A service is skipped only within a window of a refused connection: a
\* timeout, an error status, a bad body or a dropped call never make a search
\* do without it.
SkippedOnlyWhenRefused == open <= Window - refusedAgo

\* A search waits for one attempt of a request, and so does an index run that
\* began while the service was known to be down.
OneAttemptWhenDown ==
    \A c \in ModelCall : c \in Searcher \cup probing => tries[c] <= 1 /\ stage[c] # "sleeping"

\* A shortlist is ranked by every request of its call or by none: a partial
\* answer never reorders anything.
RankedByAllOrNone ==
    \A c \in ModelCall : stage[c] = "answered" => scored[c] = 1..Sends(c)

BreakerIsFair == SkippedOnlyWhenRefused /\ OneAttemptWhenDown /\ RankedByAllOrNone

\* A service that has come back and stays is used again, whatever calls of the
\* time it was down still come to an end and however often it is slow.
UsedAgain == <>[]up => <>[](open = 0)
=============================================================================
