-------------------------- MODULE ResilientFetcher --------------------------
(***************************************************************************)
(* The scrape loop StartResilient (fetcher/resilient_fetcher.go lines      *)
(* 87-123): it composes the circuit breaker, the rounds it guards, the     *)
(* wait between rounds and the shutdown of the exporter, against a         *)
(* bitcoind that may hang, fail and come back.                             *)
(*                                                                         *)
(* CircuitBreaker's Call is the round: it is entered with BeginRound and   *)
(* its outcome recorded when the round ends.  A tick of its clock is a     *)
(* step of its own, possible at any time.                                  *)
(***************************************************************************)
EXTENDS ScrapeRound

CONSTANTS
    MaxFailures,    \* circuitBreakerMaxFailures
    ResetTimeout,   \* circuitBreakerResetTime, in ticks
    FailureBound    \* where the failure counter saturates

VARIABLES
    state, failures, sinceFailure, call,    \* the circuit breaker's
    loop,       \* "ready" to scrape, "scraping", "waiting" for the interval
                \* to pass, or "stopped": StartResilient has returned
    shutdown,   \* the exporter's context is canceled
    healthy     \* bitcoind answers every call before the deadline (external)

Breaker == INSTANCE CircuitBreaker

ASSUME LoopAssumption == Breaker!BreakerAssumption

breakerVars == <<state, failures, sinceFailure, call>>
loopVars == <<loop, shutdown, healthy>>
vars == <<roundVars, breakerVars, loopVars>>

LoopTypeOK ==
    /\ TypeOK
    /\ Breaker!TypeOK
    /\ loop \in {"ready", "scraping", "waiting", "stopped"}
    /\ shutdown \in BOOLEAN
    /\ healthy \in BOOLEAN

LoopInit ==
    /\ Init
    /\ Breaker!Init
    /\ loop = "ready"
    /\ shutdown = FALSE
    /\ healthy \in BOOLEAN

-----------------------------------------------------------------------------
\* The context of a round begun now is derived from the exporter's; before it,
\* the slip of deriving it from context.Background().
DetachedContext == "live"
ContextOfRound == IF shutdown THEN "canceled" ELSE "live"

\* runWithResilience, admitted: collectAllMetrics begins.
ScrapeBegins ==
    /\ loop = "ready"
    /\ Breaker!CallAdmit
    /\ BeginRound
    /\ ctx' = ContextOfRound
    /\ loop' = "scraping"
    /\ UNCHANGED <<shutdown, healthy>>

\* runWithResilience, refused by the open breaker.
ScrapeRefused ==
    /\ loop = "ready"
    /\ Breaker!CallReject
    /\ loop' = "waiting"
    /\ UNCHANGED <<roundVars, shutdown, healthy>>

\* A goroutine of the round moves.  While bitcoind is healthy its calls
\* succeed and the deadline does not pass; a canceled context still fails them.
RoundStep ==
    /\ InnerStep
    /\ healthy /\ ctx = "live" =>
          /\ ctx' = "live"
          /\ \A f \in Fetchers : pc[f] = "calling" /\ pc'[f] # "calling"
                                     => res'[f] \in Values
    /\ UNCHANGED <<breakerVars, loopVars>>

\* The round is over: the breaker records its outcome, StartResilient logs an
\* error and cancels the round's context.
ScrapeEnds ==
    /\ loop = "scraping"
    /\ \/ main = "ok" /\ Breaker!CallSucceeds
       \/ main = "failed" /\ Breaker!CallFails
    /\ EndRound
    /\ loop' = "waiting"
    /\ UNCHANGED <<shutdown, healthy>>

\* The select of the loop: the interval has passed.
WaitElapses ==
    /\ loop = "waiting"
    /\ loop' = "ready"
    /\ UNCHANGED <<roundVars, breakerVars, shutdown, healthy>>

\* The select of the loop: the exporter is told to stop.
Stop ==
    /\ loop = "waiting"
    /\ shutdown
    /\ loop' = "stopped"
    /\ UNCHANGED <<roundVars, breakerVars, shutdown, healthy>>

\* A signal cancels the exporter's context, and the round's that hangs from it.
Shutdown ==
    /\ ~shutdown
    /\ shutdown' = TRUE
    /\ \/ Cancel
       \/ ~(main # "idle" /\ ctx = "live") /\ UNCHANGED roundVars
    /\ UNCHANGED <<breakerVars, loop, healthy>>

Tick ==
    /\ Breaker!Tick
    /\ UNCHANGED <<roundVars, loopVars>>

BitcoindChanges ==
    /\ healthy' = ~healthy
    /\ UNCHANGED <<roundVars, breakerVars, loop, shutdown>>

LoopNext ==
    \/ ScrapeBegins \/ ScrapeRefused \/ RoundStep \/ ScrapeEnds
    \/ WaitElapses \/ Stop \/ Shutdown \/ Tick \/ BitcoindChanges

LoopSpec == LoopInit /\ [][LoopNext]_vars

\* The loop and the goroutines are scheduled; time passes; the select of a
\* canceled loop is fair to ctx.Done(), since Go picks at random among the
\* ready cases.  Neither an answer of an unhealthy bitcoind, nor the deadline of
\* a round, nor a shutdown is owed to anyone.
LoopFairness ==
    /\ \A f \in Fetchers :
          /\ WF_vars(RoundStep /\ FetcherStep(f))
          /\ WF_vars(RoundStep /\ MainStep(f))
          /\ WF_vars(RoundStep /\ (healthy \/ ctx # "live") /\ CallReturns(f))
    /\ WF_vars(RoundStep /\ OtherStep)
    /\ WF_vars(ScrapeBegins \/ ScrapeRefused \/ ScrapeEnds \/ WaitElapses)
    /\ SF_vars(Stop)
    /\ WF_vars(Tick)

FairLoopSpec == LoopSpec /\ LoopFairness

-----------------------------------------------------------------------------
\* The breaker's invariant survives its use by the loop.
StateMatchesFailures == Breaker!StateMatchesFailures

\* bitcoind is left alone while the breaker is open: no call is outstanding, no
\* retry pending and no goroutine of an earlier round still alive.
OpenMeansQuiet ==
    state = "Open" \/ loop # "scraping" =>
        \A f \in Fetchers : pc[f] = "done"

\* The breaker does not shield a healthy bitcoind for ever: after an outage,
\* however long, it closes, stays closed, and rounds publish their answers again.
RecoversAfterOutage ==
    <>[](healthy /\ ~shutdown) => <>[](state = "Closed") /\ []<>(main = "ok")

\* An exporter told to stop stops, even in the middle of a round that bitcoind
\* never answers, and without waiting for the deadline of that round.
ShutdownStops == shutdown ~> loop = "stopped"
=============================================================================
