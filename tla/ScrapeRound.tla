---------------------------- MODULE ScrapeRound ----------------------------
(***************************************************************************)
(* One scrape round: collectAllMetrics of fetcher/resilient_fetcher.go     *)
(* (lines 125-267 and 441-499) with the retry loop every query runs in,    *)
(* WithRetry of fetcher/error_handler.go (lines 132-183).                  *)
(*                                                                         *)
(* The goroutine of the round spawns one goroutine per query, counting     *)
(* them in a WaitGroup, and a closer that waits for the count to reach     *)
(* zero and closes the results channel; it drains the channel, and then    *)
(* either fails the round or sets the gauges one after the other.  The     *)
(* context may expire, or be canceled by a shutdown, at any moment.        *)
(*                                                                         *)
(* Results carry the name of their query and are filed under it, so their  *)
(* order in the channel changes nothing: it is kept as a set.  The answer  *)
(* of bitcoind is a member of Values.                                      *)
(***************************************************************************)
EXTENDS Integers, FiniteSets

CONSTANTS
    Fetchers,           \* the keys of getFetchers
    HashFetchers,       \* those whose gauge updateMetrics sets without a test
    MaxRetries,         \* NewErrorHandler's maxRetries: calls per query
    MaxAllowedFailures, \* maxAllowedFailures
    ChannelSize,        \* totalRPCCallChannelSize
    Values              \* answers of bitcoind

ASSUME RoundAssumption ==
    /\ IsFiniteSet(Fetchers)
    /\ HashFetchers \subseteq Fetchers
    /\ MaxRetries \in Nat \ {0}
    /\ MaxAllowedFailures \in Nat
    /\ ChannelSize \in Nat \ {0}
    /\ Values \cap {"unset", "zero", "none", "failed"} = {}

VARIABLES
    ctx,        \* the round's context: "live", "deadline" or "canceled"
    main,       \* the goroutine of the round
    pc,         \* pc[f]: the goroutine of query f
    attempt,    \* attempt[f]: calls of query f made or in progress
    res,        \* res[f]: what the goroutine of query f will send
    wg,         \* the WaitGroup counter
    results,    \* the results channel: queries whose result is buffered
    closer,     \* the goroutine that closes the channel; done means closed
    data,       \* data[f]: the answer filed in metricData
    errorCount, \* failed results received
    toSet,      \* queries whose gauges updateMetrics has yet to visit
    gauge       \* gauge[f]: what the gauges of query f show

roundVars == <<ctx, main, pc, attempt, res, wg, results, closer, data,
               errorCount, toSet, gauge>>
\* What only the goroutines of the queries change, and what only the
\* goroutine of the round does.
fetcherVars == <<pc, attempt, res, wg>>
mainVars == <<main, data, errorCount, toSet, gauge>>

ErrorKinds == {"network", "timeout", "busy", "canceled", "other"}
Answers == Values \cup {"none", "failed"}
Shown == Values \cup {"unset", "zero"}
\* The goroutine of a query has been counted and has not called wg.Done.
Counted == {"calling", "backoff", "sending", "sent"}

TypeOK ==
    /\ ctx \in {"live", "deadline", "canceled"}
    /\ main \in {"idle", "launching", "collecting", "updating", "ok", "failed"}
    /\ pc \in [Fetchers -> {"unspawned", "done"} \cup Counted]
    /\ attempt \in [Fetchers -> 0..MaxRetries]
    /\ res \in [Fetchers -> Answers]
    /\ wg \in Nat
    /\ results \in SUBSET Fetchers
    /\ closer \in {"unspawned", "waiting", "done"}
    /\ data \in [Fetchers -> Values \cup {"none"}]
    /\ errorCount \in Nat
    /\ toSet \in SUBSET Fetchers
    /\ gauge \in [Fetchers -> Shown]

Init ==
    /\ ctx = "live"
    /\ main = "idle"
    /\ pc = [f \in Fetchers |-> "done"]
    /\ attempt = [f \in Fetchers |-> 0]
    /\ res = [f \in Fetchers |-> "none"]
    /\ wg = 0
    /\ results = {}
    /\ closer = "done"
    /\ data = [f \in Fetchers |-> "none"]
    /\ errorCount = 0
    /\ toSet = {}
    /\ gauge = [f \in Fetchers |-> "unset"]

-----------------------------------------------------------------------------
\* ShouldRetry: the classifiers know connection errors, timeouts (an expired
\* context among them) and the RPC errors of a node warming up or busy.
ShouldRetry(e) == e \in {"network", "timeout", "busy"}

\* Errors the RPC client can return under the present context.
PossibleErrors ==
    IF ctx = "canceled" THEN ErrorKinds ELSE ErrorKinds \ {"canceled"}

\* The decisions of the round; before each, the slip in it that the
\* properties are tested against.
OneRetryMore(f) == attempt[f] <= MaxRetries
RetriesLeft(f) == attempt[f] < MaxRetries        \* attempt == h.maxRetries-1
SameAttempt(f) == attempt[f]
NextAttempt(f) == attempt[f] + 1                 \* attempt++
CountedLate == wg
CountSpawned == wg + 1                           \* wg.Add(1) before the go
SomeSpawned == \E f \in Fetchers : pc[f] # "unspawned"
AllSpawned == \A f \in Fetchers : pc[f] # "unspawned"
OneRunning == wg <= 1
AllFinished == wg = 0                            \* wg.Wait()
EmptyForNow == results = {}
Drained == results = {} /\ closer = "done"       \* range over the channel ends
FarTooManyFailures == errorCount > MaxAllowedFailures + 1
TooManyFailures == errorCount > MaxAllowedFailures

\* collectAllMetrics starts, with a fresh context, channel and metricData.
BeginRound ==
    /\ main = "idle"
    /\ main' = "launching"
    /\ ctx' \in {"live", "canceled"}
    /\ pc' = [f \in Fetchers |-> "unspawned"]
    /\ attempt' = [f \in Fetchers |-> 0]
    /\ res' = [f \in Fetchers |-> "none"]
    /\ wg' = 0
    /\ results' = {}
    /\ closer' = "unspawned"
    /\ data' = [f \in Fetchers |-> "none"]
    /\ errorCount' = 0
    /\ UNCHANGED <<toSet, gauge>>

\* executeConcurrentFetching: wg.Add(1), then the goroutine of query f, whose
\* first act is to call bitcoind.
Spawn(f) ==
    /\ main = "launching"
    /\ pc[f] = "unspawned"
    /\ wg' = CountSpawned
    /\ pc' = [pc EXCEPT ![f] = "calling"]
    /\ attempt' = [attempt EXCEPT ![f] = 1]
    /\ UNCHANGED <<res, ctx, results, closer>>
    /\ UNCHANGED mainVars

\* All are spawned: the closer starts and the round begins to collect.
SpawnCloser ==
    /\ main = "launching"
    /\ AllSpawned
    /\ closer' = "waiting"
    /\ main' = "collecting"
    /\ UNCHANGED <<ctx, results, data, errorCount, toSet, gauge>>
    /\ UNCHANGED fetcherVars

-----------------------------------------------------------------------------
\* WithRetry, with the query's goroutine around it.

\* The call returns an answer.
CallAnswered(f) ==
    /\ pc[f] = "calling"
    /\ \E v \in Values : res' = [res EXCEPT ![f] = v]
    /\ pc' = [pc EXCEPT ![f] = "sending"]
    /\ UNCHANGED <<attempt, wg, ctx, results, closer>>
    /\ UNCHANGED mainVars

\* The call returns an error worth retrying, and retries are left.
CallFailsRetrying(f) ==
    /\ pc[f] = "calling"
    /\ \E e \in PossibleErrors : ShouldRetry(e)
    /\ RetriesLeft(f)
    /\ pc' = [pc EXCEPT ![f] = "backoff"]
    /\ UNCHANGED <<attempt, res, wg, ctx, results, closer>>
    /\ UNCHANGED mainVars

\* The call returns an error that is final: not retryable, or the last one.
CallFailsFinally(f) ==
    /\ pc[f] = "calling"
    /\ \E e \in PossibleErrors : ShouldRetry(e) => ~RetriesLeft(f)
    /\ res' = [res EXCEPT ![f] = "failed"]
    /\ pc' = [pc EXCEPT ![f] = "sending"]
    /\ UNCHANGED <<attempt, wg, ctx, results, closer>>
    /\ UNCHANGED mainVars

\* The select of WithRetry takes the timer: the next attempt.
BackoffElapses(f) ==
    /\ pc[f] = "backoff"
    /\ pc' = [pc EXCEPT ![f] = "calling"]
    /\ attempt' = [attempt EXCEPT ![f] = NextAttempt(f)]
    /\ UNCHANGED <<res, wg, ctx, results, closer>>
    /\ UNCHANGED mainVars

\* It takes ctx.Done(): WithRetry returns ctx.Err().
BackoffAborts(f) ==
    /\ pc[f] = "backoff"
    /\ ctx # "live"
    /\ res' = [res EXCEPT ![f] = "failed"]
    /\ pc' = [pc EXCEPT ![f] = "sending"]
    /\ UNCHANGED <<attempt, wg, ctx, results, closer>>
    /\ UNCHANGED mainVars

\* results <- result{...}, which blocks while the channel is full.
Send(f) ==
    /\ pc[f] = "sending"
    /\ closer # "done"
    /\ Cardinality(results) < ChannelSize
    /\ results' = results \cup {f}
    /\ pc' = [pc EXCEPT ![f] = "sent"]
    /\ UNCHANGED <<attempt, res, wg, ctx, closer>>
    /\ UNCHANGED mainVars

\* The deferred wg.Done().
Finish(f) ==
    /\ pc[f] = "sent"
    /\ wg' = wg - 1
    /\ pc' = [pc EXCEPT ![f] = "done"]
    /\ UNCHANGED <<attempt, res, ctx, results, closer>>
    /\ UNCHANGED mainVars

\* wg.Wait() returns and the channel is closed.
CloseResults ==
    /\ closer = "waiting"
    /\ AllFinished
    /\ closer' = "done"
    /\ UNCHANGED <<ctx, results>>
    /\ UNCHANGED fetcherVars
    /\ UNCHANGED mainVars

-----------------------------------------------------------------------------
\* collectResults, one turn of its range loop.
Receive(f) ==
    /\ main = "collecting"
    /\ f \in results
    /\ results' = results \ {f}
    /\ IF res[f] = "failed"
       THEN errorCount' = errorCount + 1 /\ UNCHANGED data
       ELSE data' = [data EXCEPT ![f] = res[f]] /\ UNCHANGED errorCount
    /\ UNCHANGED <<ctx, closer, main, toSet, gauge>>
    /\ UNCHANGED fetcherVars

\* The channel is closed and empty: processResultsAndUpdateMetrics fails the
\* round or goes on to updateMetrics.
EndCollect ==
    /\ main = "collecting"
    /\ Drained
    /\ IF TooManyFailures
       THEN main' = "failed" /\ UNCHANGED toSet
       ELSE main' = "updating" /\ toSet' = Fetchers
    /\ UNCHANGED <<ctx, results, closer, data, errorCount, gauge>>
    /\ UNCHANGED fetcherVars

\* What updateMetrics leaves in the gauges of query f: the answer; for want of
\* one, what they showed, or zero where they are set without a test.
Updated(f) ==
    IF data[f] # "none" THEN data[f]
    ELSE IF f \in HashFetchers THEN "zero"
    ELSE gauge[f]

\* updateMetrics, the statements about query f.
SetGauge(f) ==
    /\ main = "updating"
    /\ f \in toSet
    /\ gauge' = [gauge EXCEPT ![f] = Updated(f)]
    /\ toSet' = toSet \ {f}
    /\ UNCHANGED <<ctx, results, closer, main, data, errorCount>>
    /\ UNCHANGED fetcherVars

EndUpdate ==
    /\ main = "updating"
    /\ toSet = {}
    /\ main' = "ok"
    /\ UNCHANGED <<ctx, results, closer, data, errorCount, toSet, gauge>>
    /\ UNCHANGED fetcherVars

\* collectAllMetrics returns to the circuit breaker.
EndRound ==
    /\ main \in {"ok", "failed"}
    /\ main' = "idle"
    /\ UNCHANGED <<ctx, results, closer, data, errorCount, toSet, gauge>>
    /\ UNCHANGED fetcherVars

\* The deadline of the round passes, or the exporter is told to stop.
Expire ==
    /\ main # "idle"
    /\ ctx = "live"
    /\ ctx' = "deadline"
    /\ UNCHANGED <<results, closer>>
    /\ UNCHANGED fetcherVars
    /\ UNCHANGED mainVars

Cancel ==
    /\ main # "idle"
    /\ ctx = "live"
    /\ ctx' = "canceled"
    /\ UNCHANGED <<results, closer>>
    /\ UNCHANGED fetcherVars
    /\ UNCHANGED mainVars

CallReturns(f) == CallAnswered(f) \/ CallFailsRetrying(f) \/ CallFailsFinally(f)

\* Steps of this process alone.
FetcherStep(f) ==
    Spawn(f) \/ BackoffElapses(f) \/ BackoffAborts(f) \/ Send(f) \/ Finish(f)
MainStep(f) == Receive(f) \/ SetGauge(f)
OtherStep == SpawnCloser \/ CloseResults \/ EndCollect \/ EndUpdate

InnerStep ==
    \/ \E f \in Fetchers : CallReturns(f) \/ FetcherStep(f) \/ MainStep(f)
    \/ OtherStep
    \/ Expire

Next == BeginRound \/ InnerStep \/ Cancel \/ EndRound

Spec == Init /\ [][Next]_roundVars

-----------------------------------------------------------------------------
\* The goroutines are scheduled, and an expired context is noticed by the RPC
\* client.  Nothing makes bitcoind answer a call before that.
Fairness ==
    /\ \A f \in Fetchers :
          /\ WF_roundVars(FetcherStep(f))
          /\ WF_roundVars(MainStep(f))
          /\ WF_roundVars(ctx # "live" /\ CallReturns(f))
    /\ WF_roundVars(OtherStep)
    /\ WF_roundVars(EndRound)
    /\ WF_roundVars(Expire)

FairSpec == Spec /\ Fairness

-----------------------------------------------------------------------------
\* The WaitGroup counts the goroutines that have been spawned and not finished,
\* and the closer passes it only when every query of the round is done
\* (executeConcurrentFetching adds before it spawns).
WaitGroupCounts ==
    /\ wg = Cardinality({f \in Fetchers : pc[f] \in Counted})
    /\ closer # "unspawned" => \A f \in Fetchers : pc[f] # "unspawned"
    /\ closer = "done" => \A f \in Fetchers : pc[f] = "done"

\* No result is sent on the closed channel, which would crash the exporter.
NoSendOnClosed ==
    \A f \in Fetchers : pc[f] = "sending" => closer # "done"

\* Every result is received exactly once before the round decides: the failures
\* counted and the answers filed are those of the queries of this round, none
\* lost in the channel, none counted twice, whatever order they came in.
ResultsAccounted ==
    main \in {"updating", "ok", "failed"} =>
        /\ errorCount = Cardinality({f \in Fetchers : res[f] = "failed"})
        /\ \A f \in Fetchers : IF res[f] = "failed" THEN data[f] = "none"
                               ELSE data[f] = res[f] /\ data[f] # "none"

\* A round leaves no goroutine behind that could send, or hold a connection,
\* into the next one.
NothingLeftBehind ==
    main \in {"idle", "ok", "failed"} =>
        /\ closer = "done"
        /\ results = {}
        /\ \A f \in Fetchers : pc[f] = "done"

\* Readers of the gauges see rounds that are abandoned without a trace or
\* published with enough answers: with the assignments a round has yet to make
\* in updateMetrics counted as made, the round is the one of ScrapeBoard.
Board == INSTANCE ScrapeBoard WITH
    ZeroedFetchers <- HashFetchers,
    EnoughAnswers <- {a \in SUBSET Fetchers :
                         Cardinality(Fetchers \ a) <= MaxAllowedFailures},
    phase <- IF main = "idle" THEN "idle"
             ELSE IF main \in {"updating", "ok"} THEN "published"
             ELSE "running",
    board <- [f \in Fetchers |-> IF f \in toSet THEN Updated(f) ELSE gauge[f]]

ImplementsBoard == Board!Spec

\* Every round ends, even when bitcoind never answers a single call.
RoundEnds == main # "idle" ~> main = "idle"

\* A gauge shows nothing but what bitcoind has answered ("Update metrics only
\* if we have the data", resilient_fetcher.go:221).
NothingInvented == \A f \in Fetchers : gauge[f] # "zero"
=============================================================================
