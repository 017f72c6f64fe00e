------------------------- MODULE PacedFetcherProofs -------------------------
(***************************************************************************)
(* Theorems about PacedFetcher.tla, for every breaker, number of retries,  *)
(* delay, interval and latency.                                            *)
(***************************************************************************)
EXTENDS PacedFetcher, CircuitBreakerProofs

\* Every step of the loop is a step of the breaker or leaves it alone.
LEMMA StepOfBreaker == [PacedNext]_pacedVars => [Next]_vars
<1> SUFFICES ASSUME [PacedNext]_pacedVars
             PROVE  [Next]_vars
  OBVIOUS
<1> USE DEF vars, breakerVars, nodeVars, Next
<1>1. CASE RoundBegins
  BY <1>1 DEF RoundBegins
<1>2. CASE RoundRefused
  BY <1>2 DEF RoundRefused
<1>3. CASE RoundSucceeds
  BY <1>3 DEF RoundSucceeds
<1>4. CASE RoundFails
  BY <1>4 DEF RoundFails
<1>5. CASE GivesUp
  BY <1>5 DEF GivesUp
<1>6. CASE TimePasses
  BY <1>6 DEF TimePasses
<1>7. CASE BacksOff \/ Retries \/ WaitElapses \/ Stops \/ ShutsDown \/ NodeChanges
  BY <1>7 DEF BacksOff, Retries, WaitElapses, Stops, ShutsDown, NodeChanges
<1>8. CASE UNCHANGED pacedVars
  BY <1>8 DEF pacedVars
<1>9. QED
  BY <1>1, <1>2, <1>3, <1>4, <1>5, <1>6, <1>7, <1>8 DEF PacedNext

\* The loop uses the breaker as CircuitBreaker.tla lets it: whatever is proved of
\* the breaker alone holds in the loop.
THEOREM LoopRunsBreaker == PacedSpec => Spec
<1>1. PacedInit => Init
  BY DEF PacedInit
<1>2. QED
  BY <1>1, StepOfBreaker, PTL DEF PacedSpec, Spec

\* In the loop, too, the state of the breaker agrees with its failure counter and
\* a round is refused exactly when the gate says so (runWithResilience).
THEOREM LoopKeepsGate == PacedSpec => []StateMatchesFailures /\ ImplementsGate
<1>1. QED
  BY LoopRunsBreaker, StateInStep, BreakerImplementsGate, PTL

-----------------------------------------------------------------------------
\* The gap that is due before the retry of an attempt.
Gap(n) == Backoff(n) - Backoff(n) \div 10

RestInv ==
    /\ phase = "backoff" => rest + timer >= Gap(attempt) \/ rest >= MaxDelay
    /\ phase = "waiting" => rest + timer >= Pause \/ rest >= Pause
    /\ phase = "ready" => rest >= Pause

\* The delays are integers, at most a tenth under the backoff, which the cap
\* bounds; the jitter comes after the cap.
LEMMA DelaysOfRetry ==
    ASSUME NEW n \in 0..(MaxRetries - 1)
    PROVE  /\ Backoff(n) \in Int
           /\ Backoff(n) <= MaxDelay
           /\ \A d \in RetryDelays(n) :
                 d \in Int /\ d >= Backoff(n) - Backoff(n) \div 10
<1> USE PolicyAssumption
<1>1. 2 ^ n \in Int
  OBVIOUS
<1>2. Backoff(n) \in Int /\ Backoff(n) <= MaxDelay
  BY <1>1 DEF Backoff
<1>3. RetryDelays(n) = Jittered(Backoff(n))
  BY DEF RetryDelays
<1>4. QED
  BY <1>2, <1>3 DEF Jittered

\* A round has at least a second, also when FETCH_INTERVAL has none.
LEMMA TimeoutFloor ==
    ASSUME NEW n \in Int
    PROVE  /\ n * Second \in Int
           /\ FetchContextTimeout(n) \in Nat /\ FetchContextTimeout(n) >= Second
<1>1. n * Second \in Int
  BY PolicyAssumption
<1>2. QED
  BY <1>1, PolicyAssumption DEF FetchContextTimeout

\* The bound of rest is a number and above every gap that is asked for.
LEMMA RestBoundSuffices ==
    ASSUME interval \in Int
    PROVE  /\ Pause \in Int
           /\ RestBound \in Nat /\ RestBound >= MaxDelay /\ RestBound >= Pause
<1>1. Pause \in Int
  BY TimeoutFloor DEF Pause
<1>2. QED
  BY <1>1, PolicyAssumption DEF RestBound, Larger

\* Every variable keeps its type; the attempt stays under MaxRetries because the
\* last one never backs off.
THEOREM PacedTypeCorrect == PacedSpec => []PacedTypeOK
<1> USE PolicyAssumption, PaceAssumption
<1> DEFINE AttemptInv == phase = "backoff" => attempt < MaxRetries - 1
           Inv == PacedTypeOK /\ AttemptInv
<1>0. 0 \in 0..(MaxRetries - 1)
  OBVIOUS
<1>1. ASSUME PacedInit, TypeOK PROVE Inv
  <2>1. interval \in Int
    BY <1>1 DEF PacedInit
  <2>2. RestBound \in Nat
    BY <2>1, RestBoundSuffices
  <2>3. /\ interval \in Intervals /\ phase = "ready"
        /\ attempt \in 0..(MaxRetries - 1) /\ timer \in Int /\ clock \in Nat
        /\ rest \in Nat /\ overdue \in Nat
    BY <1>0, <1>1, <2>2 DEF PacedInit
  <2>4. /\ {shutdown, up, sound} \subseteq BOOLEAN
        /\ quoted \in AddressTexts /\ latest = "none"
    BY <1>1 DEF PacedInit
  <2>5. QED
    BY <1>1, <2>3, <2>4 DEF PacedTypeOK
<1>2. ASSUME Inv, TypeOK', [PacedNext]_pacedVars PROVE Inv'
  <2> USE <1>0, <1>2 DEF PacedTypeOK, nodeVars
  <2>1. Pause \in Int
    BY RestBoundSuffices
  <2>2. CASE RoundBegins
    BY <2>2 DEF RoundBegins, Calling
  <2>3. CASE RoundRefused
    BY <2>1, <2>3 DEF RoundRefused, Waiting
  <2>4. CASE RoundSucceeds
    BY <2>1, <2>4 DEF RoundSucceeds, Waiting
  <2>5. CASE RoundFails
    BY <2>1, <2>5 DEF RoundFails, Waiting
  <2>6. CASE BacksOff
    <3>1. timer' \in Int
      BY <2>6, DelaysOfRetry DEF BacksOff
    <3>2. latest' \in ErrorKinds
      BY <2>6 DEF BacksOff, ErrorsNow, ErrorKinds, MayPass, Quoting
    <3>3. QED
      BY <2>6, <3>1, <3>2 DEF BacksOff
  <2>7. CASE Retries
    BY <2>7 DEF Retries, DelayOver, Calling
  <2>8. CASE GivesUp
    BY <2>1, <2>8 DEF GivesUp, Waiting
  <2>9. CASE WaitElapses \/ Stops
    BY <2>9 DEF WaitElapses, Stops
  <2>10. CASE ShutsDown
    <3>1. shutdown' \in BOOLEAN
      BY <2>10, Zenon DEF ShutsDown
    <3>2. /\ UNCHANGED <<interval, quoted, phase, attempt, timer, clock, latest, rest>>
          /\ UNCHANGED <<up, sound, overdue>>
      BY <2>10 DEF ShutsDown
    <3>3. QED
      BY <3>1, <3>2
  <2>11. CASE NodeChanges
    BY <2>11 DEF NodeChanges
  <2>12. CASE TimePasses
    BY <2>12 DEF TimePasses
  <2>13. CASE UNCHANGED pacedVars
    BY <2>13 DEF pacedVars, breakerVars
  <2>14. QED
    BY <2>2, <2>3, <2>4, <2>5, <2>6, <2>7, <2>8, <2>9, <2>10, <2>11, <2>12, <2>13
       DEF PacedNext
<1>3. PacedSpec => []TypeOK
  BY LoopRunsBreaker, TypeCorrect
<1>4. QED
  BY <1>1, <1>2, <1>3, PTL DEF PacedSpec

\* A round never outlives its context: a call and a delay that find it done are
\* due, and time waits for what is due.
THEOREM EveryRoundEndsInTime == PacedSpec => []RoundsEndInTime
<1> USE PolicyAssumption, PaceAssumption
<1> DEFINE Inv == RoundsEndInTime /\ (phase \notin {"calling", "backoff"} => clock = 0)
<1>1. ASSUME PacedInit PROVE Inv
  BY <1>1 DEF PacedInit, RoundsEndInTime
<1>2. ASSUME PacedTypeOK, Inv, [PacedNext]_pacedVars PROVE Inv'
  <2> USE <1>2 DEF PacedTypeOK, RoundsEndInTime, nodeVars
  <2>1. FetchContextTimeout(interval) \in Nat
    BY TimeoutFloor
  <2>2. interval' = interval => FetchContextTimeout(interval)' = FetchContextTimeout(interval)
    BY DEF FetchContextTimeout
  <2>3. CASE RoundBegins
    BY <2>1, <2>2, <2>3 DEF RoundBegins, Calling
  <2>4. CASE RoundRefused \/ RoundSucceeds \/ RoundFails \/ GivesUp
    BY <2>4 DEF RoundRefused, RoundSucceeds, RoundFails, GivesUp, Waiting
  <2>5. CASE BacksOff
    BY <2>2, <2>5 DEF BacksOff
  <2>6. CASE Retries
    BY <2>2, <2>6 DEF Retries, DelayOver, Calling
  <2>7. CASE WaitElapses \/ Stops
    BY <2>7 DEF WaitElapses, Stops
  <2>8. CASE ShutsDown \/ NodeChanges
    BY <2>2, <2>8 DEF ShutsDown, NodeChanges
  <2>9. CASE TimePasses
    BY <2>1, <2>2, <2>9 DEF TimePasses, Due, Interrupted, Expired
  <2>10. CASE UNCHANGED pacedVars
    BY <2>2, <2>10 DEF pacedVars
  <2>11. QED
    BY <2>3, <2>4, <2>5, <2>6, <2>7, <2>8, <2>9, <2>10 DEF PacedNext
<1>3. QED
  BY <1>1, <1>2, PacedTypeCorrect, PTL DEF PacedSpec

\* The rest the node has had and what is left of the timer make up the gap that
\* is due, unless the rest has reached its bound, which is no shorter.
LEMMA RestIsEarned == PacedSpec => [](PacedTypeOK /\ RestInv)
<1> USE PolicyAssumption, PaceAssumption
<1>1. ASSUME PacedInit, PacedTypeOK PROVE RestInv
  BY <1>1, RestBoundSuffices DEF PacedInit, PacedTypeOK, RestInv
<1>2. ASSUME PacedTypeOK, PacedTypeOK', RestInv, [PacedNext]_pacedVars PROVE RestInv'
  <2> USE <1>2 DEF PacedTypeOK, RestInv, nodeVars
  <2>1. /\ Pause \in Int /\ RestBound \in Nat
        /\ RestBound >= MaxDelay /\ RestBound >= Pause
    BY RestBoundSuffices
  <2>2. interval' = interval => Pause' = Pause
    BY DEF Pause
  <2>3. /\ Backoff(attempt) \in Int /\ Backoff(attempt) <= MaxDelay
        /\ Gap(attempt) \in Int
        /\ Gap(attempt) <= MaxDelay \/ Gap(attempt) <= 0
    BY DelaysOfRetry DEF Gap
  <2>4. CASE RoundBegins
    BY <2>4 DEF RoundBegins, Calling
  <2>5. CASE RoundRefused \/ GivesUp
    BY <2>1, <2>2, <2>5 DEF RoundRefused, GivesUp, Waiting
  <2>6. CASE RoundSucceeds \/ RoundFails
    BY <2>1, <2>2, <2>6 DEF RoundSucceeds, RoundFails, Waiting
  <2>7. CASE BacksOff
    <3>1. timer' >= Gap(attempt) /\ attempt' = attempt
      BY <2>7, DelaysOfRetry DEF BacksOff, Gap
    <3>2. QED
      BY <2>3, <2>7, <3>1 DEF BacksOff, Gap
  <2>8. CASE Retries
    BY <2>8 DEF Retries, Calling
  <2>9. CASE WaitElapses \/ Stops
    BY <2>1, <2>2, <2>9 DEF WaitElapses, Stops
  <2>10. CASE ShutsDown \/ NodeChanges
    BY <2>1, <2>2, <2>10 DEF ShutsDown, NodeChanges, Gap, Backoff
  <2>11. CASE TimePasses
    BY <2>1, <2>2, <2>3, <2>11 DEF TimePasses, Due, DelayOver, Gap, Backoff
  <2>12. CASE UNCHANGED pacedVars
    BY <2>1, <2>2, <2>12 DEF pacedVars, Gap, Backoff
  <2>13. QED
    BY <2>4, <2>5, <2>6, <2>7, <2>8, <2>9, <2>10, <2>11, <2>12 DEF PacedNext
<1>3. QED
  BY <1>1, <1>2, PacedTypeCorrect, PTL DEF PacedSpec

\* The node rests before every call: nine tenths of the backoff before a retry,
\* FETCH_INTERVAL before a round.
THEOREM EveryCallIsPaced == PacedSpec => CallsArePaced
<1>1. ASSUME PacedTypeOK, RestInv, PacedNext, phase # "calling", phase' = "calling"
      PROVE  rest >= IF phase = "backoff" THEN Gap(attempt) ELSE Pause
  <2> USE <1>1 DEF PacedTypeOK, RestInv
  <2>1. CASE RoundBegins
    BY <2>1 DEF RoundBegins
  <2>2. CASE Retries
    <3>1. Gap(attempt) \in Int /\ (Gap(attempt) <= MaxDelay \/ Gap(attempt) <= 0)
      BY DelaysOfRetry, PolicyAssumption DEF Gap
    <3>2. QED
      BY <2>2, <3>1, PolicyAssumption DEF Retries, DelayOver
  <2>3. CASE TimePasses
    BY <2>3 DEF TimePasses
  <2>4. QED
    BY <2>1, <2>2, <2>3 DEF PacedNext, RoundRefused, RoundSucceeds, RoundFails, BacksOff,
       GivesUp, Waiting, WaitElapses, Stops, ShutsDown, NodeChanges
<1>2. PacedTypeOK /\ RestInv /\ [PacedNext]_pacedVars =>
         [phase # "calling" /\ phase' = "calling" =>
            rest >= IF phase = "backoff" THEN Backoff(attempt) - Backoff(attempt) \div 10
                    ELSE Pause]_pacedVars
  BY <1>1 DEF Gap
<1>3. QED
  BY <1>2, RestIsEarned, PTL DEF PacedSpec, CallsArePaced

\* The classifiers see the text alone: without a keyword in the address, no error
\* that quotes it and cannot pass has a text they look for, nor has a rejection
\* whose own words hold none.
LEMMA OnlyCausesRetried ==
    ASSUME NEW e \in ErrorsNow, NEW err \in Errors[e], ShouldRetry(err)
    PROVE  e \in MayPass \/ (e \in Quoting /\ quoted # {}) \/ e = "lookalike"
<1>1. e \in ErrorKinds
  BY DEF ErrorsNow, ErrorKinds, MayPass, Quoting
<1>2. ~ShouldRetry(Wrapped({}))
  BY DEF ShouldRetry, Wrapped, IsTemporary, IsNetwork, IsTimeout, IsRetryableRPC
<1>3. e = "rejected" => err = Wrapped({})
  BY DEF Errors
<1>4. e \in {"denied", "canceled"} => err = Wrapped(quoted)
  BY DEF Errors
<1>5. QED
  BY <1>1, <1>2, <1>3, <1>4 DEF ErrorKinds, MayPass, Quoting

\* Whatever is retried may pass by itself, or holds a keyword by accident: in the
\* address it quotes or in the node's own words.
THEOREM EveryRetryHasCause == PacedSpec => []RetriesHaveCause
<1>1. PacedInit => RetriesHaveCause
  BY DEF PacedInit, RetriesHaveCause
<1>2. ASSUME RetriesHaveCause, [PacedNext]_pacedVars PROVE RetriesHaveCause'
  <2> USE <1>2 DEF RetriesHaveCause
  <2>0. MayPass' = MayPass /\ Quoting' = Quoting
    BY DEF MayPass, Quoting
  <2>1. CASE BacksOff
    <3>1. PICK e \in ErrorsNow : \E err \in Errors[e] : ShouldRetry(err) /\ latest' = e
      BY <2>1 DEF BacksOff
    <3>2. quoted' = quoted
      BY <2>1 DEF BacksOff
    <3>3. QED
      BY <2>0, <3>1, <3>2, OnlyCausesRetried
  <2>2. CASE RoundBegins \/ Retries
    BY <2>2 DEF RoundBegins, Retries, Calling
  <2>3. CASE RoundRefused \/ RoundSucceeds \/ RoundFails \/ GivesUp
    BY <2>3 DEF RoundRefused, RoundSucceeds, RoundFails, GivesUp, Waiting
  <2>4. CASE WaitElapses \/ Stops \/ ShutsDown \/ NodeChanges \/ TimePasses
    BY <2>4 DEF WaitElapses, Stops, ShutsDown, NodeChanges, TimePasses
  <2>5. CASE UNCHANGED pacedVars
    BY <2>5 DEF pacedVars
  <2>6. QED
    BY <2>1, <2>2, <2>3, <2>4, <2>5 DEF PacedNext
<1>3. QED
  BY <1>1, <1>2, PTL DEF PacedSpec

-----------------------------------------------------------------------------
\* How long a node that is back may be left out, phase by phase.  Of a round begun
\* before it was back, no longer than the round has run; of a first call that
\* found it up, what passed before the call and what its answer takes; between
\* rounds, a whole round, the rest of the breaker and what has gone of the wait.
\* A loop told to stop spends no time.
Limit == FetchContextTimeout(interval) + ResetTimeout
Overrun == Larger(Pause, 0) + 1

StaleRound == overdue <= clock
FirstCall ==
    /\ phase = "calling" /\ sound /\ attempt = 0
    /\ timer >= 0 /\ clock + timer = Latency
    /\ overdue <= Limit + Overrun + clock

RecoveryInv ==
    /\ ~up => overdue = 0
    /\ shutdown => overdue <= RecoveryBound
    /\ ~shutdown /\ phase \in {"calling", "backoff"} => StaleRound \/ FirstCall
    /\ phase \in {"waiting", "ready"} => attempt = 0 /\ clock = 0
    /\ ~shutdown /\ phase = "waiting" =>
          /\ timer >= -1 \/ timer = Pause
          /\ overdue <= Limit + Pause - timer
    /\ ~shutdown /\ phase = "ready" => overdue <= Limit + Overrun
    /\ ~shutdown /\ phase \in {"waiting", "ready"} /\ state = "Open" =>
          sinceFailure > ResetTimeout \/ overdue <= FetchContextTimeout(interval) + sinceFailure
    /\ phase = "stopped" => shutdown

\* The bounds are numbers, which depend on the interval alone.
LEMMA RecoveryBounds ==
    ASSUME interval \in Int
    PROVE  /\ FetchContextTimeout(interval) \in Nat /\ Latency < FetchContextTimeout(interval)
           /\ Pause \in Int /\ Limit \in Nat
           /\ Limit = FetchContextTimeout(interval) + ResetTimeout
           /\ Overrun \in Nat /\ Overrun >= Pause + 1 /\ Overrun >= 1
           /\ RecoveryBound = Limit + Overrun + Latency
           /\ interval' = interval =>
                 /\ FetchContextTimeout(interval)' = FetchContextTimeout(interval)
                 /\ Pause' = Pause /\ Limit' = Limit /\ Overrun' = Overrun
                 /\ RecoveryBound' = RecoveryBound
<1> USE BreakerAssumption, PaceAssumption, PolicyAssumption
<1>1. /\ FetchContextTimeout(interval) \in Nat /\ FetchContextTimeout(interval) >= Second
      /\ Pause \in Int
  BY TimeoutFloor DEF Pause
<1>2. Larger(Pause, 0) \in Nat /\ Larger(Pause, 0) >= Pause
  BY <1>1 DEF Larger
<1>3. RecoveryBound = Limit + Overrun + Latency
  BY <1>1, <1>2 DEF RecoveryBound, Limit, Overrun
<1>4. interval' = interval =>
         /\ FetchContextTimeout(interval)' = FetchContextTimeout(interval)
         /\ Pause' = Pause /\ Limit' = Limit /\ Overrun' = Overrun
         /\ RecoveryBound' = RecoveryBound
  BY DEF FetchContextTimeout, Pause, Limit, Overrun, Larger, RecoveryBound
<1>5. QED
  BY <1>1, <1>2, <1>3, <1>4 DEF Limit, Overrun

\* Whatever phase the loop is in, RecoveryBound is not exceeded.
LEMMA RecoveryEnough ==
    ASSUME PacedTypeOK, RoundsEndInTime, RecoveryInv, phase # "stopped" \/ shutdown
    PROVE  RecoversInTime
<1> USE PaceAssumption, BreakerAssumption DEF PacedTypeOK, RecoveryInv, RecoversInTime
<1>1. interval \in Int
  OBVIOUS
<1>2. CASE shutdown
  BY <1>2
<1>3. CASE ~shutdown /\ phase \in {"calling", "backoff"}
  BY <1>1, <1>3, RecoveryBounds DEF StaleRound, FirstCall, RoundsEndInTime
<1>4. CASE ~shutdown /\ phase = "waiting"
  BY <1>1, <1>4, RecoveryBounds
<1>5. CASE ~shutdown /\ phase = "ready"
  BY <1>1, <1>5, RecoveryBounds
<1>6. QED
  BY <1>2, <1>3, <1>4, <1>5

LEMMA RecoveryStep ==
    PacedTypeOK /\ PacedTypeOK' /\ RoundsEndInTime /\ RecoveryInv /\ [PacedNext]_pacedVars
      => RecoveryInv'
<1> SUFFICES ASSUME PacedTypeOK, PacedTypeOK', RoundsEndInTime, RecoveryInv,
                    [PacedNext]_pacedVars
             PROVE  RecoveryInv'
  OBVIOUS
<1> USE PaceAssumption, BreakerAssumption
    DEF PacedTypeOK, TypeOK, RecoveryInv, StaleRound, FirstCall, nodeVars, breakerVars
<1>1. /\ FetchContextTimeout(interval) \in Nat /\ Latency < FetchContextTimeout(interval)
      /\ Pause \in Int /\ Limit \in Nat
      /\ Limit = FetchContextTimeout(interval) + ResetTimeout
      /\ Overrun \in Nat /\ Overrun >= Pause + 1 /\ Overrun >= 1
      /\ RecoveryBound = Limit + Overrun + Latency
  BY RecoveryBounds
<1>2. interval' = interval =>
         /\ FetchContextTimeout(interval)' = FetchContextTimeout(interval)
         /\ Pause' = Pause /\ Limit' = Limit /\ Overrun' = Overrun
         /\ RecoveryBound' = RecoveryBound
  BY RecoveryBounds
<1>3. phase \in {"calling", "backoff"} => clock <= FetchContextTimeout(interval)
  BY DEF RoundsEndInTime
<1>4. overdue <= RecoveryBound
  BY RecoveryEnough DEF RecoversInTime
<1>5. CASE RoundBegins
  BY <1>1, <1>2, <1>4, <1>5 DEF RoundBegins, Calling
<1>6. CASE RoundRefused
  <2>1. state = "Open" /\ state' = "Open" /\ sinceFailure <= ResetTimeout
        /\ sinceFailure' = sinceFailure
    BY <1>6 DEF RoundRefused, CallReject, UpdatedState
  <2>2. QED
    BY <1>1, <1>2, <1>4, <1>6, <2>1 DEF RoundRefused, Waiting
<1>7. CASE RoundSucceeds
  BY <1>1, <1>2, <1>7 DEF RoundSucceeds, CallSucceeds, Waiting
\* A first call that found the node up is answered before the deadline: only a
\* round begun too early fails without a shutdown.
<1>8. ASSUME phase = "calling", ErrorsNow # {}, ~shutdown PROVE StaleRound
  BY <1>1, <1>8 DEF ErrorsNow, Expired
<1>9. CASE RoundFails
  <2>1. shutdown \/ StaleRound
    BY <1>8, <1>9 DEF RoundFails
  <2>2. sinceFailure' = 0
    BY <1>9 DEF RoundFails, CallFails
  <2>3. QED
    BY <1>1, <1>2, <1>3, <1>4, <1>9, <2>1, <2>2 DEF RoundFails, Waiting
<1>10. CASE BacksOff
  <2>1. shutdown \/ StaleRound
    BY <1>8, <1>10 DEF BacksOff
  <2>2. QED
    BY <1>1, <1>2, <1>4, <1>10, <2>1 DEF BacksOff
<1>11. CASE Retries
  BY <1>1, <1>2, <1>4, <1>11 DEF Retries, DelayOver, Calling
<1>12. CASE GivesUp
  <2>1. sinceFailure' = 0
    BY <1>12 DEF GivesUp, CallFails
  <2>2. QED
    BY <1>1, <1>2, <1>3, <1>4, <1>12, <2>1 DEF GivesUp, Interrupted, Waiting
<1>13. CASE WaitElapses
  BY <1>1, <1>2, <1>4, <1>13 DEF WaitElapses
<1>14. CASE Stops
  BY <1>1, <1>2, <1>4, <1>14 DEF Stops
<1>15. CASE ShutsDown
  BY <1>1, <1>2, <1>4, <1>15 DEF ShutsDown
<1>16. CASE NodeChanges
  BY <1>1, <1>2, <1>16 DEF NodeChanges
<1>17. CASE TimePasses
  <2>1. UNCHANGED <<interval, phase, attempt, shutdown, up, sound>> /\ state' = state
    BY <1>17 DEF TimePasses, Tick
  <2>2. CASE phase = "calling" /\ ~shutdown
    <3>1. clock' = clock + 1 /\ (overdue' = 0 \/ overdue' = overdue + 1)
          /\ timer' = (IF timer > 0 THEN timer - 1 ELSE timer) /\ (~up => overdue' = 0)
      BY <1>17, <2>2 DEF TimePasses
    <3>2. sound => timer # 0
      BY <1>17, <2>2 DEF TimePasses, Due
    <3>3. QED
      BY <1>1, <1>2, <2>1, <2>2, <3>1, <3>2
  <2>3. CASE phase = "backoff" /\ ~shutdown
    BY <1>1, <1>2, <1>17, <2>1, <2>3 DEF TimePasses, Due
  <2>4. CASE phase = "waiting" /\ ~shutdown
    <3>1. timer >= 0 /\ timer' = timer - 1 /\ (overdue' = 0 \/ overdue' = overdue + 1)
          /\ clock' = clock /\ (~up => overdue' = 0)
      BY <1>17, <2>4 DEF TimePasses, Due
    <3>2. \/ sinceFailure' = sinceFailure + 1
          \/ sinceFailure > ResetTimeout /\ UNCHANGED sinceFailure
      BY <1>17 DEF TimePasses, Tick
    <3>3. QED
      BY <1>1, <1>2, <2>1, <2>4, <3>1, <3>2
  \* Told to stop, only a loop that has stopped lets time pass.
  <2>5. CASE phase = "stopped" \/ shutdown
    BY <1>1, <1>2, <1>17, <2>1, <2>5 DEF TimePasses, Due, Interrupted, Expired
  <2>6. phase # "ready"
    BY <1>17 DEF TimePasses, Due
  <2>7. QED
    BY <2>2, <2>3, <2>4, <2>5, <2>6
<1>18. CASE UNCHANGED pacedVars
  BY <1>1, <1>2, <1>18 DEF pacedVars
<1>19. QED
  BY <1>5, <1>6, <1>7, <1>9, <1>10, <1>11, <1>12, <1>13, <1>14, <1>15, <1>16, <1>17, <1>18
     DEF PacedNext

\* A node that stays up is scraped within RecoveryBound: the deadline of the round
\* it came back in, the rest of the breaker, one interval with the overrun of its
\* timer, and one answer.  No other sum of waits is longer (StartResilient,
\* WithRetry and CircuitBreaker.Call together).
THEOREM RecoveryIsTimely == PacedSpec => []RecoversInTime
<1>1. ASSUME PacedInit, PacedTypeOK PROVE RecoveryInv
  <2>1. interval \in Int /\ Limit \in Nat /\ Overrun \in Nat
    BY <1>1, RecoveryBounds, PaceAssumption DEF PacedTypeOK
  <2>2. ~shutdown /\ phase = "ready" /\ attempt = 0 /\ clock = 0 /\ overdue = 0
        /\ state = "Closed"
    BY <1>1, Zenon DEF PacedInit, Init
  <2>3. QED
    BY <2>1, <2>2 DEF RecoveryInv
<1>2. PacedTypeOK /\ RoundsEndInTime /\ RecoveryInv => RecoversInTime
  BY RecoveryEnough DEF RecoveryInv
<1>3. QED
  BY <1>1, <1>2, RecoveryStep, PacedTypeCorrect, EveryRoundEndsInTime, PTL DEF PacedSpec
=============================================================================
