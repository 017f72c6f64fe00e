----------------------- MODULE ResilientFetcherProofs -----------------------
(***************************************************************************)
(* Theorems about ResilientFetcher.tla: the loop keeps what is proved of   *)
(* its two components, for every set of queries and every constant.        *)
(***************************************************************************)
EXTENDS ResilientFetcher, ScrapeRoundProofs

\* Every step of the loop is a step of the breaker or leaves it alone,
LEMMA StepOfBreaker == [LoopNext]_vars => [Breaker!Next]_(Breaker!vars)
<1> SUFFICES ASSUME [LoopNext]_vars PROVE [Breaker!Next]_(Breaker!vars)
  OBVIOUS
<1> USE DEF Breaker!vars, breakerVars, Breaker!Next
<1>1. CASE ScrapeBegins \/ ScrapeRefused \/ ScrapeEnds
  BY <1>1 DEF ScrapeBegins, ScrapeRefused, ScrapeEnds
<1>2. CASE Tick
  BY <1>2 DEF Tick
<1>3. CASE RoundStep \/ WaitElapses \/ Stop \/ Shutdown \/ BitcoindChanges
  BY <1>3 DEF RoundStep, WaitElapses, Stop, Shutdown, BitcoindChanges
<1>4. CASE UNCHANGED vars
  BY <1>4 DEF vars
<1>5. QED
  BY <1>1, <1>2, <1>3, <1>4 DEF LoopNext

\* and a step of the round or leaves that alone.
LEMMA StepOfRound == [LoopNext]_vars => [Next]_roundVars
<1> SUFFICES ASSUME [LoopNext]_vars PROVE [Next]_roundVars
  OBVIOUS
<1>1. CASE ScrapeBegins \/ ScrapeEnds
  BY <1>1 DEF ScrapeBegins, ScrapeEnds, Next
<1>2. CASE RoundStep \/ Shutdown
  BY <1>2 DEF RoundStep, Shutdown, Next
<1>3. CASE ScrapeRefused \/ Tick \/ WaitElapses \/ Stop \/ BitcoindChanges
  BY <1>3 DEF ScrapeRefused, Tick, WaitElapses, Stop, BitcoindChanges
<1>4. CASE UNCHANGED vars
  BY <1>4 DEF vars
<1>5. QED
  BY <1>1, <1>2, <1>3, <1>4 DEF LoopNext

\* The loop runs rounds as ScrapeRound.tla has them, and uses the breaker as
\* CircuitBreaker.tla lets it: what is proved of either holds in the loop.
THEOREM LoopComposes == LoopSpec => Spec /\ Breaker!Spec
<1>1. LoopInit => Init /\ Breaker!Init
  BY DEF LoopInit
<1>2. QED
  BY <1>1, StepOfRound, StepOfBreaker, PTL DEF LoopSpec, Spec, Breaker!Spec

-----------------------------------------------------------------------------
\* The breaker's own invariant, as CircuitBreakerProofs has it (an instance of a
\* theorem cannot be cited, so the step is repeated for the instance).
BreakerInv == Breaker!TypeOK /\ Breaker!StateMatchesFailures

LEMMA BreakerInvInit == Breaker!Init => BreakerInv
BY LoopAssumption
DEF BreakerInv, Breaker!Init, Breaker!TypeOK, Breaker!StateMatchesFailures,
    Breaker!BreakerAssumption

LEMMA BreakerInvStep == BreakerInv /\ [Breaker!Next]_(Breaker!vars) => BreakerInv'
<1> SUFFICES ASSUME BreakerInv, [Breaker!Next]_(Breaker!vars) PROVE BreakerInv'
  OBVIOUS
<1> USE LoopAssumption DEF Breaker!BreakerAssumption, BreakerInv, Breaker!TypeOK,
                           Breaker!StateMatchesFailures
<1>1. CASE Breaker!CallAdmit
  BY <1>1 DEF Breaker!CallAdmit, Breaker!UpdatedState
<1>2. CASE Breaker!CallReject
  BY <1>2 DEF Breaker!CallReject, Breaker!UpdatedState
<1>3. CASE Breaker!CallFails
  BY <1>3 DEF Breaker!CallFails, Breaker!StateAfterFailure, Breaker!CountedFailures
<1>4. CASE Breaker!CallSucceeds
  BY <1>4 DEF Breaker!CallSucceeds, Breaker!StateAfterSuccess
<1>5. CASE Breaker!Tick
  BY <1>5 DEF Breaker!Tick
<1>6. CASE UNCHANGED Breaker!vars
  BY <1>6 DEF Breaker!vars
<1>7. QED
  BY <1>1, <1>2, <1>3, <1>4, <1>5, <1>6 DEF Breaker!Next

LEMMA BreakerInvariant == LoopSpec => []BreakerInv
<1>1. LoopInit => BreakerInv
  BY BreakerInvInit DEF LoopInit
<1>2. QED
  BY <1>1, BreakerInvStep, StepOfBreaker, PTL DEF LoopSpec

\* In the loop, too, the state of the breaker agrees with its failure counter
\* (StartResilient, CircuitBreaker.Call).
THEOREM LoopKeepsState == LoopSpec => []StateMatchesFailures
<1>1. BreakerInv => StateMatchesFailures
  BY DEF BreakerInv, StateMatchesFailures
<1>2. QED
  BY <1>1, BreakerInvariant, PTL

-----------------------------------------------------------------------------
\* The loop scrapes while a round runs, and that is while the breaker's call does.
InStep ==
    /\ loop \in {"ready", "scraping", "waiting", "stopped"}
    /\ loop = "scraping" <=> main # "idle"
    /\ loop = "scraping" <=> call = "running"

\* A round that runs is ended by EndRound alone, and begun by BeginRound.
LEMMA RoundGoesOn == InnerStep \/ Cancel => (main' = "idle" <=> main = "idle")
<1>1. ASSUME NEW f \in Fetchers, CallReturns(f) PROVE main' = main
  BY <1>1 DEF CallReturns, CallAnswered, CallFailsRetrying, CallFailsFinally, mainVars
<1>2. ASSUME NEW f \in Fetchers, FetcherStep(f) PROVE main' = main
  BY <1>2 DEF FetcherStep, Spawn, BackoffElapses, BackoffAborts, Send, Finish, mainVars
<1>3. ASSUME NEW f \in Fetchers, MainStep(f) PROVE main' = main
  BY <1>3 DEF MainStep, Receive, SetGauge
<1>4. ASSUME OtherStep PROVE main' = "idle" <=> main = "idle"
  BY <1>4 DEF OtherStep, SpawnCloser, CloseResults, EndCollect, EndUpdate, mainVars
<1>5. ASSUME Expire \/ Cancel PROVE main' = main
  BY <1>5 DEF Expire, Cancel, mainVars
<1>6. QED
  BY <1>1, <1>2, <1>3, <1>4, <1>5 DEF InnerStep

LEMMA InStepStep == InStep /\ [LoopNext]_vars => InStep'
<1> SUFFICES ASSUME InStep, [LoopNext]_vars PROVE InStep'
  OBVIOUS
<1> USE DEF InStep, breakerVars, loopVars
<1>1. CASE ScrapeBegins
  BY <1>1 DEF ScrapeBegins, Breaker!CallAdmit, BeginRound
<1>2. CASE ScrapeRefused
  BY <1>2 DEF ScrapeRefused, Breaker!CallReject, roundVars
<1>3. CASE RoundStep
  BY <1>3, RoundGoesOn DEF RoundStep
<1>4. CASE ScrapeEnds
  BY <1>4 DEF ScrapeEnds, Breaker!CallSucceeds, Breaker!CallFails, EndRound
<1>5. CASE WaitElapses \/ Stop \/ BitcoindChanges
  BY <1>5 DEF WaitElapses, Stop, BitcoindChanges, roundVars
<1>6. CASE Shutdown
  <2>1. /\ main' = "idle" <=> main = "idle"
        /\ UNCHANGED <<loop, call>>
    BY <1>6, RoundGoesOn DEF Shutdown, roundVars
  <2>2. QED
    BY <2>1
<1>7. CASE Tick
  BY <1>7 DEF Tick, Breaker!Tick, roundVars
<1>8. CASE UNCHANGED vars
  BY <1>8 DEF vars, roundVars
<1>9. QED
  BY <1>1, <1>2, <1>3, <1>4, <1>5, <1>6, <1>7, <1>8 DEF LoopNext

LEMMA InStepInvariant == LoopSpec => []InStep
<1>1. LoopInit => InStep
  BY DEF LoopInit, Init, Breaker!Init, InStep
<1>2. QED
  BY <1>1, InStepStep, PTL DEF LoopSpec

\* An open breaker leaves bitcoind alone: it is open only between calls, and no
\* goroutine outlives its round (CircuitBreaker.Call, executeConcurrentFetching).
THEOREM OpenIsQuiet == LoopSpec => []OpenMeansQuiet
<1>1. BreakerInv /\ InStep /\ NothingLeftBehind => OpenMeansQuiet
  BY DEF BreakerInv, Breaker!StateMatchesFailures, InStep, NothingLeftBehind, OpenMeansQuiet
<1>2. QED
  BY <1>1, BreakerInvariant, InStepInvariant, LoopComposes, RoundLeavesNothing, PTL

\* The variables of loop, breaker and round keep their types.
THEOREM LoopTypeCorrect == LoopSpec => []LoopTypeOK
<1> DEFINE Flags == shutdown \in BOOLEAN /\ healthy \in BOOLEAN
<1>1. LoopInit => Flags
  BY Zenon DEF LoopInit
<1>2. Flags /\ [LoopNext]_vars => Flags'
  <2> SUFFICES ASSUME Flags, [LoopNext]_vars PROVE Flags'
    OBVIOUS
  <2>1. CASE Shutdown \/ BitcoindChanges
    BY <2>1, Zenon DEF Shutdown, BitcoindChanges
  <2>2. CASE ScrapeBegins \/ ScrapeRefused \/ RoundStep \/ ScrapeEnds \/ WaitElapses
             \/ Stop \/ Tick
    BY <2>2 DEF ScrapeBegins, ScrapeRefused, RoundStep, ScrapeEnds, WaitElapses, Stop,
                Tick, loopVars
  <2>3. CASE UNCHANGED vars
    BY <2>3 DEF vars, loopVars
  <2>4. QED
    BY <2>1, <2>2, <2>3 DEF LoopNext
<1>3. TypeOK /\ BreakerInv /\ InStep /\ Flags => LoopTypeOK
  BY Zenon DEF LoopTypeOK, BreakerInv, InStep
<1>4. QED
  BY <1>1, <1>2, <1>3, BreakerInvariant, InStepInvariant, LoopComposes, TypeCorrect, PTL
  DEF LoopSpec
=============================================================================
