--------------------------- MODULE CircuitBreaker ---------------------------
(***************************************************************************)
(* The circuit breaker of fetcher/error_handler.go (lines 304-415) that    *)
(* guards every scrape of bitcoind.                                        *)
(*                                                                         *)
(* Call(fn) is two steps: its entry, where updateState runs and the call   *)
(* is admitted or refused, and its return, where the outcome of fn is      *)
(* recorded.  Time passes between and during calls.  The code compares     *)
(* time.Since(lastFailureTime) with resetTimeout and nothing else, so the  *)
(* timestamp is kept as the number of ticks since it was taken, saturated  *)
(* one tick past the timeout (a zero timestamp is that old).               *)
(***************************************************************************)
EXTENDS Integers

CONSTANTS
    MaxFailures,    \* NewCircuitBreaker's maxFailures
    ResetTimeout,   \* its resetTimeout, in ticks
    FailureBound    \* where the failure counter saturates: the code only asks
                    \* whether it has reached MaxFailures

ASSUME BreakerAssumption ==
    /\ MaxFailures \in Nat \ {0}
    /\ ResetTimeout \in Nat
    /\ FailureBound \in Nat
    /\ FailureBound >= MaxFailures

VARIABLES
    state,          \* "Closed", "Open" or "HalfOpen"
    failures,       \* failures since the last success
    sinceFailure,   \* ticks since lastFailureTime
    call            \* the latest Call: "none", "running" (fn is executing),
                    \* "rejected", "failed" or "succeeded"

vars == <<state, failures, sinceFailure, call>>

TypeOK ==
    /\ state \in {"Closed", "Open", "HalfOpen"}
    /\ failures \in Nat
    /\ sinceFailure \in 0..(ResetTimeout + 1)
    /\ call \in {"none", "running", "rejected", "failed", "succeeded"}

Init ==
    /\ state = "Closed"
    /\ failures = 0
    /\ sinceFailure = ResetTimeout + 1
    /\ call = "none"

-----------------------------------------------------------------------------
\* The failure counter after one more failure.
CountedFailures == IF failures < FailureBound THEN failures + 1 ELSE failures

\* Slips in the functions below, against which the properties are tested: the
\* probe comes one tick early, or never, or its failure leaves the breaker
\* half-open.
EagerUpdatedState ==
    IF state = "Open" /\ sinceFailure >= ResetTimeout THEN "HalfOpen" ELSE state
NeverUpdatedState == state
StickyStateAfterFailure ==
    IF state = "Closed" /\ CountedFailures >= MaxFailures THEN "Open" ELSE state

\* updateState: an open breaker whose last failure is old enough half-opens.
UpdatedState ==
    IF state = "Open" /\ sinceFailure > ResetTimeout THEN "HalfOpen" ELSE state

\* The state recordFailure leaves.
StateAfterFailure ==
    IF state = "HalfOpen" \/ (state = "Closed" /\ CountedFailures >= MaxFailures)
    THEN "Open" ELSE state

\* The state recordSuccess leaves.
StateAfterSuccess ==
    IF state = "HalfOpen" THEN "Closed" ELSE state

-----------------------------------------------------------------------------
\* Call: admitted, fn starts.
CallAdmit ==
    /\ call # "running"
    /\ UpdatedState # "Open"
    /\ state' = UpdatedState
    /\ call' = "running"
    /\ UNCHANGED <<failures, sinceFailure>>

\* Call: refused with "circuit breaker is open"; fn is not run.
CallReject ==
    /\ call # "running"
    /\ UpdatedState = "Open"
    /\ state' = UpdatedState
    /\ call' = "rejected"
    /\ UNCHANGED <<failures, sinceFailure>>

\* fn returned an error: recordFailure.
CallFails ==
    /\ call = "running"
    /\ failures' = CountedFailures
    /\ sinceFailure' = 0
    /\ state' = StateAfterFailure
    /\ call' = "failed"

\* A slip: a success forgives one failure instead of all of them.
ForgivingCallSucceeds ==
    /\ call = "running"
    /\ failures' = failures - 1
    /\ state' = StateAfterSuccess
    /\ call' = "succeeded"
    /\ UNCHANGED sinceFailure

\* fn returned nil: recordSuccess.
CallSucceeds ==
    /\ call = "running"
    /\ failures' = 0
    /\ state' = StateAfterSuccess
    /\ call' = "succeeded"
    /\ UNCHANGED sinceFailure

Tick ==
    /\ sinceFailure <= ResetTimeout
    /\ sinceFailure' = sinceFailure + 1
    /\ UNCHANGED <<state, failures, call>>

Next == CallAdmit \/ CallReject \/ CallFails \/ CallSucceeds \/ Tick

Spec == Init /\ [][Next]_vars

-----------------------------------------------------------------------------
\* The three-valued state is redundant, and never gets out of step with the
\* counter it caches: between calls the breaker is open exactly when the
\* failures have reached MaxFailures and never half-open; while fn runs it is
\* never open, and half-open exactly when the call is a probe of a tripped
\* breaker (updateState, recordFailure and recordSuccess, each of which
\* changes one of the two without looking at the other in some case).
StateMatchesFailures ==
    /\ call # "running" =>
          /\ state # "HalfOpen"
          /\ state = "Open" <=> failures >= MaxFailures
    /\ call = "running" =>
          /\ state # "Open"
          /\ state = "HalfOpen" <=> failures >= MaxFailures

Gate == INSTANCE CallGate WITH streak <- failures, quiet <- sinceFailure

\* The breaker implements the gate: a call is refused exactly when MaxFailures
\* calls in a row have failed and the last failure is at most ResetTimeout
\* old, so a single failed probe shuts it for the whole timeout again and a
\* single success forgets every earlier failure.
ImplementsGate == Gate!Spec
=============================================================================
