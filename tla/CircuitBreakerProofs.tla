------------------------ MODULE CircuitBreakerProofs ------------------------
(***************************************************************************)
(* Theorems about CircuitBreaker.tla, for every MaxFailures and            *)
(* ResetTimeout.                                                           *)
(***************************************************************************)
EXTENDS CircuitBreaker, TLAPS

\* Every variable keeps its type: the failure counter never goes negative and
\* the state is one of the three of CircuitState.
THEOREM TypeCorrect == Spec => []TypeOK
<1>1. Init => TypeOK
  BY BreakerAssumption DEF Init, TypeOK
<1>2. TypeOK /\ [Next]_vars => TypeOK'
  <2> SUFFICES ASSUME TypeOK, [Next]_vars
               PROVE  TypeOK'
    OBVIOUS
  <2> USE BreakerAssumption DEF TypeOK
  <2>1. CASE CallAdmit
    BY <2>1 DEF CallAdmit, UpdatedState
  <2>2. CASE CallReject
    BY <2>2 DEF CallReject, UpdatedState
  <2>3. CASE CallFails
    BY <2>3 DEF CallFails, StateAfterFailure, CountedFailures
  <2>4. CASE CallSucceeds
    BY <2>4 DEF CallSucceeds, StateAfterSuccess
  <2>5. CASE Tick
    BY <2>5 DEF Tick
  <2>6. CASE UNCHANGED vars
    BY <2>6 DEF vars
  <2>7. QED
    BY <2>1, <2>2, <2>3, <2>4, <2>5, <2>6 DEF Next
<1>3. QED
  BY <1>1, <1>2, PTL DEF Spec

\* One step of the breaker keeps its state in step with the failure counter.
\* The invariant is inductive: it says of a running call what it must start
\* from, so that the two outcomes need no history.
LEMMA StateMatchesFailuresStep ==
    TypeOK /\ StateMatchesFailures /\ [Next]_vars => StateMatchesFailures'
<1> SUFFICES ASSUME TypeOK, StateMatchesFailures, [Next]_vars
             PROVE  StateMatchesFailures'
  OBVIOUS
<1> USE BreakerAssumption DEF TypeOK, StateMatchesFailures
<1>1. CASE CallAdmit
  BY <1>1 DEF CallAdmit, UpdatedState
<1>2. CASE CallReject
  BY <1>2 DEF CallReject, UpdatedState
<1>3. CASE CallFails
  <2>1. call' # "running" /\ failures' = CountedFailures
    BY <1>3 DEF CallFails
  <2>2. state' = "Open" <=> CountedFailures >= MaxFailures
    BY <1>3 DEF CallFails, StateAfterFailure, CountedFailures
  <2>3. state' # "HalfOpen"
    BY <1>3 DEF CallFails, StateAfterFailure, CountedFailures
  <2>4. QED
    BY <2>1, <2>2, <2>3
<1>4. CASE CallSucceeds
  BY <1>4 DEF CallSucceeds, StateAfterSuccess
<1>5. CASE Tick
  BY <1>5 DEF Tick
<1>6. CASE UNCHANGED vars
  BY <1>6 DEF vars
<1>7. QED
  BY <1>1, <1>2, <1>3, <1>4, <1>5, <1>6 DEF Next

\* Between calls the breaker is open exactly when MaxFailures calls in a row
\* have failed, and it is half-open exactly while a probe of a tripped breaker
\* runs, whatever the outcomes of the calls and the times between them.
THEOREM StateInStep == Spec => []StateMatchesFailures
<1>1. Init => StateMatchesFailures
  BY BreakerAssumption DEF Init, StateMatchesFailures
<1>2. QED
  BY <1>1, StateMatchesFailuresStep, TypeCorrect, PTL DEF Spec

\* The entry of Call admits and refuses exactly the calls the gate does.
LEMMA EntryImplementsGate ==
    ASSUME TypeOK, StateMatchesFailures
    PROVE  /\ CallAdmit => Gate!Admit
           /\ CallReject => Gate!Refuse
<1> USE BreakerAssumption DEF TypeOK, StateMatchesFailures, Gate!Shut
<1>1. CallAdmit => Gate!Admit
  BY DEF CallAdmit, UpdatedState, Gate!Admit
<1>2. CallReject => Gate!Refuse
  BY DEF CallReject, UpdatedState, Gate!Refuse
<1>3. QED
  BY <1>1, <1>2

\* The breaker implements the gate of CallGate.tla, which has no breaker state:
\* a call is refused exactly when MaxFailures calls in a row have failed and
\* the last of them is at most ResetTimeout old.
THEOREM BreakerImplementsGate == Spec => ImplementsGate
<1>1. Init => Gate!Init
  BY DEF Init, Gate!Init
<1>2. TypeOK /\ StateMatchesFailures /\ [Next]_vars => [Gate!Next]_(Gate!vars)
  <2> SUFFICES ASSUME TypeOK, StateMatchesFailures, [Next]_vars
               PROVE  [Gate!Next]_(Gate!vars)
    OBVIOUS
  <2>1. CASE CallAdmit
    BY <2>1, EntryImplementsGate DEF Gate!Next
  <2>2. CASE CallReject
    BY <2>2, EntryImplementsGate DEF Gate!Next
  <2>3. CASE CallFails
    BY <2>3 DEF CallFails, CountedFailures, Gate!Fail, Gate!Next
  <2>4. CASE CallSucceeds
    BY <2>4 DEF CallSucceeds, Gate!Succeed, Gate!Next
  <2>5. CASE Tick
    BY <2>5 DEF Tick, Gate!Tick, Gate!Next
  <2>6. CASE UNCHANGED vars
    BY <2>6 DEF vars, Gate!vars
  <2>7. QED
    BY <2>1, <2>2, <2>3, <2>4, <2>5, <2>6 DEF Next
<1>3. QED
  BY <1>1, <1>2, TypeCorrect, StateInStep, PTL DEF Spec, ImplementsGate, Gate!Spec
=============================================================================
