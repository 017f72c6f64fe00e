------------------------------ MODULE CallGate ------------------------------
(***************************************************************************)
(* What a circuit breaker promises its caller, with no breaker state at    *)
(* all: the gate counts the failures since the last success and the time   *)
(* since the last failure, and a call goes through unless MaxFailures      *)
(* failures in a row are on record and the last one is not yet older than  *)
(* ResetTimeout.  CircuitBreaker.tla, which keeps a three-valued state     *)
(* instead (fetcher/error_handler.go), is shown to implement this.         *)
(***************************************************************************)
EXTENDS Integers

CONSTANTS
    MaxFailures,    \* consecutive failures that trip the gate
    ResetTimeout,   \* ticks a tripped gate stays shut after a failure
    FailureBound    \* where the failure count saturates, at least MaxFailures

VARIABLES
    streak,         \* failures since the last success
    quiet,          \* ticks since the last failure, saturated past ResetTimeout
    call            \* what became of the latest call

vars == <<streak, quiet, call>>

Init ==
    /\ streak = 0
    /\ quiet = ResetTimeout + 1
    /\ call = "none"

\* The gate is shut: too many failures in a row, the last of them recent.
Shut == streak >= MaxFailures /\ quiet <= ResetTimeout

Admit ==
    /\ call # "running"
    /\ ~Shut
    /\ call' = "running"
    /\ UNCHANGED <<streak, quiet>>

Refuse ==
    /\ call # "running"
    /\ Shut
    /\ call' = "rejected"
    /\ UNCHANGED <<streak, quiet>>

Fail ==
    /\ call = "running"
    /\ call' = "failed"
    /\ streak' = IF streak < FailureBound THEN streak + 1 ELSE streak
    /\ quiet' = 0

Succeed ==
    /\ call = "running"
    /\ call' = "succeeded"
    /\ streak' = 0
    /\ UNCHANGED quiet

Tick ==
    /\ quiet <= ResetTimeout
    /\ quiet' = quiet + 1
    /\ UNCHANGED <<streak, call>>

Next == Admit \/ Refuse \/ Fail \/ Succeed \/ Tick

Spec == Init /\ [][Next]_vars
=============================================================================
