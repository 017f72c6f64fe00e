---------------------------- MODULE PacedFetcher ----------------------------
(***************************************************************************)
(* The scrape loop in time: StartResilient with the delays of its retries, *)
(* the deadline of its rounds, the interval between them and the circuit   *)
(* breaker, against a node that goes down and comes back.                  *)
(*                                                                         *)
(* ResilientFetcher has every query and no durations; here one query       *)
(* stands for all of a round, so that a round fails when it does, and time *)
(* is counted in ticks.  A tick is long against the steps of the program:  *)
(* it passes only when nothing is due (Due), except that a wait between    *)
(* rounds may overrun by one tick.                                         *)
(***************************************************************************)
EXTENDS CircuitBreaker, RetryPolicy

CONSTANTS
    Intervals,      \* values of FETCH_INTERVAL, in seconds
    AddressTexts,   \* what the RPC address may hold of the classifiers' keywords
    Latency         \* ticks in which a node that is up answers (external)

ASSUME PaceAssumption ==
    /\ Intervals \subseteq Int
    /\ AddressTexts \subseteq SUBSET Keywords
    /\ Latency \in Nat
    /\ Latency < Second

VARIABLES
    interval,   \* FETCH_INTERVAL
    quoted,     \* the keywords in the RPC address, a host name's included
    phase,      \* "ready" to scrape, "calling", "backoff", "waiting" for the
                \* interval to pass, or "stopped"
    attempt,    \* the loop variable of WithRetry
    timer,      \* ticks left of the delay, of the wait, or for a sound answer
    clock,      \* ticks since the context of the round was made
    shutdown,   \* the exporter's context is canceled
    latest,     \* History: the error that is being retried, or "none"
    rest,       \* ticks since a call ended, saturated at RestBound
    up,         \* the node answers, within Latency (external)
    sound,      \* it has been up since the call in progress began
    overdue     \* ticks it has been up without a published round

breakerVars == <<state, failures, sinceFailure, call>>
nodeVars == <<up, sound, overdue>>
pacedVars == <<breakerVars, interval, quoted, phase, attempt, timer, clock,
               shutdown, latest, rest, nodeVars>>

Larger(a, b) == IF a > b THEN a ELSE b

\* The wait between rounds.
Pause == interval * Second

\* rest counts as far as the longest gap a property asks for.
RestBound == Larger(Pause, MaxDelay)

\* The longest a node that is back may have to wait for a published round: a
\* round begun before it was back runs to its deadline, its failure shuts the
\* breaker, the loop looks at the breaker once per interval, and the node answers.
RecoveryBound ==
    FetchContextTimeout(interval) + ResetTimeout + Larger(Pause, 0) + 1 + Latency

\* The kinds of errors: those that may be gone at the next call, those that quote
\* the address, and those that do neither.
MayPass == {"unreachable", "warmup", "misc", "deadline"}
Quoting == {"unreachable", "denied", "deadline", "canceled"}
ErrorKinds == MayPass \cup Quoting \cup {"rejected", "lookalike"}

PacedTypeOK ==
    /\ TypeOK
    /\ interval \in Intervals
    /\ quoted \in AddressTexts
    /\ phase \in {"ready", "calling", "backoff", "waiting", "stopped"}
    /\ attempt \in 0..(MaxRetries - 1)
    /\ timer \in Int
    /\ clock \in Nat
    /\ shutdown \in BOOLEAN
    /\ latest \in {"none"} \cup ErrorKinds
    /\ rest \in Nat
    /\ up \in BOOLEAN /\ sound \in BOOLEAN
    /\ overdue \in Nat

PacedInit ==
    /\ Init
    /\ interval \in Intervals /\ quoted \in AddressTexts
    /\ phase = "ready" /\ attempt = 0 /\ timer = 0 /\ clock = 0
    /\ shutdown = FALSE /\ latest = "none"
    /\ rest = RestBound
    /\ up \in BOOLEAN /\ sound = FALSE /\ overdue = 0

-----------------------------------------------------------------------------
\* The errors of a call.  The client of the library wraps what the transport
\* says and quotes the address; an error in an answer of the node is its code and
\* its message, and quotes nothing.
Wrapped(text) ==
    [temporary |-> "silent", timeout |-> "silent", network |-> FALSE, text |-> text]

\* Per kind, what the classifiers may see of it.  A lookalike is as final as
\* a rejection, but its code or its message holds a keyword: -10 to -19, and all
\* codes from -100 to -199, hold "-1".
Errors ==
    [unreachable |-> {Wrapped({"network"} \cup quoted)},
     denied      |-> {Wrapped(quoted)},     \* no such host, no authorization
     rejected    |-> {Wrapped({})},         \* an error code for the request
     lookalike   |-> {Wrapped(words) : words \in (SUBSET Keywords) \ {{}}},
     warmup      |-> {Wrapped({"rpc"})},
     misc        |-> {Wrapped({"-1"})},     \* error code -1
     deadline    |-> {Wrapped({"timeout"} \cup quoted)},
     canceled    |-> {Wrapped(quoted)}]

\* The context of the round is done.
Expired == shutdown \/ clock >= FetchContextTimeout(interval)

\* Of a context that is done one learns why; a sound call gives no other error.
ErrorsNow ==
    IF shutdown THEN {"canceled"}
    ELSE IF Expired THEN {"deadline"}
    ELSE IF sound THEN {}
    ELSE {"unreachable", "denied", "rejected", "lookalike", "warmup", "misc"}

-----------------------------------------------------------------------------
\* A call starts.
Calling ==
    /\ phase' = "calling"
    /\ timer' = IF up THEN Latency ELSE 0
    /\ sound' = up
    /\ rest' = 0 /\ latest' = "none"
    /\ UNCHANGED <<up, overdue>>

\* The round is over, and the loop waits.
Waiting ==
    /\ phase' = "waiting"
    /\ timer' = Pause
    /\ attempt' = 0 /\ clock' = 0 /\ sound' = FALSE /\ latest' = "none"
    /\ UNCHANGED up

\* runWithResilience, admitted: the first call.
RoundBegins ==
    /\ phase = "ready"
    /\ CallAdmit
    /\ Calling
    /\ UNCHANGED <<interval, quoted, attempt, clock, shutdown>>

\* runWithResilience, refused by the open breaker.
RoundRefused ==
    /\ phase = "ready"
    /\ CallReject
    /\ Waiting
    /\ UNCHANGED <<interval, quoted, shutdown, rest, overdue>>

\* The call is answered, and the round published.
RoundSucceeds ==
    /\ phase = "calling"
    /\ ~Expired
    /\ CallSucceeds
    /\ Waiting
    /\ rest' = 0 /\ overdue' = 0
    /\ UNCHANGED <<interval, quoted, shutdown>>

\* WithRetry: the error of the call is final, or it was the last call.
RoundFails ==
    /\ phase = "calling"
    /\ \E e \in ErrorsNow : \E err \in Errors[e] :
          ~ShouldRetry(err) \/ attempt = MaxRetries - 1
    /\ CallFails
    /\ Waiting
    /\ rest' = 0
    /\ UNCHANGED <<interval, quoted, shutdown, overdue>>

\* WithRetry: the error is worth a retry, after a delay.
BacksOff ==
    /\ phase = "calling"
    /\ attempt < MaxRetries - 1
    /\ \E e \in ErrorsNow : \E err \in Errors[e] :
          /\ ShouldRetry(err)
          /\ latest' = e
    /\ phase' = "backoff"
    /\ timer' \in RetryDelays(attempt)
    /\ rest' = 0 /\ sound' = FALSE
    /\ UNCHANGED <<breakerVars, interval, quoted, attempt, clock, shutdown, up, overdue>>

\* The two cases of its select, of which Go takes any that is ready; before the
\* second, the slip of a wait that does not look at the context.
DelayOver == phase = "backoff" /\ timer <= 0
NotInterrupted == FALSE
Interrupted == phase = "backoff" /\ Expired

Retries ==
    /\ DelayOver
    /\ attempt' = attempt + 1
    /\ Calling
    /\ UNCHANGED <<breakerVars, interval, quoted, clock, shutdown>>

GivesUp ==
    /\ Interrupted
    /\ CallFails
    /\ Waiting
    /\ UNCHANGED <<interval, quoted, shutdown, rest, overdue>>

\* The two cases of the select of StartResilient.
WaitElapses ==
    /\ phase = "waiting"
    /\ timer <= 0
    /\ phase' = "ready" /\ timer' = 0
    /\ UNCHANGED <<breakerVars, interval, quoted, attempt, clock, shutdown, latest, rest,
                   nodeVars>>

Stops ==
    /\ phase = "waiting"
    /\ shutdown
    /\ phase' = "stopped" /\ timer' = 0
    /\ UNCHANGED <<breakerVars, interval, quoted, attempt, clock, shutdown, latest, rest,
                   nodeVars>>

-----------------------------------------------------------------------------
\* A signal.
ShutsDown ==
    /\ ~shutdown
    /\ shutdown' = TRUE
    /\ UNCHANGED <<breakerVars, interval, quoted, phase, attempt, timer, clock, latest,
                   rest, nodeVars>>

NodeChanges ==
    /\ up' = ~up
    /\ sound' = FALSE
    /\ overdue' = 0
    /\ UNCHANGED <<breakerVars, interval, quoted, phase, attempt, timer, clock, shutdown,
                   latest, rest>>

\* Something happens before the next tick.
Due ==
    \/ phase = "ready" \/ DelayOver \/ Interrupted
    \/ phase = "calling" /\ (Expired \/ (sound /\ timer = 0))
    \/ phase = "waiting" /\ (shutdown \/ timer < 0)

TimePasses ==
    /\ ~Due
    /\ Tick \/ (sinceFailure > ResetTimeout /\ UNCHANGED breakerVars)
    /\ timer' = IF phase \in {"backoff", "waiting"} \/ (phase = "calling" /\ timer > 0)
                THEN timer - 1 ELSE timer
    /\ clock' = IF phase \in {"calling", "backoff"} THEN clock + 1 ELSE clock
    /\ rest' = IF phase # "calling" /\ rest < RestBound THEN rest + 1 ELSE rest
    /\ overdue' = IF up /\ phase # "stopped" THEN overdue + 1 ELSE 0
    /\ UNCHANGED <<interval, quoted, phase, attempt, shutdown, latest, up, sound>>

PacedNext ==
    \/ RoundBegins \/ RoundRefused \/ RoundSucceeds \/ RoundFails
    \/ BacksOff \/ Retries \/ GivesUp \/ WaitElapses \/ Stops
    \/ ShutsDown \/ NodeChanges \/ TimePasses

PacedSpec == PacedInit /\ [][PacedNext]_pacedVars

-----------------------------------------------------------------------------
\* A round ends when its context does, whatever a call, a delay or the race of
\* the two waits for (the timeouts of StartResilient and collectAllMetrics, and
\* the select of WithRetry).
RoundsEndInTime ==
    phase \in {"calling", "backoff"} => clock <= FetchContextTimeout(interval)

\* The node rests between two calls of a query: nine tenths of the delay that is
\* due before a retry, a FETCH_INTERVAL before a round (nothing at all when that
\* is zero or less, which no reading of it refuses).
CallsArePaced ==
    [][phase # "calling" /\ phase' = "calling" =>
          rest >= IF phase = "backoff" THEN Backoff(attempt) - Backoff(attempt) \div 10
                  ELSE Pause]_pacedVars

\* The handler judges errors by their text, and retries one that cannot pass by
\* itself for two reasons only: it quotes the RPC address, and that holds a keyword
\* of some classifier, or the node's own code or message does
\* (isRetryableRPCError, "RPC misc error (sometimes temporary)").
RetriesHaveCause ==
    phase = "backoff" =>
        \/ latest \in MayPass
        \/ latest \in Quoting /\ quoted # {}
        \/ latest = "lookalike"

\* A node that stays up is not left out for ever, nor for long: delays, deadline,
\* interval and breaker together keep it waiting for RecoveryBound at most.
\* FETCH_INTERVAL may be zero, where a deadline equal to it would let no call
\* succeed.
RecoversInTime == overdue <= RecoveryBound
=============================================================================
