----------------------------- MODULE RetryPolicy -----------------------------
(***************************************************************************)
(* What fetcher/error_handler.go decides without a state: which errors are *)
(* worth a retry, and how long to wait before it.                          *)
(*                                                                         *)
(* An error is what the classifiers ask of it: whether it has the methods  *)
(* Temporary and Timeout and what they say, whether it is a net.OpError or *)
(* net.DNSError itself, and which groups of keywords its text contains.    *)
(* The classifiers use type assertions, not errors.As, so a wrapped error  *)
(* is silent and only its text counts; and the text of an error of the     *)
(* transport quotes the address that was called.                           *)
(***************************************************************************)
EXTENDS Integers

CONSTANTS
    MaxRetries,     \* defaultMaxRetries: calls in all, in spite of its name
    Second,         \* a second in ticks; NewErrorHandler's baseDelay
    MaxDelay        \* its maxDelay, in ticks

ASSUME PolicyAssumption ==
    /\ MaxRetries \in Nat \ {0}
    /\ Second \in Nat \ {0}
    /\ MaxDelay \in Nat \ {0}

Keywords == {"network", "timeout", "rpc", "-1"}
Error == [temporary : {"yes", "no", "silent"}, timeout : {"yes", "no", "silent"},
          network : BOOLEAN, text : SUBSET Keywords]

-----------------------------------------------------------------------------
IsTemporary(err) == err.temporary = "yes"
IsNetwork(err) == err.network \/ "network" \in err.text

\* A Timeout method that says no is believed, whatever the text.
IsTimeout(err) ==
    err.timeout = "yes" \/ (err.timeout = "silent" /\ "timeout" \in err.text)
IsRetryableRPC(err) == err.text \cap {"rpc", "-1"} # {}

\* ShouldRetry; before it, the slip of retrying whatever happens.
AlwaysShouldRetry(err) == TRUE
ShouldRetry(err) ==
    IsTemporary(err) \/ IsNetwork(err) \/ IsTimeout(err) \/ IsRetryableRPC(err)

-----------------------------------------------------------------------------
\* The delay before the jitter, and with it.
Backoff(attempt) ==
    LET delay == Second * 2 ^ attempt IN IF delay > MaxDelay THEN MaxDelay ELSE delay
Jittered(delay) == (delay - delay \div 10) .. (delay + delay \div 10)

\* GetRetryDelay: the delays it may return after the failed attempt (0 is the
\* first); before it, the slip of taking the last attempt but one for the last.
HastyRetryDelays(attempt) ==
    IF attempt >= MaxRetries - 2 THEN {0} ELSE Jittered(Backoff(attempt))
RetryDelays(attempt) ==
    IF attempt >= MaxRetries THEN {0} ELSE Jittered(Backoff(attempt))

\* fetchContextTimeout, for a FETCH_INTERVAL in seconds; before it, the slip of
\* no lower limit.
BareTimeout(interval) == interval * Second
FetchContextTimeout(interval) ==
    IF interval * Second < Second THEN Second ELSE interval * Second
=============================================================================
