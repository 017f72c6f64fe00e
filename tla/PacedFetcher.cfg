\* Ticks of a tenth of a second, so that the jitter is a tick; a breaker that
\* opens after five failures and rests 2.4 s; the delay is capped at its first
\* doubling.
CONSTANTS
    MaxFailures = 5
    ResetTimeout = 24
    FailureBound = 6
    MaxRetries = 3
    Second = 10
    MaxDelay = 15
    Intervals = {0, 2, 3}
    AddressTexts = {{}, {"timeout"}}
    Latency = 2
SPECIFICATION PacedSpec
INVARIANTS PacedTypeOK StateMatchesFailures RoundsEndInTime RetriesHaveCause RecoversInTime
PROPERTIES ImplementsGate CallsArePaced
