---------------------------- MODULE ScrapeBoard ----------------------------
(***************************************************************************)
(* What one scrape of bitcoind promises whoever reads the gauges: nothing  *)
(* changes until the round is over, and then either the whole round is     *)
(* abandoned, or enough queries are answered and all the answers of this   *)
(* round are published together.  Queries, retries, goroutines and         *)
(* channels do not appear.  A gauge of ZeroedFetchers that got no answer   *)
(* falls to zero, which is how the code treats the hash rates.             *)
(* ScrapeRound.tla is shown to implement this.                             *)
(***************************************************************************)
CONSTANTS
    Fetchers,           \* the queries of a round
    ZeroedFetchers,     \* those whose gauge is set even without an answer
    EnoughAnswers,      \* the sets of answered queries a round may publish
    Values              \* answers of bitcoind

VARIABLES
    phase,      \* "idle", "running", or "published": still running, but
                \* only to end
    board       \* board[f]: what the gauge of query f shows

vars == <<phase, board>>

Init ==
    /\ phase = "idle"
    /\ board = [f \in Fetchers |-> "unset"]

Begin ==
    /\ phase = "idle"
    /\ phase' = "running"
    /\ UNCHANGED board

Abandon ==
    /\ phase = "running"
    /\ phase' = "idle"
    /\ UNCHANGED board

\* The answers are published, together, at most once in a round.
Publish ==
    /\ phase = "running"
    /\ \E answered \in EnoughAnswers : \E answer \in [answered -> Values] :
          board' = [f \in Fetchers |-> IF f \in answered THEN answer[f]
                                       ELSE IF f \in ZeroedFetchers THEN "zero"
                                       ELSE board[f]]
    /\ phase' = "published"

End ==
    /\ phase = "published"
    /\ phase' = "idle"
    /\ UNCHANGED board

Next == Begin \/ Abandon \/ Publish \/ End

Spec == Init /\ [][Next]_vars
=============================================================================
