---------------------------- MODULE MonitorBoard ----------------------------
(***************************************************************************)
(* What a health monitor promises whoever asks it, when it is not started  *)
(* again: one life, in which it is started and stopped at most once, and   *)
(* rounds in which every check files its outcome exactly once, the next    *)
(* round not beginning before.  Its board changes one check at a time and  *)
(* at once, and is wiped by the start.  Locks, callers and goroutines do   *)
(* not appear.  HealthMonitor.tla is shown to implement this.              *)
(***************************************************************************)
CONSTANTS
    Checks,         \* what is checked
    Outcomes        \* what a check may find

VARIABLES
    running,        \* started, and not stopped
    closed,         \* stopped
    pending,        \* checks that have yet to file in this round
    board           \* board[n]: the outcome check n has filed last

vars == <<running, closed, pending, board>>

Unknown == [n \in Checks |-> "unknown"]

Init ==
    /\ running = FALSE /\ closed = FALSE
    /\ pending = {}
    /\ board = Unknown

Start ==
    /\ ~running /\ ~closed
    /\ running' = TRUE
    /\ pending' = Checks
    /\ board' = Unknown
    /\ UNCHANGED closed

Stop ==
    /\ running /\ ~closed
    /\ running' = FALSE /\ closed' = TRUE
    /\ UNCHANGED <<pending, board>>

File(n) ==
    /\ n \in pending
    /\ \E o \in Outcomes : board' = [board EXCEPT ![n] = o]
    /\ pending' = pending \ {n}
    /\ UNCHANGED <<running, closed>>

\* A monitor that is told to stop may yet begin a round.
NextRound ==
    /\ running \/ closed
    /\ pending = {}
    /\ pending' = Checks
    /\ UNCHANGED <<running, closed, board>>

Next == Start \/ Stop \/ NextRound \/ \E n \in Checks : File(n)

Spec == Init /\ [][Next]_vars
=============================================================================
