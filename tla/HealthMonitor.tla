--------------------------- MODULE HealthMonitor ---------------------------
(***************************************************************************)
(* The health monitor of config/health.go: a loop that runs every check in *)
(* a goroutine of its own, round after round, files the outcomes in a map  *)
(* behind a sync.RWMutex, and a monitor API that any goroutine may call.   *)
(*                                                                         *)
(* A lock of sync.RWMutex is not recursive, and prefers writers: once a    *)
(* writer has announced itself no new reader enters, and it proceeds when  *)
(* the readers that are in have left.  The variable writer is the writer   *)
(* announced; who holds the read lock shows in the program counters.       *)
(*                                                                         *)
(* A check is known by the outcome of its latest run, in which "degraded"  *)
(* is not told from "healthy", no more than IsHealthy tells them apart; an *)
(* update of it is cut in two, its status and the rest.                    *)
(***************************************************************************)
CONSTANTS
    Checks,     \* the keys initializeChecks enters in the map
    Callers,    \* goroutines that use the monitor
    Calls,      \* what they call, of "start", "stop", "status" (the methods
                \* GetHealthStatus and IsHealthy) and "summary"
    Loops,      \* names for the loop goroutines, one for each start
    Restarted   \* whether a stopped monitor is started again

ASSUME MonitorAssumption ==
    /\ Calls \subseteq {"start", "stop", "status", "summary"}
    /\ Restarted \in BOOLEAN
    /\ "caller" \notin Loops   \* it marks the callers among the writers

VARIABLES
    running, stopClosed, checks,    \* the fields running, stopChan and checks
    writer,     \* the RWMutex: who has announced, or holds, the write lock
    ctxDone,    \* the context given to Start is canceled
    call, caller,   \* call[c]: the call c is in, or "none"; caller[c]: where
    loop,       \* loop[g]: the goroutine monitorLoop
    checker,    \* checker[g][n]: its goroutine for check n
    outcome     \* outcome[g][n]: what that goroutine found

lockVars == <<checks, writer>>
monitorVars == <<running, stopClosed, ctxDone>>
callerVars == <<call, caller>>
loopVars == <<loop, checker, outcome>>
vars == <<lockVars, monitorVars, callerVars, loopVars>>

Outcomes == {"healthy", "unhealthy"}
NoOne == <<>>
Caller(c) == <<"caller", c>>
Checker(g, n) == <<g, n>>

TypeOK ==
    /\ running \in BOOLEAN /\ stopClosed \in BOOLEAN /\ ctxDone \in BOOLEAN
    /\ checks \in [Checks -> [status : Outcomes \cup {"unknown"},
                              rest : Outcomes \cup {"unknown"}]]
    /\ writer \in {NoOne} \cup {Caller(c) : c \in Callers} \cup (Loops \X Checks)
    /\ call \in [Callers -> Calls \cup {"none"}]
    /\ caller \in [Callers -> {"idle", "entering", "announced", "nested", "inside"}]
    /\ loop \in [Loops -> {"none", "ranging", "waiting", "entering", "reading",
                           "selecting", "ended"}]
    /\ checker \in [Loops -> [Checks -> {"unspawned", "checking", "entering",
                                         "announced", "writing", "done"}]]
    /\ outcome \in [Loops -> [Checks -> Outcomes]]

Unknown == [n \in Checks |-> [status |-> "unknown", rest |-> "unknown"]]

\* NewConfigHealthMonitor.  An empty map is not told from one of unknown checks.
Init ==
    /\ running = FALSE /\ stopClosed = FALSE /\ ctxDone = FALSE
    /\ checks = Unknown
    /\ writer = NoOne
    /\ call = [c \in Callers |-> "none"]
    /\ caller = [c \in Callers |-> "idle"]
    /\ loop = [g \in Loops |-> "none"]
    /\ checker = [g \in Loops |-> [n \in Checks |-> "done"]]
    /\ outcome = [g \in Loops |-> [n \in Checks |-> "healthy"]]

-----------------------------------------------------------------------------
\* sync.RWMutex.

ReadLocked ==
    \/ \E c \in Callers : \/ caller[c] = "nested"
                          \/ caller[c] = "inside" /\ call[c] \in {"status", "summary"}
    \/ \E g \in Loops : loop[g] = "reading"
MayRead == writer = NoOne
MayAnnounce == writer = NoOne
\* w has announced itself and every reader has left.
MayWrite(w) == writer = w /\ ~ReadLocked

-----------------------------------------------------------------------------
\* The callers.

Writes(c) == call[c] \in {"start", "stop"}
Goto(c, place) == caller' = [caller EXCEPT ![c] = place] /\ UNCHANGED call
Return(c) ==
    /\ caller' = [caller EXCEPT ![c] = "idle"]
    /\ call' = [call EXCEPT ![c] = "none"]

\* Unless it is restarted, a monitor lives once: it is not started any more when
\* a stop has begun, nor stopped before a start has returned (external).
Orderly(op) ==
    ~Restarted =>
        /\ op = "start" => /\ ~stopClosed
                           /\ \A d \in Callers : call[d] # "stop"
        /\ op = "stop" => \A d \in Callers : call[d] # "start"

CallBegins(c) ==
    /\ caller[c] = "idle"
    /\ \E op \in Calls : Orderly(op) /\ call' = [call EXCEPT ![c] = op]
    /\ caller' = [caller EXCEPT ![c] = "entering"]
    /\ UNCHANGED <<lockVars, monitorVars, loopVars>>

\* Lock, of Start and Stop: wait for other writers, then announce.
CallerAnnounces(c) ==
    /\ caller[c] = "entering"
    /\ Writes(c)
    /\ MayAnnounce
    /\ writer' = Caller(c)
    /\ Goto(c, "announced")
    /\ UNCHANGED <<checks, monitorVars, loopVars>>

\* RLock, of the readers; GetHealthSummary then calls IsHealthy, which takes the
\* read lock a second time.
CallerReads(c) ==
    /\ caller[c] \in {"entering", "nested"}
    /\ ~Writes(c)
    /\ MayRead
    /\ Goto(c, IF caller[c] = "entering" /\ call[c] = "summary" THEN "nested" ELSE "inside")
    /\ UNCHANGED <<lockVars, monitorVars, loopVars>>

CallerLeaves(c) ==
    /\ caller[c] = "inside"
    /\ ~Writes(c)
    /\ Return(c)
    /\ UNCHANGED <<lockVars, monitorVars, loopVars>>

\* Start, when it must refuse; before it, the slip of not looking.
NeverRefused == FALSE
Refused == running

\* Start inside the lock: an error when the monitor runs, otherwise
\* initializeChecks, which writes to the map.
StartRefused(c) ==
    /\ caller[c] = "announced"
    /\ call[c] = "start"
    /\ MayWrite(Caller(c))
    /\ Refused
    /\ writer' = NoOne
    /\ Return(c)
    /\ UNCHANGED <<checks, monitorVars, loopVars>>
StartInitializes(c) ==
    /\ caller[c] = "announced"
    /\ call[c] = "start"
    /\ MayWrite(Caller(c))
    /\ ~Refused
    /\ running' = TRUE
    /\ Goto(c, "inside")
    /\ UNCHANGED <<lockVars, stopClosed, ctxDone, loopVars>>
StartReturns(c) ==
    /\ caller[c] = "inside"
    /\ call[c] = "start"
    /\ checks' = Unknown
    /\ \E g \in Loops :
          /\ loop[g] = "none"
          /\ loop' = [loop EXCEPT ![g] = "ranging"]
          /\ checker' = [checker EXCEPT ![g] = [n \in Checks |-> "unspawned"]]
    /\ writer' = NoOne
    /\ Return(c)
    /\ UNCHANGED <<monitorVars, outcome>>

\* Stop inside the lock; before what it does to a running monitor, the slips of
\* clearing the flag alone and of closing the channel alone.
FlagOnly == running' = FALSE /\ UNCHANGED stopClosed
ChannelOnly == stopClosed' = TRUE /\ UNCHANGED running
ShutDown == stopClosed' = TRUE /\ running' = FALSE
StopReturns(c) ==
    /\ caller[c] = "announced"
    /\ call[c] = "stop"
    /\ MayWrite(Caller(c))
    /\ IF running THEN ShutDown ELSE UNCHANGED <<running, stopClosed>>
    /\ writer' = NoOne
    /\ Return(c)
    /\ UNCHANGED <<checks, ctxDone, loopVars>>

-----------------------------------------------------------------------------
\* monitorLoop and runHealthChecks.

LoopGoto(g, place) ==
    /\ loop' = [loop EXCEPT ![g] = place]
    /\ UNCHANGED <<lockVars, monitorVars, callerVars, checker, outcome>>

\* The conditions of the loop; before the first, the slip of it.
SomeDone(g) == \E n \in Checks : checker[g][n] = "done"
AllDone(g) == \A n \in Checks : checker[g][n] = "done"      \* wg.Wait()
Told == stopClosed \/ ctxDone

\* The range over the map, without the lock, has spawned a goroutine for each.
LoopSpawned(g) ==
    loop[g] = "ranging" /\ (\A n \in Checks : checker[g][n] # "unspawned")
    /\ LoopGoto(g, "waiting")
LoopWaited(g) == loop[g] = "waiting" /\ AllDone(g) /\ LoopGoto(g, "entering")
\* IsHealthy, for the log.
LoopReads(g) == loop[g] = "entering" /\ MayRead /\ LoopGoto(g, "reading")
LoopLeaves(g) == loop[g] = "reading" /\ LoopGoto(g, "selecting")
LoopStops(g) == loop[g] = "selecting" /\ Told /\ LoopGoto(g, "ended")
LoopTicks(g) ==
    /\ loop[g] = "selecting"
    /\ loop' = [loop EXCEPT ![g] = "ranging"]
    /\ checker' = [checker EXCEPT ![g] = [n \in Checks |-> "unspawned"]]
    /\ UNCHANGED <<lockVars, monitorVars, callerVars, outcome>>

-----------------------------------------------------------------------------
\* runSingleCheck.

CheckerGoto(g, n, place) ==
    /\ checker' = [checker EXCEPT ![g][n] = place]
    /\ UNCHANGED <<monitorVars, callerVars, loop>>

CheckSpawned(g, n) ==
    /\ loop[g] = "ranging"
    /\ checker[g][n] = "unspawned"
    /\ CheckerGoto(g, n, "checking")
    /\ UNCHANGED <<lockVars, outcome>>

\* The check itself, which healthCheckTimeout bounds; before it, the slip of a
\* check in the map that has no case in the switch.
UnhandledCheckEnds(g, n) ==
    /\ checker[g][n] = "checking"
    /\ outcome' = [outcome EXCEPT ![g][n] = "unknown"]
    /\ CheckerGoto(g, n, "entering")
    /\ UNCHANGED lockVars
CheckEnds(g, n) ==
    /\ checker[g][n] = "checking"
    /\ \E o \in Outcomes : outcome' = [outcome EXCEPT ![g][n] = o]
    /\ CheckerGoto(g, n, "entering")
    /\ UNCHANGED lockVars

\* The Lock around the update.
CheckAnnounces(g, n) ==
    /\ checker[g][n] = "entering"
    /\ MayAnnounce
    /\ writer' = Checker(g, n)
    /\ CheckerGoto(g, n, "announced")
    /\ UNCHANGED <<checks, outcome>>

\* The first fields of the update, and its last with the Unlock; before them,
\* the slip of an update without the lock.
UnlockedCheckWrites(g, n) ==
    /\ checker[g][n] = "entering"
    /\ checks' = [checks EXCEPT ![n].status = outcome[g][n]]
    /\ CheckerGoto(g, n, "writing")
    /\ UNCHANGED <<writer, outcome>>
CheckWrites(g, n) ==
    /\ checker[g][n] = "announced"
    /\ MayWrite(Checker(g, n))
    /\ checks' = [checks EXCEPT ![n].status = outcome[g][n]]
    /\ CheckerGoto(g, n, "writing")
    /\ UNCHANGED <<writer, outcome>>
CheckReturns(g, n) ==
    /\ checker[g][n] = "writing"
    /\ checks' = [checks EXCEPT ![n].rest = outcome[g][n]]
    /\ writer' = NoOne
    /\ CheckerGoto(g, n, "done")
    /\ UNCHANGED outcome

-----------------------------------------------------------------------------
Cancel ==
    /\ ~ctxDone
    /\ ctxDone' = TRUE
    /\ UNCHANGED <<running, stopClosed, lockVars, callerVars, loopVars>>

CallerStep(c) ==
    \/ CallerAnnounces(c) \/ CallerReads(c) \/ CallerLeaves(c)
    \/ StartRefused(c) \/ StartInitializes(c) \/ StartReturns(c) \/ StopReturns(c)
LoopStep(g) ==
    LoopSpawned(g) \/ LoopWaited(g) \/ LoopReads(g) \/ LoopLeaves(g)
CheckerStep(g, n) ==
    \/ CheckSpawned(g, n) \/ CheckEnds(g, n)
    \/ CheckAnnounces(g, n) \/ CheckWrites(g, n) \/ CheckReturns(g, n)

Next ==
    \/ \E c \in Callers : CallBegins(c) \/ CallerStep(c)
    \/ \E g \in Loops : LoopStep(g) \/ LoopStops(g) \/ LoopTicks(g)
    \/ \E g \in Loops, n \in Checks : CheckerStep(g, n)
    \/ Cancel

Spec == Init /\ [][Next]_vars

\* Goroutines run; the RWMutex starves nobody, and neither does the select of
\* the loop, whose ticker may be ready together with a stop.  No call is owed.
Fairness ==
    /\ \A c \in Callers : SF_vars(CallerStep(c))
    /\ \A g \in Loops : SF_vars(LoopStep(g)) /\ SF_vars(LoopStops(g))
    /\ \A g \in Loops, n \in Checks : SF_vars(CheckerStep(g, n))

FairSpec == Spec /\ Fairness

-----------------------------------------------------------------------------
\* The map is not written while the loop ranges over it, which it does without
\* the lock; Go ends the process when that happens (runHealthChecks against
\* initializeChecks).
NoMapRace ==
    \A c \in Callers : caller[c] = "inside" /\ call[c] = "start" =>
        \A g \in Loops : loop[g] # "ranging"

\* A stop finds the channel of a running monitor open: closing it twice would
\* panic ("Stop again - should not panic", health_test.go:70).
NoDoubleClose == running => ~stopClosed

\* Whoever holds the read lock sees whole checks, never the first fields of one
\* update with the last of another (GetHealthStatus, runSingleCheck).
ReadersSeeWholeChecks ==
    ReadLocked => \A n \in Checks : checks[n].status = checks[n].rest

\* The verdict a round ends with is about the outcomes of that round, all of
\* them and no older ones (runHealthChecks waits for its goroutines).
VerdictOfRound ==
    \A g \in Loops : loop[g] = "reading" =>
        \A n \in Checks : checks[n].status = outcome[g][n]

\* Nobody can tell the monitor from one whose calls, updates and rounds take no
\* time: a start appears when it returns, an update with its last field, and what
\* a reader finds while it holds the lock is the board (the RWMutex around Start,
\* Stop, runSingleCheck and the readers, the WaitGroup of runHealthChecks).
Board == INSTANCE MonitorBoard WITH
    running <- running /\ ~\E c \in Callers : caller[c] = "inside" /\ call[c] = "start",
    closed <- stopClosed,
    pending <- {n \in Checks : \E g \in Loops : checker[g][n] # "done"},
    board <- [n \in Checks |-> IF ReadLocked THEN checks[n].status ELSE checks[n].rest]

ImplementsBoard == Board!Spec

\* A monitor that is told to stop, or whose context is canceled, ends its
\* goroutine, whatever its checks and its callers are doing, as long as none of
\* them asks for the summary, which can deadlock it (NobodyStuck).
MonitorEnds ==
    \A g \in Loops : loop[g] # "none" /\ Told ~> loop[g] = "ended"

\* No caller waits, with the read lock in its hands, for a writer that waits for
\* that lock to be released: such a pair, and all who come after, wait for ever
\* ("Thread-safe implementation with race detection", README.md:243).
NobodyStuck == \A c \in Callers : caller[c] = "nested" => writer = NoOne
=============================================================================
