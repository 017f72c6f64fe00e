------------------------ MODULE HealthMonitorProofs ------------------------
(***************************************************************************)
(* Theorems about HealthMonitor.tla, for any checks, callers and calls.    *)
(* The invariants of the loop are about a monitor that lives once: a       *)
(* monitor started again after a stop breaks them, as its channel stays    *)
(* closed and the loops of its two lives share its map.                    *)
(***************************************************************************)
EXTENDS HealthMonitor, TLAPS

Starting(c) == caller[c] = "inside" /\ call[c] = "start"

-----------------------------------------------------------------------------
\* The RWMutex excludes: whoever is past its announcement is the writer, and
\* nobody reads while the writer is at work.
Working == \/ \E c \in Callers : Starting(c)
           \/ \E g \in Loops, n \in Checks : checker[g][n] = "writing"

LockInv ==
    /\ \A c \in Callers : caller[c] = "announced" \/ Starting(c) => writer = Caller(c)
    /\ \A c \in Callers : caller[c] = "announced" => Writes(c)
    /\ \A c \in Callers : caller[c] = "nested" => ~Writes(c)
    /\ \A c \in Callers : caller[c] = "inside" => call[c] # "stop"
    /\ \A g \in Loops, n \in Checks :
          checker[g][n] \in {"announced", "writing"} => writer = Checker(g, n)
    /\ Working => ~ReadLocked

-----------------------------------------------------------------------------
\* A monitor that is not restarted starts one loop and is stopped at most once.
LifeInv ==
    /\ \A c, d \in Callers : ~(call[c] = "start" /\ call[d] = "stop")
    /\ stopClosed => ~running /\ \A c \in Callers : call[c] # "start"
    /\ ~running /\ ~stopClosed => \A g \in Loops : loop[g] = "none"
    /\ \A c \in Callers : Starting(c) => running /\ \A g \in Loops : loop[g] = "none"
    /\ \A g, h \in Loops : loop[g] # "none" /\ loop[h] # "none" => g = h

-----------------------------------------------------------------------------
\* What a check says, and when: its update is torn only while its goroutine is
\* in it, and once that goroutine is done the check has its outcome.
CheckInv ==
    /\ \A g \in Loops : loop[g] \notin {"ranging", "waiting"} => AllDone(g)
    /\ \A n \in Checks : \/ checks[n].status = checks[n].rest
                         \/ \E g \in Loops : checker[g][n] = "writing"
    /\ \A g \in Loops, n \in Checks :
          checker[g][n] = "writing" => checks[n].status = outcome[g][n]

RoundInv ==
    \A g \in Loops, n \in Checks : loop[g] # "none" /\ checker[g][n] = "done" =>
        checks[n].status = outcome[g][n]

\* Who writes is known by name.
LEMMA WritersDiffer ==
    /\ \A c, d \in Callers : Caller(c) = Caller(d) => c = d
    /\ \A c \in Callers : Caller(c) # NoOne
    /\ \A g, h \in Loops, n, m \in Checks :
          Checker(g, n) = Checker(h, m) => g = h /\ n = m
    /\ \A g \in Loops, n \in Checks : Checker(g, n) # NoOne
    /\ \A c \in Callers, g \in Loops, n \in Checks : Caller(c) # Checker(g, n)
BY MonitorAssumption DEF MonitorAssumption, Caller, Checker, NoOne

-----------------------------------------------------------------------------
\* Each invariant is kept by every step, given the ones before it; the types first,
LEMMA TypeStep ==
  TypeOK /\ [Next]_vars => TypeOK'
<1> SUFFICES ASSUME TypeOK, [Next]_vars PROVE TypeOK'
  OBVIOUS
<1> USE DEF TypeOK, Outcomes, lockVars, monitorVars, callerVars, loopVars
<1>1. ASSUME NEW c \in Callers, CallBegins(c) PROVE TypeOK'
  BY <1>1 DEF CallBegins, Orderly
<1>2. ASSUME NEW c \in Callers, CallerAnnounces(c) PROVE TypeOK'
  BY <1>2 DEF CallerAnnounces, Goto
<1>3. ASSUME NEW c \in Callers, CallerReads(c) PROVE TypeOK'
  BY <1>3 DEF CallerReads, Goto
<1>4. ASSUME NEW c \in Callers, CallerLeaves(c) PROVE TypeOK'
  BY <1>4 DEF CallerLeaves, Return
<1>5. ASSUME NEW c \in Callers, StartRefused(c) PROVE TypeOK'
  BY <1>5 DEF StartRefused, Return, Refused
<1>6. ASSUME NEW c \in Callers, StartInitializes(c) PROVE TypeOK'
  BY <1>6 DEF StartInitializes, Goto, Refused
<1>7. ASSUME NEW c \in Callers, StartReturns(c) PROVE TypeOK'
  BY <1>7 DEF StartReturns, Return, Unknown
<1>8. ASSUME NEW c \in Callers, StopReturns(c) PROVE TypeOK'
  BY <1>8 DEF StopReturns, Return, ShutDown
<1>9. ASSUME NEW g \in Loops, LoopSpawned(g) PROVE TypeOK'
  BY <1>9 DEF LoopSpawned, LoopGoto
<1>10. ASSUME NEW g \in Loops, LoopWaited(g) PROVE TypeOK'
  BY <1>10 DEF LoopWaited, LoopGoto
<1>11. ASSUME NEW g \in Loops, LoopReads(g) PROVE TypeOK'
  BY <1>11 DEF LoopReads, LoopGoto
<1>12. ASSUME NEW g \in Loops, LoopLeaves(g) PROVE TypeOK'
  BY <1>12 DEF LoopLeaves, LoopGoto
<1>13. ASSUME NEW g \in Loops, LoopStops(g) PROVE TypeOK'
  BY <1>13 DEF LoopStops, LoopGoto, Told
<1>14. ASSUME NEW g \in Loops, LoopTicks(g) PROVE TypeOK'
  BY <1>14 DEF LoopTicks
<1>15. ASSUME NEW g \in Loops, NEW n \in Checks, CheckSpawned(g, n) PROVE TypeOK'
  BY <1>15 DEF CheckSpawned, CheckerGoto
<1>16. ASSUME NEW g \in Loops, NEW n \in Checks, CheckEnds(g, n) PROVE TypeOK'
  BY <1>16 DEF CheckEnds, CheckerGoto
<1>17. ASSUME NEW g \in Loops, NEW n \in Checks, CheckAnnounces(g, n) PROVE TypeOK'
  BY <1>17 DEF CheckAnnounces, CheckerGoto, Checker
<1>18. ASSUME NEW g \in Loops, NEW n \in Checks, CheckWrites(g, n) PROVE TypeOK'
  <2>1. checks[n] \in [status : Outcomes \cup {"unknown"}, rest : Outcomes \cup {"unknown"}]
    OBVIOUS
  <2>2. [checks[n] EXCEPT !.status = outcome[g][n]]
          \in [status : Outcomes \cup {"unknown"}, rest : Outcomes \cup {"unknown"}]
    BY <2>1
  <2>3. checks' = [checks EXCEPT ![n] = [checks[n] EXCEPT !.status = outcome[g][n]]]
    BY <1>18 DEF CheckWrites
  <2>4. checks' \in [Checks -> [status : Outcomes \cup {"unknown"},
                               rest : Outcomes \cup {"unknown"}]]
    BY <2>2, <2>3
  <2>5. QED
    BY <1>18, <2>4 DEF CheckWrites, CheckerGoto
<1>19. ASSUME NEW g \in Loops, NEW n \in Checks, CheckReturns(g, n) PROVE TypeOK'
  <2>1. checks[n] \in [status : Outcomes \cup {"unknown"}, rest : Outcomes \cup {"unknown"}]
    OBVIOUS
  <2>2. [checks[n] EXCEPT !.rest = outcome[g][n]]
          \in [status : Outcomes \cup {"unknown"}, rest : Outcomes \cup {"unknown"}]
    BY <2>1
  <2>3. checks' = [checks EXCEPT ![n] = [checks[n] EXCEPT !.rest = outcome[g][n]]]
    BY <1>19 DEF CheckReturns
  <2>4. checks' \in [Checks -> [status : Outcomes \cup {"unknown"},
                               rest : Outcomes \cup {"unknown"}]]
    BY <2>2, <2>3
  <2>5. QED
    BY <1>19, <2>4 DEF CheckReturns, CheckerGoto
<1>20. CASE Cancel
  BY <1>20 DEF Cancel
<1>21. CASE UNCHANGED vars
  BY <1>21 DEF vars
<1>22. QED
  BY <1>1, <1>2, <1>3, <1>4, <1>5, <1>6, <1>7, <1>8, <1>9, <1>10, <1>11, <1>12,
     <1>13, <1>14, <1>15, <1>16, <1>17, <1>18, <1>19, <1>20, <1>21
     DEF Next, CallerStep, LoopStep, CheckerStep

\* then the lock,
LEMMA LockStep ==
  TypeOK /\ LockInv /\ [Next]_vars => LockInv'
<1> SUFFICES ASSUME TypeOK /\ LockInv, [Next]_vars PROVE LockInv'
  OBVIOUS
<1> USE WritersDiffer DEF LockInv, TypeOK, Working, ReadLocked, Starting, Writes,
         MayAnnounce, MayRead, MayWrite, lockVars, monitorVars, callerVars, loopVars
<1>1. ASSUME NEW c \in Callers, CallBegins(c) PROVE LockInv'
  BY <1>1 DEF CallBegins, Orderly
<1>2. ASSUME NEW c \in Callers, CallerAnnounces(c) PROVE LockInv'
  BY <1>2 DEF CallerAnnounces, Goto
<1>3. ASSUME NEW c \in Callers, CallerReads(c) PROVE LockInv'
  BY <1>3 DEF CallerReads, Goto
<1>4. ASSUME NEW c \in Callers, CallerLeaves(c) PROVE LockInv'
  BY <1>4 DEF CallerLeaves, Return
<1>5. ASSUME NEW c \in Callers, StartRefused(c) PROVE LockInv'
  BY <1>5 DEF StartRefused, Return, Refused
<1>6. ASSUME NEW c \in Callers, StartInitializes(c) PROVE LockInv'
  BY <1>6 DEF StartInitializes, Goto, Refused
<1>7. ASSUME NEW c \in Callers, StartReturns(c) PROVE LockInv'
  BY <1>7 DEF StartReturns, Return
<1>8. ASSUME NEW c \in Callers, StopReturns(c) PROVE LockInv'
  BY <1>8 DEF StopReturns, Return, ShutDown
<1>9. ASSUME NEW g \in Loops, LoopSpawned(g) PROVE LockInv'
  BY <1>9 DEF LoopSpawned, LoopGoto
<1>10. ASSUME NEW g \in Loops, LoopWaited(g) PROVE LockInv'
  BY <1>10 DEF LoopWaited, LoopGoto
<1>11. ASSUME NEW g \in Loops, LoopReads(g) PROVE LockInv'
  BY <1>11 DEF LoopReads, LoopGoto
<1>12. ASSUME NEW g \in Loops, LoopLeaves(g) PROVE LockInv'
  BY <1>12 DEF LoopLeaves, LoopGoto
<1>13. ASSUME NEW g \in Loops, LoopStops(g) PROVE LockInv'
  BY <1>13 DEF LoopStops, LoopGoto, Told
<1>14. ASSUME NEW g \in Loops, LoopTicks(g) PROVE LockInv'
  BY <1>14 DEF LoopTicks
<1>15. ASSUME NEW g \in Loops, NEW n \in Checks, CheckSpawned(g, n) PROVE LockInv'
  BY <1>15 DEF CheckSpawned, CheckerGoto
<1>16. ASSUME NEW g \in Loops, NEW n \in Checks, CheckEnds(g, n) PROVE LockInv'
  BY <1>16 DEF CheckEnds, CheckerGoto
<1>17. ASSUME NEW g \in Loops, NEW n \in Checks, CheckAnnounces(g, n) PROVE LockInv'
  BY <1>17 DEF CheckAnnounces, CheckerGoto
<1>18. ASSUME NEW g \in Loops, NEW n \in Checks, CheckWrites(g, n) PROVE LockInv'
  BY <1>18 DEF CheckWrites, CheckerGoto
<1>19. ASSUME NEW g \in Loops, NEW n \in Checks, CheckReturns(g, n) PROVE LockInv'
  BY <1>19 DEF CheckReturns, CheckerGoto
<1>20. CASE Cancel
  BY <1>20 DEF Cancel
<1>21. CASE UNCHANGED vars
  BY <1>21 DEF vars
<1>22. QED
  BY <1>1, <1>2, <1>3, <1>4, <1>5, <1>6, <1>7, <1>8, <1>9, <1>10, <1>11, <1>12,
     <1>13, <1>14, <1>15, <1>16, <1>17, <1>18, <1>19, <1>20, <1>21
     DEF Next, CallerStep, LoopStep, CheckerStep

\* the checks, which only the holder of the lock changes,
LEMMA CheckStep ==
  TypeOK /\ LockInv /\ CheckInv /\ [Next]_vars => CheckInv'
<1> SUFFICES ASSUME TypeOK /\ LockInv /\ CheckInv, [Next]_vars PROVE CheckInv'
  OBVIOUS
<1> USE WritersDiffer DEF CheckInv, AllDone, LockInv, TypeOK, Working, ReadLocked,
         Starting, Writes, MayAnnounce, MayRead, MayWrite, lockVars, monitorVars,
         callerVars, loopVars
<1>1. ASSUME NEW c \in Callers, CallBegins(c) PROVE CheckInv'
  BY <1>1 DEF CallBegins, Orderly
<1>2. ASSUME NEW c \in Callers, CallerAnnounces(c) PROVE CheckInv'
  BY <1>2 DEF CallerAnnounces, Goto
<1>3. ASSUME NEW c \in Callers, CallerReads(c) PROVE CheckInv'
  BY <1>3 DEF CallerReads, Goto
<1>4. ASSUME NEW c \in Callers, CallerLeaves(c) PROVE CheckInv'
  BY <1>4 DEF CallerLeaves, Return
<1>5. ASSUME NEW c \in Callers, StartRefused(c) PROVE CheckInv'
  BY <1>5 DEF StartRefused, Return, Refused
<1>6. ASSUME NEW c \in Callers, StartInitializes(c) PROVE CheckInv'
  BY <1>6 DEF StartInitializes, Goto, Refused
<1>7. ASSUME NEW c \in Callers, StartReturns(c) PROVE CheckInv'
  BY <1>7 DEF StartReturns, Return, Unknown
<1>8. ASSUME NEW c \in Callers, StopReturns(c) PROVE CheckInv'
  BY <1>8 DEF StopReturns, Return, ShutDown
<1>9. ASSUME NEW g \in Loops, LoopSpawned(g) PROVE CheckInv'
  BY <1>9 DEF LoopSpawned, LoopGoto
<1>10. ASSUME NEW g \in Loops, LoopWaited(g) PROVE CheckInv'
  BY <1>10 DEF LoopWaited, LoopGoto
<1>11. ASSUME NEW g \in Loops, LoopReads(g) PROVE CheckInv'
  BY <1>11 DEF LoopReads, LoopGoto
<1>12. ASSUME NEW g \in Loops, LoopLeaves(g) PROVE CheckInv'
  BY <1>12 DEF LoopLeaves, LoopGoto
<1>13. ASSUME NEW g \in Loops, LoopStops(g) PROVE CheckInv'
  BY <1>13 DEF LoopStops, LoopGoto, Told
<1>14. ASSUME NEW g \in Loops, LoopTicks(g) PROVE CheckInv'
  <2>1. \A m \in Checks : checker[g][m] = "done"
    BY <1>14 DEF LoopTicks
  <2>2. \A h \in Loops, m \in Checks :
           checker[h][m] = "writing" <=> checker'[h][m] = "writing"
    BY <1>14, <2>1 DEF LoopTicks
  <2>3. UNCHANGED <<checks, outcome>>
    BY <1>14 DEF LoopTicks
  <2>4. \A h \in Loops : loop'[h] \notin {"ranging", "waiting"} => AllDone(h)'
    BY <1>14 DEF LoopTicks
  <2>5. QED
    BY <2>2, <2>3, <2>4
<1>15. ASSUME NEW g \in Loops, NEW n \in Checks, CheckSpawned(g, n) PROVE CheckInv'
  BY <1>15 DEF CheckSpawned, CheckerGoto
<1>16. ASSUME NEW g \in Loops, NEW n \in Checks, CheckEnds(g, n) PROVE CheckInv'
  BY <1>16 DEF CheckEnds, CheckerGoto
<1>17. ASSUME NEW g \in Loops, NEW n \in Checks, CheckAnnounces(g, n) PROVE CheckInv'
  BY <1>17 DEF CheckAnnounces, CheckerGoto
<1>18. ASSUME NEW g \in Loops, NEW n \in Checks, CheckWrites(g, n) PROVE CheckInv'
  BY <1>18 DEF CheckWrites, CheckerGoto
<1>19. ASSUME NEW g \in Loops, NEW n \in Checks, CheckReturns(g, n) PROVE CheckInv'
  BY <1>19 DEF CheckReturns, CheckerGoto
<1>20. CASE Cancel
  BY <1>20 DEF Cancel
<1>21. CASE UNCHANGED vars
  BY <1>21 DEF vars
<1>22. QED
  BY <1>1, <1>2, <1>3, <1>4, <1>5, <1>6, <1>7, <1>8, <1>9, <1>10, <1>11, <1>12,
     <1>13, <1>14, <1>15, <1>16, <1>17, <1>18, <1>19, <1>20, <1>21
     DEF Next, CallerStep, LoopStep, CheckerStep

\* and, of a monitor that is not restarted, its one life: a stop and a start never
\* overlap, and after a stop nothing starts;
LEMMA LifeStep ==
  ~Restarted /\ TypeOK /\ LockInv /\ LifeInv /\ [Next]_vars => LifeInv'
<1> SUFFICES ASSUME ~Restarted /\ TypeOK /\ LockInv /\ LifeInv, [Next]_vars
             PROVE  LifeInv'
  OBVIOUS
<1> USE WritersDiffer DEF LifeInv, LockInv, TypeOK, Starting, Writes, lockVars,
         monitorVars, callerVars, loopVars
<1>1. ASSUME NEW c \in Callers, CallBegins(c) PROVE LifeInv'
  BY <1>1 DEF CallBegins, Orderly
<1>2. ASSUME NEW c \in Callers, CallerAnnounces(c) PROVE LifeInv'
  BY <1>2 DEF CallerAnnounces, Goto
<1>3. ASSUME NEW c \in Callers, CallerReads(c) PROVE LifeInv'
  BY <1>3 DEF CallerReads, Goto
<1>4. ASSUME NEW c \in Callers, CallerLeaves(c) PROVE LifeInv'
  BY <1>4 DEF CallerLeaves, Return
<1>5. ASSUME NEW c \in Callers, StartRefused(c) PROVE LifeInv'
  BY <1>5 DEF StartRefused, Return, Refused
<1>6. ASSUME NEW c \in Callers, StartInitializes(c) PROVE LifeInv'
  BY <1>6 DEF StartInitializes, Goto, Refused
<1>7. ASSUME NEW c \in Callers, StartReturns(c) PROVE LifeInv'
  BY <1>7 DEF StartReturns, Return
<1>8. ASSUME NEW c \in Callers, StopReturns(c) PROVE LifeInv'
  BY <1>8 DEF StopReturns, Return, ShutDown
<1>9. ASSUME NEW g \in Loops, LoopSpawned(g) PROVE LifeInv'
  BY <1>9 DEF LoopSpawned, LoopGoto
<1>10. ASSUME NEW g \in Loops, LoopWaited(g) PROVE LifeInv'
  BY <1>10 DEF LoopWaited, LoopGoto
<1>11. ASSUME NEW g \in Loops, LoopReads(g) PROVE LifeInv'
  BY <1>11 DEF LoopReads, LoopGoto
<1>12. ASSUME NEW g \in Loops, LoopLeaves(g) PROVE LifeInv'
  BY <1>12 DEF LoopLeaves, LoopGoto
<1>13. ASSUME NEW g \in Loops, LoopStops(g) PROVE LifeInv'
  BY <1>13 DEF LoopStops, LoopGoto, Told
<1>14. ASSUME NEW g \in Loops, LoopTicks(g) PROVE LifeInv'
  BY <1>14 DEF LoopTicks
<1>15. ASSUME NEW g \in Loops, NEW n \in Checks, CheckSpawned(g, n) PROVE LifeInv'
  BY <1>15 DEF CheckSpawned, CheckerGoto
<1>16. ASSUME NEW g \in Loops, NEW n \in Checks, CheckEnds(g, n) PROVE LifeInv'
  BY <1>16 DEF CheckEnds, CheckerGoto
<1>17. ASSUME NEW g \in Loops, NEW n \in Checks, CheckAnnounces(g, n) PROVE LifeInv'
  BY <1>17 DEF CheckAnnounces, CheckerGoto
<1>18. ASSUME NEW g \in Loops, NEW n \in Checks, CheckWrites(g, n) PROVE LifeInv'
  BY <1>18 DEF CheckWrites, CheckerGoto
<1>19. ASSUME NEW g \in Loops, NEW n \in Checks, CheckReturns(g, n) PROVE LifeInv'
  BY <1>19 DEF CheckReturns, CheckerGoto
<1>20. CASE Cancel
  BY <1>20 DEF Cancel
<1>21. CASE UNCHANGED vars
  BY <1>21 DEF vars
<1>22. QED
  BY <1>1, <1>2, <1>3, <1>4, <1>5, <1>6, <1>7, <1>8, <1>9, <1>10, <1>11, <1>12,
     <1>13, <1>14, <1>15, <1>16, <1>17, <1>18, <1>19, <1>20, <1>21
     DEF Next, CallerStep, LoopStep, CheckerStep

\* hence a done goroutine of the one loop has left its outcome in the map.
LEMMA RoundStep ==
  TypeOK /\ LockInv /\ LifeInv /\ CheckInv /\ RoundInv /\ [Next]_vars => RoundInv'
<1> SUFFICES ASSUME TypeOK /\ LockInv /\ LifeInv /\ CheckInv /\ RoundInv, [Next]_vars
             PROVE  RoundInv'
  OBVIOUS
<1> USE WritersDiffer DEF RoundInv, CheckInv, LifeInv, LockInv, TypeOK, Starting,
         Writes, AllDone, lockVars, monitorVars, callerVars, loopVars
<1>1. ASSUME NEW c \in Callers, CallBegins(c) PROVE RoundInv'
  BY <1>1 DEF CallBegins, Orderly
<1>2. ASSUME NEW c \in Callers, CallerAnnounces(c) PROVE RoundInv'
  BY <1>2 DEF CallerAnnounces, Goto
<1>3. ASSUME NEW c \in Callers, CallerReads(c) PROVE RoundInv'
  BY <1>3 DEF CallerReads, Goto
<1>4. ASSUME NEW c \in Callers, CallerLeaves(c) PROVE RoundInv'
  BY <1>4 DEF CallerLeaves, Return
<1>5. ASSUME NEW c \in Callers, StartRefused(c) PROVE RoundInv'
  BY <1>5 DEF StartRefused, Return, Refused
<1>6. ASSUME NEW c \in Callers, StartInitializes(c) PROVE RoundInv'
  BY <1>6 DEF StartInitializes, Goto, Refused
<1>7. ASSUME NEW c \in Callers, StartReturns(c) PROVE RoundInv'
  BY <1>7 DEF StartReturns, Return
<1>8. ASSUME NEW c \in Callers, StopReturns(c) PROVE RoundInv'
  BY <1>8 DEF StopReturns, Return, ShutDown
<1>9. ASSUME NEW g \in Loops, LoopSpawned(g) PROVE RoundInv'
  BY <1>9 DEF LoopSpawned, LoopGoto
<1>10. ASSUME NEW g \in Loops, LoopWaited(g) PROVE RoundInv'
  BY <1>10 DEF LoopWaited, LoopGoto
<1>11. ASSUME NEW g \in Loops, LoopReads(g) PROVE RoundInv'
  BY <1>11 DEF LoopReads, LoopGoto
<1>12. ASSUME NEW g \in Loops, LoopLeaves(g) PROVE RoundInv'
  BY <1>12 DEF LoopLeaves, LoopGoto
<1>13. ASSUME NEW g \in Loops, LoopStops(g) PROVE RoundInv'
  BY <1>13 DEF LoopStops, LoopGoto, Told
<1>14. ASSUME NEW g \in Loops, LoopTicks(g) PROVE RoundInv'
  BY <1>14 DEF LoopTicks
<1>15. ASSUME NEW g \in Loops, NEW n \in Checks, CheckSpawned(g, n) PROVE RoundInv'
  BY <1>15 DEF CheckSpawned, CheckerGoto
<1>16. ASSUME NEW g \in Loops, NEW n \in Checks, CheckEnds(g, n) PROVE RoundInv'
  BY <1>16 DEF CheckEnds, CheckerGoto
<1>17. ASSUME NEW g \in Loops, NEW n \in Checks, CheckAnnounces(g, n) PROVE RoundInv'
  BY <1>17 DEF CheckAnnounces, CheckerGoto
<1>18. ASSUME NEW g \in Loops, NEW n \in Checks, CheckWrites(g, n) PROVE RoundInv'
  <2>1. loop[g] # "none" /\ checker[g][n] = "announced"
    BY <1>18 DEF CheckWrites
  <2>2. \A h \in Loops : loop[h] # "none" => h = g
    BY <2>1
  <2>3. \A m \in Checks : m # n => checks'[m] = checks[m]
    BY <1>18 DEF CheckWrites
  <2>4. \A m \in Checks : checker'[g][m] = "done" => checker[g][m] = "done" /\ m # n
    BY <1>18, <2>1 DEF CheckWrites, CheckerGoto
  <2>5. UNCHANGED <<loop, outcome>>
    BY <1>18 DEF CheckWrites, CheckerGoto
  <2>6. QED
    BY <2>2, <2>3, <2>4, <2>5
<1>19. ASSUME NEW g \in Loops, NEW n \in Checks, CheckReturns(g, n) PROVE RoundInv'
  BY <1>19 DEF CheckReturns, CheckerGoto
<1>20. CASE Cancel
  BY <1>20 DEF Cancel
<1>21. CASE UNCHANGED vars
  BY <1>21 DEF vars
<1>22. QED
  BY <1>1, <1>2, <1>3, <1>4, <1>5, <1>6, <1>7, <1>8, <1>9, <1>10, <1>11, <1>12,
     <1>13, <1>14, <1>15, <1>16, <1>17, <1>18, <1>19, <1>20, <1>21
     DEF Next, CallerStep, LoopStep, CheckerStep

-----------------------------------------------------------------------------
LEMMA MonitorInvInit == Init => TypeOK /\ LockInv /\ CheckInv /\ LifeInv /\ RoundInv
<1> SUFFICES ASSUME Init PROVE TypeOK /\ LockInv /\ CheckInv /\ LifeInv /\ RoundInv
  OBVIOUS
<1> USE DEF Init, Unknown
<1>1. TypeOK
  BY DEF TypeOK, Outcomes
<1>2. LockInv
  BY DEF LockInv, Working, ReadLocked, Starting
<1>3. CheckInv
  BY DEF CheckInv, AllDone
<1>4. LifeInv
  BY DEF LifeInv, Starting
<1>5. RoundInv
  BY DEF RoundInv
<1>6. QED
  BY <1>1, <1>2, <1>3, <1>4, <1>5

\* The lock guards the map whoever calls what.
LEMMA LockInvariant == Spec => [](TypeOK /\ LockInv /\ CheckInv)
<1>1. Init => TypeOK /\ LockInv /\ CheckInv
  BY MonitorInvInit
<1>2. TypeOK /\ LockInv /\ CheckInv /\ [Next]_vars => (TypeOK /\ LockInv /\ CheckInv)'
  BY TypeStep, LockStep, CheckStep
<1>3. QED
  BY <1>1, <1>2, PTL DEF Spec

\* The other two need a monitor that lives once.
LEMMA LifeInvariant == ASSUME ~Restarted PROVE Spec => [](LifeInv /\ RoundInv)
<1>1. Init => LifeInv /\ RoundInv
  BY MonitorInvInit
<1>2. TypeOK /\ LockInv /\ CheckInv /\ LifeInv /\ RoundInv /\ [Next]_vars
        => (LifeInv /\ RoundInv)'
  BY LifeStep, RoundStep
<1>3. QED
  BY <1>1, <1>2, LockInvariant, PTL DEF Spec

\* Fields, lock and program counters keep their ranges.
THEOREM MonitorTypeCorrect == Spec => []TypeOK
BY LockInvariant, PTL

\* A reader never sees half of an update, restarted or not (runSingleCheck against
\* GetHealthStatus, IsHealthy and GetHealthSummary).
THEOREM NoTornReads == Spec => []ReadersSeeWholeChecks
<1>1. TypeOK /\ LockInv /\ CheckInv => ReadersSeeWholeChecks
  BY DEF LockInv, CheckInv, Working, ReadersSeeWholeChecks
<1>2. QED
  BY <1>1, LockInvariant, PTL

\* The map of the monitor is written only while no loop ranges over it
\* (initializeChecks against runHealthChecks).
THEOREM OneLifeOneMap == ASSUME ~Restarted PROVE Spec => []NoMapRace
<1>1. LifeInv => NoMapRace
  BY DEF LifeInv, NoMapRace, Starting
<1>2. QED
  BY <1>1, LifeInvariant, PTL

\* A stop finds the channel of a running monitor open, however often it is called
\* and whoever else starts, stops or reads the monitor meanwhile (Stop).
THEOREM ChannelClosedOnce == ASSUME ~Restarted PROVE Spec => []NoDoubleClose
<1>1. LifeInv => NoDoubleClose
  BY DEF LifeInv, NoDoubleClose
<1>2. QED
  BY <1>1, LifeInvariant, PTL

\* The verdict that ends a round is about the outcomes of that round.
THEOREM VerdictTimely == ASSUME ~Restarted PROVE Spec => []VerdictOfRound
<1>1. CheckInv /\ RoundInv => VerdictOfRound
  <2> SUFFICES ASSUME CheckInv, RoundInv,
                      NEW g \in Loops, loop[g] = "reading", NEW n \in Checks
               PROVE  checks[n].status = outcome[g][n]
    BY DEF VerdictOfRound
  <2>1. checker[g][n] = "done"
    BY DEF CheckInv, AllDone
  <2>2. QED
    BY <2>1 DEF RoundInv
<1>2. QED
  BY <1>1, LockInvariant, LifeInvariant, PTL

-----------------------------------------------------------------------------
\* The refinement of MonitorBoard.tla.  What it maps to, in the names of the
\* monitor: the start in progress, the checks that have not filed, and the board
\* for anyone, a reader or not, who cannot see half of an update.
Busy == \E c \in Callers : Starting(c)
Late == {n \in Checks : \E g \in Loops : checker[g][n] # "done"}
Shown == [n \in Checks |-> checks[n].rest]

\* What changes none of them is a stutter of the board.
LEMMA BoardStutters ==
    ASSUME ReadersSeeWholeChecks, ReadersSeeWholeChecks',
           UNCHANGED <<Late, Shown, stopClosed>>,
           (running /\ ~Busy)' <=> (running /\ ~Busy)
    PROVE  UNCHANGED Board!vars
<1>1. [n \in Checks |-> IF ReadLocked THEN checks[n].status ELSE checks[n].rest]'
        = [n \in Checks |-> IF ReadLocked THEN checks[n].status ELSE checks[n].rest]
  BY DEF ReadersSeeWholeChecks, Shown
<1>2. QED
  BY <1>1 DEF Board!vars, Late, Busy, Starting

\* The calls: a start that returns, and a stop of a running monitor, are steps of
\* the board; all else a caller does is hidden.
LEMMA CallsOnBoard ==
    ASSUME TypeOK, LockInv, LifeInv, ReadersSeeWholeChecks, ReadersSeeWholeChecks',
           NEW c \in Callers, CallBegins(c) \/ CallerStep(c)
    PROVE  [Board!Next]_(Board!vars)
<1> USE DEF TypeOK, LockInv, LifeInv, lockVars, monitorVars, callerVars, loopVars
<1>1. ASSUME UNCHANGED <<checks, checker, running, stopClosed>>,
             \A d \in Callers : Starting(d)' <=> Starting(d)
      PROVE  UNCHANGED Board!vars
  BY <1>1, BoardStutters DEF Late, Shown, Busy
<1>2. ASSUME UNCHANGED <<checks, checker, running, stopClosed>>,
             caller[c] # "inside" \/ call[c] # "start", caller'[c] # "inside" \/ call'[c] # "start",
             \A d \in Callers : d # c => caller'[d] = caller[d] /\ call'[d] = call[d]
      PROVE  UNCHANGED Board!vars
  BY <1>1, <1>2 DEF Starting
<1>3. CASE CallBegins(c)
  BY <1>2, <1>3 DEF CallBegins
<1>4. CASE CallerAnnounces(c)
  BY <1>2, <1>4 DEF CallerAnnounces, Goto
<1>5. CASE CallerReads(c)
  BY <1>2, <1>5 DEF CallerReads, Goto, Writes
<1>6. CASE CallerLeaves(c)
  BY <1>2, <1>6 DEF CallerLeaves, Return, Writes
<1>7. CASE StartRefused(c)
  BY <1>2, <1>7 DEF StartRefused, Return
<1>8. CASE StartInitializes(c)
  <2>1. ~running /\ Starting(c)' /\ UNCHANGED <<checks, checker, stopClosed>>
    BY <1>8 DEF StartInitializes, Refused, Goto, Starting
  <2>2. QED
    BY <2>1, BoardStutters DEF Late, Shown, Busy
\* It appears now: the map is whole again, and the start is no longer hidden.
<1>9. CASE StartReturns(c)
  <2>1. Starting(c) /\ running /\ running' /\ ~stopClosed /\ UNCHANGED stopClosed
    BY <1>9 DEF StartReturns, Starting
  <2>2. ~Busy'
    <3>1. \A d \in Callers : Starting(d) => d = c
      BY <2>1, WritersDiffer
    <3>2. caller'[c] = "idle" /\ \A d \in Callers : d # c => caller'[d] = caller[d]
                                                            /\ call'[d] = call[d]
      BY <1>9 DEF StartReturns, Return
    <3>3. QED
      BY <3>1, <3>2 DEF Busy, Starting
  <2>3. Late' = Checks
    BY <1>9 DEF StartReturns, Late
  <2>4. Shown' = Board!Unknown
    BY <1>9 DEF StartReturns, Unknown, Shown, Board!Unknown
  <2>5. [n \in Checks |-> IF ReadLocked THEN checks[n].status ELSE checks[n].rest]'
          = Board!Unknown
    BY <2>4 DEF ReadersSeeWholeChecks, Shown
  <2>6. Board!Start
    BY <2>1, <2>2, <2>3, <2>5 DEF Board!Start, Late, Busy, Starting
  <2>7. QED
    BY <2>6 DEF Board!Next
<1>10. CASE StopReturns(c) /\ ~running
  BY <1>2, <1>10 DEF StopReturns, Return
<1>11. CASE StopReturns(c) /\ running
  <2>1. ~Busy
    BY <1>11, WritersDiffer DEF StopReturns, Busy, Starting
  <2>2. ~stopClosed /\ stopClosed' = TRUE /\ running' = FALSE
        /\ UNCHANGED <<Late, Shown>>
    BY <1>11 DEF StopReturns, ShutDown, Late, Shown
  <2>3. [n \in Checks |-> IF ReadLocked THEN checks[n].status ELSE checks[n].rest]'
          = [n \in Checks |-> IF ReadLocked THEN checks[n].status ELSE checks[n].rest]
    BY <2>2 DEF ReadersSeeWholeChecks, Shown
  <2>4. Board!Stop
    BY <1>11, <2>1, <2>2, <2>3 DEF Board!Stop, Late, Busy, Starting
  <2>5. QED
    BY <2>4 DEF Board!Next
<1>12. QED
  BY <1>3, <1>4, <1>5, <1>6, <1>7, <1>8, <1>9, <1>10, <1>11 DEF CallerStep

\* A loop that is past its round has no check that is late: a tick begins the next.
LEMMA LoopsOnBoard ==
    ASSUME TypeOK, LifeInv, CheckInv, ReadersSeeWholeChecks, ReadersSeeWholeChecks',
           NEW g \in Loops, LoopStep(g) \/ LoopStops(g) \/ LoopTicks(g)
    PROVE  [Board!Next]_(Board!vars)
<1> USE DEF TypeOK, LifeInv, CheckInv, lockVars, monitorVars, callerVars
<1>1. CASE LoopStep(g) \/ LoopStops(g)
  <2>1. UNCHANGED <<checks, checker, running, stopClosed, caller, call>>
    BY <1>1 DEF LoopStep, LoopStops, LoopSpawned, LoopWaited, LoopReads, LoopLeaves, LoopGoto
  <2>2. QED
    BY <2>1, BoardStutters DEF Late, Shown, Busy, Starting
<1>2. CASE LoopTicks(g)
  <2>1. loop[g] = "selecting" /\ UNCHANGED <<checks, running, stopClosed, caller, call>>
    BY <1>2 DEF LoopTicks
  <2>2. ~Busy /\ ~Busy' /\ (running \/ stopClosed)
    BY <2>1 DEF Busy, Starting
  <2>3. Late = {}
    <3>1. \A h \in Loops : loop[h] \notin {"ranging", "waiting"}
      BY <2>1
    <3>2. QED
      BY <3>1 DEF Late, AllDone
  <2>4. Late' = Checks
    BY <1>2 DEF LoopTicks, Late
  <2>5. [n \in Checks |-> IF ReadLocked THEN checks[n].status ELSE checks[n].rest]'
          = [n \in Checks |-> IF ReadLocked THEN checks[n].status ELSE checks[n].rest]
    BY <2>1 DEF ReadersSeeWholeChecks
  <2>6. Board!NextRound
    BY <2>1, <2>2, <2>3, <2>4, <2>5 DEF Board!NextRound, Late, Busy, Starting
  <2>7. QED
    BY <2>6 DEF Board!Next
<1>3. QED
  BY <1>1, <1>2

\* A check files with the last field of its update.
LEMMA ChecksOnBoard ==
    ASSUME TypeOK, LifeInv, CheckInv, ReadersSeeWholeChecks, ReadersSeeWholeChecks',
           NEW g \in Loops, NEW n \in Checks, CheckerStep(g, n)
    PROVE  [Board!Next]_(Board!vars)
<1>1. checks \in [Checks -> [status : Outcomes \cup {"unknown"},
                             rest : Outcomes \cup {"unknown"}]]
      /\ checker \in [Loops -> [Checks -> {"unspawned", "checking", "entering",
                                           "announced", "writing", "done"}]]
      /\ outcome[g][n] \in Outcomes
  BY DEF TypeOK
<1>2. checks[n] \in [status : Outcomes \cup {"unknown"}, rest : Outcomes \cup {"unknown"}]
  BY <1>1
<1>3. UNCHANGED <<running, stopClosed, caller, call>>
  BY DEF CheckerStep, CheckSpawned, CheckEnds, CheckAnnounces, CheckWrites, CheckReturns,
         CheckerGoto, monitorVars, callerVars
<1>4. \A h \in Loops, m \in Checks : h # g \/ m # n => checker'[h][m] = checker[h][m]
  BY <1>1 DEF CheckerStep, CheckSpawned, CheckEnds, CheckAnnounces, CheckWrites,
              CheckReturns, CheckerGoto
<1>5. CASE CheckSpawned(g, n) \/ CheckEnds(g, n) \/ CheckAnnounces(g, n) \/ CheckWrites(g, n)
  <2>1. checker[g][n] # "done" /\ checker'[g][n] # "done"
    BY <1>1, <1>5 DEF CheckSpawned, CheckEnds, CheckAnnounces, CheckWrites, CheckerGoto
  <2>2. \A m \in Checks : (\E h \in Loops : checker'[h][m] # "done")
                            <=> (\E h \in Loops : checker[h][m] # "done")
    BY <1>4, <2>1
  <2>3. Late' = Late
    BY <2>2 DEF Late
  <2>4. CASE CheckWrites(g, n)
    <3>1. checks' = [checks EXCEPT ![n] = [checks[n] EXCEPT !.status = outcome[g][n]]]
      BY <2>4 DEF CheckWrites
    <3>2. [checks[n] EXCEPT !.status = outcome[g][n]].rest = checks[n].rest
      BY <1>2
    <3>3. \A m \in Checks : checks'[m].rest = checks[m].rest
      BY <1>1, <3>1, <3>2
    <3>4. Shown' = Shown
      BY <3>3 DEF Shown
    <3>5. QED
      BY <1>3, <2>3, <3>4, BoardStutters DEF Busy, Starting
  <2>5. CASE ~CheckWrites(g, n)
    <3>1. UNCHANGED checks
      BY <1>5, <2>5 DEF CheckSpawned, CheckEnds, CheckAnnounces, lockVars
    <3>2. QED
      BY <1>3, <2>3, <3>1, BoardStutters DEF Busy, Starting, Shown
  <2>6. QED
    BY <2>4, <2>5
<1>6. CASE CheckReturns(g, n)
  <2>1. checker[g][n] = "writing" /\ checker'[g][n] = "done"
    BY <1>1, <1>6 DEF CheckReturns, CheckerGoto
  \* No other loop has a goroutine for this check: there is no other loop.
  <2>2. \A h \in Loops : h # g => checker[h][n] = "done"
    BY <2>1 DEF LifeInv, CheckInv, AllDone
  <2>3. \A m \in Checks : (\E h \in Loops : checker'[h][m] # "done")
                            <=> (\E h \in Loops : checker[h][m] # "done") /\ m # n
    BY <1>4, <2>1, <2>2
  <2>4. n \in Late /\ Late' = Late \ {n}
    BY <2>1, <2>3 DEF Late
  <2>5. checks' = [checks EXCEPT ![n] = [checks[n] EXCEPT !.rest = outcome[g][n]]]
    BY <1>6 DEF CheckReturns
  <2>6. [checks[n] EXCEPT !.rest = outcome[g][n]].rest = outcome[g][n]
    BY <1>2
  <2>7. \A m \in Checks : checks'[m].rest = IF m = n THEN outcome[g][n] ELSE checks[m].rest
    BY <1>1, <2>5, <2>6
  <2>8. Shown' = [Shown EXCEPT ![n] = outcome[g][n]]
    BY <2>7 DEF Shown
  <2>9. /\ [m \in Checks |-> IF ReadLocked THEN checks[m].status ELSE checks[m].rest] = Shown
        /\ [m \in Checks |-> IF ReadLocked THEN checks[m].status ELSE checks[m].rest]' = Shown'
    BY DEF ReadersSeeWholeChecks, Shown
  <2>10. Board!File(n)
    <3>1. (running /\ ~Busy)' <=> (running /\ ~Busy)
      BY <1>3 DEF Busy, Starting
    <3>2. QED
      BY <1>1, <1>3, <2>4, <2>8, <2>9, <3>1 DEF Board!File, Late, Busy, Starting
  <2>11. QED
    BY <2>10 DEF Board!Next
<1>7. QED
  BY <1>5, <1>6 DEF CheckerStep

\* A monitor that is not started again is one whose calls, updates and rounds take
\* no time, for any checks, callers and loops: started and stopped at most once,
\* with one outcome of every check in each round, and a board that readers see
\* change one check at a time.
THEOREM MonitorImplementsBoard == ASSUME ~Restarted PROVE Spec => ImplementsBoard
<1>1. Init => Board!Init
  <2> SUFFICES ASSUME Init PROVE Board!Init
    OBVIOUS
  <2>1. Late = {}
    BY DEF Init, Late
  <2>2. [n \in Checks |-> IF ReadLocked THEN checks[n].status ELSE checks[n].rest]
          = Board!Unknown
    BY DEF Init, Unknown, Board!Unknown
  <2>3. QED
    BY <2>1, <2>2 DEF Init, Board!Init, Late
<1>2. ASSUME TypeOK, LockInv, CheckInv, LifeInv, ReadersSeeWholeChecks,
             ReadersSeeWholeChecks', [Next]_vars
      PROVE  [Board!Next]_(Board!vars)
  <2>1. ASSUME NEW c \in Callers, CallBegins(c) \/ CallerStep(c)
        PROVE  [Board!Next]_(Board!vars)
    BY <1>2, <2>1, CallsOnBoard
  <2>2. ASSUME NEW g \in Loops, LoopStep(g) \/ LoopStops(g) \/ LoopTicks(g)
        PROVE  [Board!Next]_(Board!vars)
    BY <1>2, <2>2, LoopsOnBoard
  <2>3. ASSUME NEW g \in Loops, NEW n \in Checks, CheckerStep(g, n)
        PROVE  [Board!Next]_(Board!vars)
    BY <1>2, <2>3, ChecksOnBoard
  <2>4. CASE Cancel \/ UNCHANGED vars
    <3>1. UNCHANGED <<checks, checker, running, stopClosed, caller, call>>
      BY <2>4 DEF Cancel, vars, lockVars, monitorVars, callerVars, loopVars
    <3>2. QED
      BY <1>2, <3>1, BoardStutters DEF Late, Shown, Busy, Starting
  <2>5. QED
    BY <1>2, <2>1, <2>2, <2>3, <2>4 DEF Next
<1>3. QED
  BY <1>1, <1>2, LockInvariant, LifeInvariant, NoTornReads, PTL
     DEF Spec, ImplementsBoard, Board!Spec
=============================================================================
