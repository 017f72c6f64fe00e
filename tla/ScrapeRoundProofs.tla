------------------------- MODULE ScrapeRoundProofs -------------------------
(***************************************************************************)
(* Theorems about ScrapeRound.tla, for any finite set of queries, any      *)
(* number of retries and any tolerance of failures.                        *)
(*                                                                         *)
(* The argument has three layers.  The WaitGroup invariant says who is     *)
(* still running; the filing invariant says where the result of each query *)
(* is (not yet sent, in the channel, or filed); together they give what    *)
(* the round knows when it decides, and so the refinement of ScrapeBoard.  *)
(***************************************************************************)
EXTENDS ScrapeRound, FiniteSetTheorems, TLAPS

Running == {f \in Fetchers : pc[f] \in Counted}

\* The first layer.  A goroutine backs off only with a retry left, or the
\* attempts would not be bounded.
BackoffHasRetries == \A f \in Fetchers : pc[f] = "backoff" => RetriesLeft(f)
GroupInv == TypeOK /\ WaitGroupCounts /\ BackoffHasRetries

\* When nothing of f changes but its place among the counted, or among the
\* uncounted, the set of running goroutines is the same.
LEMMA RunningSame ==
    ASSUME GroupInv, NEW f \in Fetchers, NEW x,
           pc' = [pc EXCEPT ![f] = x],
           x \in Counted <=> pc[f] \in Counted
    PROVE  Running' = Running
<1>1. Running' = {g \in Fetchers : pc'[g] \in Counted}
  BY DEF Running, Counted
<1>2. \A g \in Fetchers : pc'[g] \in Counted <=> pc[g] \in Counted
  BY DEF GroupInv, TypeOK
<1>3. QED
  BY <1>1, <1>2 DEF Running

LEMMA RunningFinite == IsFiniteSet(Running) /\ Cardinality(Running) \in Nat
BY RoundAssumption, FS_Subset, FS_CardinalityType DEF Running, RoundAssumption

\* Spawning counts one more.
LEMMA RunningMore ==
    ASSUME GroupInv, NEW f \in Fetchers,
           pc[f] \notin Counted, pc' = [pc EXCEPT ![f] = "calling"]
    PROVE  Cardinality(Running') = Cardinality(Running) + 1
<1>1. Running' = {g \in Fetchers : pc'[g] \in Counted}
  BY DEF Running, Counted
<1>2. \A g \in Fetchers : pc'[g] \in Counted <=> (g = f \/ pc[g] \in Counted)
  BY DEF GroupInv, TypeOK, Counted
<1>3. Running' = Running \cup {f}
  BY <1>1, <1>2 DEF Running
<1>4. f \notin Running
  BY DEF Running
<1>5. QED
  BY <1>3, <1>4, RunningFinite, FS_AddElement

\* Finishing counts one less, and there was one to count.
LEMMA RunningLess ==
    ASSUME GroupInv, NEW f \in Fetchers,
           pc[f] \in Counted, pc' = [pc EXCEPT ![f] = "done"]
    PROVE  Cardinality(Running') = Cardinality(Running) - 1
<1>1. Running' = {g \in Fetchers : pc'[g] \in Counted}
  BY DEF Running, Counted
<1>2. \A g \in Fetchers : pc'[g] \in Counted <=> (g # f /\ pc[g] \in Counted)
  BY DEF GroupInv, TypeOK, Counted
<1>3. Running' = Running \ {f}
  BY <1>1, <1>2 DEF Running
<1>4. f \in Running
  BY DEF Running
<1>5. QED
  BY <1>3, <1>4, RunningFinite, FS_RemoveElement

\* A count of zero means that nobody runs.
LEMMA NobodyRuns ==
    ASSUME GroupInv, wg = 0, NEW f \in Fetchers
    PROVE  pc[f] \notin Counted
<1>1. Cardinality(Running) = 0
  BY DEF GroupInv, WaitGroupCounts, Running
<1>2. Running = {}
  BY <1>1, RunningFinite, FS_EmptySet
<1>3. QED
  BY <1>2 DEF Running

LEMMA GroupInit == Init => GroupInv
<1> SUFFICES ASSUME Init PROVE GroupInv
  OBVIOUS
<1>1. TypeOK
  BY RoundAssumption DEF Init, TypeOK, Counted, Answers, Shown, RoundAssumption
<1>2. {f \in Fetchers : pc[f] \in Counted} = {}
  BY DEF Init, Counted
<1>3. WaitGroupCounts
  BY <1>2, FS_EmptySet DEF Init, WaitGroupCounts
<1>4. BackoffHasRetries
  BY DEF Init, BackoffHasRetries
<1>5. QED
  BY <1>1, <1>3, <1>4 DEF GroupInv

LEMMA TypeStep == GroupInv /\ [Next]_roundVars => TypeOK'
<1> SUFFICES ASSUME GroupInv, [Next]_roundVars
             PROVE  TypeOK'
  OBVIOUS
<1> USE RoundAssumption DEF RoundAssumption, TypeOK, GroupInv, Counted,
        fetcherVars, mainVars
<1>1. CASE BeginRound
  BY <1>1 DEF BeginRound, Answers
<1>2. ASSUME NEW f \in Fetchers, Spawn(f) PROVE TypeOK'
  BY <1>2 DEF Spawn, CountSpawned
<1>3. CASE SpawnCloser
  BY <1>3 DEF SpawnCloser
<1>4. ASSUME NEW f \in Fetchers, CallAnswered(f) PROVE TypeOK'
  BY <1>4 DEF CallAnswered, Answers
<1>5. ASSUME NEW f \in Fetchers, CallFailsRetrying(f) PROVE TypeOK'
  BY <1>5 DEF CallFailsRetrying
<1>6. ASSUME NEW f \in Fetchers, CallFailsFinally(f) PROVE TypeOK'
  BY <1>6 DEF CallFailsFinally, Answers
<1>7. ASSUME NEW f \in Fetchers, BackoffElapses(f) PROVE TypeOK'
  BY <1>7 DEF BackoffElapses, BackoffHasRetries, RetriesLeft, NextAttempt
<1>8. ASSUME NEW f \in Fetchers, BackoffAborts(f) PROVE TypeOK'
  BY <1>8 DEF BackoffAborts, Answers
<1>9. ASSUME NEW f \in Fetchers, Send(f) PROVE TypeOK'
  BY <1>9 DEF Send
<1>10. ASSUME NEW f \in Fetchers, Finish(f) PROVE TypeOK'
  <2>1. f \in Running
    BY <1>10 DEF Finish, Running
  <2>2. wg = Cardinality(Running) /\ wg # 0
    BY <2>1, RunningFinite, FS_EmptySet DEF WaitGroupCounts, Running
  <2>3. wg' \in Nat
    BY <1>10, <2>2 DEF Finish
  <2>4. QED
    BY <1>10, <2>3 DEF Finish
<1>11. CASE CloseResults
  BY <1>11 DEF CloseResults
<1>12. ASSUME NEW f \in Fetchers, Receive(f) PROVE TypeOK'
  BY <1>12 DEF Receive, Answers
<1>13. CASE EndCollect
  BY <1>13 DEF EndCollect
<1>14. ASSUME NEW f \in Fetchers, SetGauge(f) PROVE TypeOK'
  BY <1>14 DEF SetGauge, Updated, Shown
<1>15. CASE EndUpdate
  BY <1>15 DEF EndUpdate
<1>16. CASE EndRound
  BY <1>16 DEF EndRound
<1>17. CASE Expire
  BY <1>17 DEF Expire
<1>18. CASE Cancel
  BY <1>18 DEF Cancel
<1>19. CASE UNCHANGED roundVars
  BY <1>19 DEF roundVars
<1>20. QED
  BY <1>1, <1>2, <1>3, <1>4, <1>5, <1>6, <1>7, <1>8, <1>9, <1>10, <1>11, <1>12,
     <1>13, <1>14, <1>15, <1>16, <1>17, <1>18, <1>19
  DEF Next, InnerStep, OtherStep, FetcherStep, MainStep, CallReturns

\* Steps that leave the goroutines of the queries, their count and the closer
\* alone keep the first layer.
LEMMA GroupFrame ==
    ASSUME GroupInv, UNCHANGED <<pc, attempt, wg, closer>>
    PROVE  (WaitGroupCounts /\ BackoffHasRetries)'
BY DEF GroupInv, WaitGroupCounts, BackoffHasRetries, RetriesLeft, Counted

\* A running goroutine that goes on running leaves the count right, and it
\* shows that the channel is still open.
LEMMA GroupRuns ==
    ASSUME GroupInv, NEW f \in Fetchers, NEW x \in Counted,
           pc[f] \in Counted, pc' = [pc EXCEPT ![f] = x],
           x = "backoff" => RetriesLeft(f),
           UNCHANGED <<wg, closer>>,
           \A g \in Fetchers : g # f \/ x = "backoff" => attempt'[g] = attempt[g]
    PROVE  (WaitGroupCounts /\ BackoffHasRetries)'
<1> USE DEF GroupInv, TypeOK
<1>1. Running' = Running
  BY RunningSame
<1>2. {g \in Fetchers : pc'[g] \in Counted} = {g \in Fetchers : pc[g] \in Counted}
  BY <1>1 DEF Running, Counted
<1>3. closer # "done"
  BY DEF WaitGroupCounts, Counted
<1>4. WaitGroupCounts'
  BY <1>2, <1>3 DEF WaitGroupCounts, Counted
<1>5. BackoffHasRetries'
  BY DEF BackoffHasRetries, RetriesLeft
<1>6. QED
  BY <1>4, <1>5

LEMMA GroupStep ==
    GroupInv /\ [Next]_roundVars => (WaitGroupCounts /\ BackoffHasRetries)'
<1> SUFFICES ASSUME GroupInv, [Next]_roundVars
             PROVE  (WaitGroupCounts /\ BackoffHasRetries)'
  OBVIOUS
<1> DEFINE Goal == (WaitGroupCounts /\ BackoffHasRetries)'
<1> USE DEF GroupInv, TypeOK, fetcherVars, mainVars
<1>1. CASE BeginRound
  <2>1. {f \in Fetchers : pc'[f] \in Counted} = {}
    BY <1>1 DEF BeginRound, Counted
  <2>2. QED
    BY <1>1, <2>1, FS_EmptySet
    DEF BeginRound, WaitGroupCounts, BackoffHasRetries, Counted
<1>2. ASSUME NEW f \in Fetchers, Spawn(f) PROVE Goal
  <2>1. Cardinality(Running') = Cardinality(Running) + 1
    BY <1>2, RunningMore DEF Spawn, Counted
  <2>2. closer = "unspawned" /\ closer' = closer
    BY <1>2 DEF Spawn, WaitGroupCounts
  <2>3. wg' = Cardinality({g \in Fetchers : pc'[g] \in Counted})
    BY <1>2, <2>1 DEF Spawn, CountSpawned, WaitGroupCounts, Running, Counted
  <2>4. WaitGroupCounts'
    BY <2>2, <2>3 DEF WaitGroupCounts, Counted
  <2>5. BackoffHasRetries'
    BY <1>2 DEF Spawn, BackoffHasRetries, RetriesLeft
  <2>6. QED
    BY <2>4, <2>5
<1>3. CASE SpawnCloser
  BY <1>3 DEF SpawnCloser, AllSpawned, WaitGroupCounts, BackoffHasRetries,
              RetriesLeft, Counted
<1>4. ASSUME NEW f \in Fetchers, CallAnswered(f) PROVE Goal
  BY <1>4, GroupRuns DEF CallAnswered, Counted
<1>5. ASSUME NEW f \in Fetchers, CallFailsRetrying(f) PROVE Goal
  BY <1>5, GroupRuns DEF CallFailsRetrying, Counted
<1>6. ASSUME NEW f \in Fetchers, CallFailsFinally(f) PROVE Goal
  BY <1>6, GroupRuns DEF CallFailsFinally, Counted
<1>7. ASSUME NEW f \in Fetchers, BackoffElapses(f) PROVE Goal
  BY <1>7, GroupRuns DEF BackoffElapses, Counted
<1>8. ASSUME NEW f \in Fetchers, BackoffAborts(f) PROVE Goal
  BY <1>8, GroupRuns DEF BackoffAborts, Counted
<1>9. ASSUME NEW f \in Fetchers, Send(f) PROVE Goal
  BY <1>9, GroupRuns DEF Send, Counted
<1>10. ASSUME NEW f \in Fetchers, Finish(f) PROVE Goal
  <2>1. Cardinality(Running') = Cardinality(Running) - 1
    BY <1>10, RunningLess DEF Finish, Counted
  <2>2. wg' = Cardinality({g \in Fetchers : pc'[g] \in Counted})
    BY <1>10, <2>1 DEF Finish, WaitGroupCounts, Running, Counted
  <2>3. WaitGroupCounts'
    BY <1>10, <2>2 DEF Finish, WaitGroupCounts, Counted
  <2>4. BackoffHasRetries'
    BY <1>10 DEF Finish, BackoffHasRetries, RetriesLeft
  <2>5. QED
    BY <2>3, <2>4
<1>11. CASE CloseResults
  <2>1. \A f \in Fetchers : pc[f] = "done"
    BY <1>11, NobodyRuns DEF CloseResults, AllFinished, WaitGroupCounts
  <2>2. QED
    BY <1>11, <2>1 DEF CloseResults, WaitGroupCounts, BackoffHasRetries,
                       RetriesLeft, Counted
<1>12. ASSUME NEW f \in Fetchers, MainStep(f) PROVE Goal
  BY <1>12, GroupFrame DEF MainStep, Receive, SetGauge
<1>13. CASE EndCollect \/ EndUpdate \/ EndRound
  BY <1>13, GroupFrame DEF EndCollect, EndUpdate, EndRound
<1>14. CASE Expire \/ Cancel
  BY <1>14, GroupFrame DEF Expire, Cancel
<1>15. CASE UNCHANGED roundVars
  BY <1>15, GroupFrame DEF roundVars
<1>16. QED
  BY <1>1, <1>2, <1>3, <1>4, <1>5, <1>6, <1>7, <1>8, <1>9, <1>10, <1>11,
     <1>12, <1>13, <1>14, <1>15
  DEF Next, InnerStep, OtherStep, FetcherStep, CallReturns

\* The first layer is an invariant of the rounds.
LEMMA GroupInvariant == Spec => []GroupInv
<1>1. GroupInv /\ [Next]_roundVars => GroupInv'
  BY TypeStep, GroupStep DEF GroupInv
<1>2. QED
  BY <1>1, GroupInit, PTL DEF Spec

\* Every variable keeps its type; in particular no query is called more than
\* MaxRetries times in a round, and the WaitGroup counter never goes negative,
\* which would crash the exporter.
THEOREM TypeCorrect == Spec => []TypeOK
BY GroupInvariant, PTL DEF GroupInv

\* The WaitGroup always counts exactly the goroutines that are running, and the
\* closer never passes it while one is.
THEOREM GroupCounts == Spec => []WaitGroupCounts
BY GroupInvariant, PTL DEF GroupInv

\* No goroutine ever sends on the closed results channel.
THEOREM ChannelOpenForSenders == Spec => []NoSendOnClosed
<1>1. GroupInv => NoSendOnClosed
  BY DEF GroupInv, WaitGroupCounts, NoSendOnClosed
<1>2. QED
  BY <1>1, GroupInvariant, PTL

-----------------------------------------------------------------------------
\* The second layer: where the result of each query is.  It is filed once the
\* query has sent it and it is no longer in the channel.
Filed(f) == pc[f] \in {"sent", "done"} /\ f \notin results
FailedFiled == {f \in Fetchers : Filed(f) /\ res[f] = "failed"}

Accounted ==
    /\ errorCount = Cardinality(FailedFiled)
    /\ \A f \in Fetchers :
          data[f] = IF Filed(f) /\ res[f] # "failed" THEN res[f] ELSE "none"

HasResult ==
    \A f \in Fetchers : pc[f] \in {"sending", "sent", "done"} => res[f] # "none"

FilingInv ==
    /\ main \notin {"launching", "collecting"} => Drained
    /\ main # "updating" => toSet = {}
    /\ \A f \in results : pc[f] \in {"sent", "done"}
    /\ main # "idle" => HasResult /\ Accounted

LEMMA FailedFinite == IsFiniteSet(FailedFiled) /\ Cardinality(FailedFiled) \in Nat
BY RoundAssumption, FS_Subset, FS_CardinalityType DEF FailedFiled, RoundAssumption

\* A step that files nothing keeps the books right.
LEMMA AccountedFrame ==
    ASSUME Accounted,
           \A f \in Fetchers : Filed(f)' <=> Filed(f),
           \A f \in Fetchers : Filed(f) => res'[f] = res[f],
           UNCHANGED <<data, errorCount>>
    PROVE  Accounted'
<1>1. FailedFiled' = FailedFiled
  BY DEF FailedFiled
<1>2. QED
  BY <1>1 DEF Accounted

\* The steps of a query's goroutine up to its Send file nothing.
LEMMA FilingRuns ==
    ASSUME TypeOK, FilingInv, NEW f \in Fetchers, NEW x \in Counted,
           pc[f] \in {"unspawned", "calling", "backoff"}, x # "sent",
           pc' = [pc EXCEPT ![f] = x],
           x = "sending" => res'[f] # "none",
           \A g \in Fetchers \ {f} : res'[g] = res[g],
           UNCHANGED <<main, results, closer, data, errorCount, toSet>>
    PROVE  FilingInv'
<1> USE DEF TypeOK, FilingInv, Counted
<1>1. \A g \in Fetchers : Filed(g)' <=> Filed(g)
  BY DEF Filed
<1>2. \A g \in Fetchers : Filed(g) => res'[g] = res[g]
  BY DEF Filed
<1>3. main # "idle" => Accounted'
  BY <1>1, <1>2, AccountedFrame
<1>4. main # "idle" => HasResult'
  BY DEF HasResult
<1>5. \A g \in results' : pc'[g] \in {"sent", "done"}
  OBVIOUS
<1>6. QED
  BY <1>3, <1>4, <1>5 DEF Drained

LEMMA FilingInit == Init => FilingInv
BY DEF Init, FilingInv, Drained

LEMMA FilingStep ==
    GroupInv /\ FilingInv /\ [Next]_roundVars => FilingInv'
<1> SUFFICES ASSUME GroupInv, FilingInv, [Next]_roundVars
             PROVE  FilingInv'
  OBVIOUS
<1> USE DEF GroupInv, TypeOK, fetcherVars, mainVars
<1>1. CASE BeginRound
  <2>1. FailedFiled' = {}
    BY <1>1 DEF BeginRound, FailedFiled, Filed
  <2>2. Accounted'
    BY <1>1, <2>1, FS_EmptySet DEF BeginRound, Accounted, Filed
  <2>3. QED
    BY <1>1, <2>2 DEF BeginRound, FilingInv, HasResult
<1>2. ASSUME NEW f \in Fetchers, Spawn(f) PROVE FilingInv'
  BY <1>2, FilingRuns DEF Spawn, Counted
<1>3. ASSUME NEW f \in Fetchers, CallAnswered(f) PROVE FilingInv'
  <2>1. res'[f] # "none"
    BY <1>3, RoundAssumption DEF CallAnswered, RoundAssumption, Answers
  <2>2. QED
    BY <1>3, <2>1, FilingRuns DEF CallAnswered, Counted
<1>4. ASSUME NEW f \in Fetchers, CallFailsRetrying(f) PROVE FilingInv'
  BY <1>4, FilingRuns DEF CallFailsRetrying, Counted
<1>5. ASSUME NEW f \in Fetchers, CallFailsFinally(f) PROVE FilingInv'
  BY <1>5, FilingRuns DEF CallFailsFinally, Counted
<1>6. ASSUME NEW f \in Fetchers, BackoffElapses(f) PROVE FilingInv'
  BY <1>6, FilingRuns DEF BackoffElapses, Counted
<1>7. ASSUME NEW f \in Fetchers, BackoffAborts(f) PROVE FilingInv'
  BY <1>7, FilingRuns DEF BackoffAborts, Counted
<1>8. ASSUME NEW f \in Fetchers, Send(f) PROVE FilingInv'
  <2>1. \A g \in Fetchers : Filed(g)' <=> Filed(g)
    BY <1>8 DEF Send, Filed, FilingInv
  <2>2. main # "idle" => Accounted'
    BY <1>8, <2>1, AccountedFrame DEF Send, FilingInv
  <2>3. main # "idle" => HasResult'
    BY <1>8 DEF Send, FilingInv, HasResult
  <2>4. main \in {"launching", "collecting"}
    BY <1>8 DEF Send, FilingInv, Drained
  <2>5. QED
    BY <1>8, <2>2, <2>3, <2>4 DEF Send, FilingInv
<1>9. ASSUME NEW f \in Fetchers, Finish(f) PROVE FilingInv'
  <2>1. \A g \in Fetchers : Filed(g)' <=> Filed(g)
    BY <1>9 DEF Finish, Filed, FilingInv
  <2>2. main # "idle" => Accounted'
    BY <1>9, <2>1, AccountedFrame DEF Finish, FilingInv
  <2>3. main # "idle" => HasResult'
    BY <1>9 DEF Finish, FilingInv, HasResult
  <2>4. QED
    BY <1>9, <2>2, <2>3 DEF Finish, FilingInv, Drained
<1>10. ASSUME NEW f \in Fetchers, Receive(f) PROVE FilingInv'
  <2>1. Filed(f)' /\ ~Filed(f)
    BY <1>10 DEF Receive, Filed, FilingInv
  <2>2. \A g \in Fetchers \ {f} : Filed(g)' <=> Filed(g)
    BY <1>10 DEF Receive, Filed
  <2>3. Accounted /\ HasResult /\ HasResult'
    BY <1>10 DEF Receive, FilingInv, HasResult
  <2>4. Accounted'
    <3>1. CASE res[f] = "failed"
      <4>1. FailedFiled' = FailedFiled \cup {f} /\ f \notin FailedFiled
        BY <1>10, <2>1, <2>2, <3>1 DEF Receive, FailedFiled
      <4>2. Cardinality(FailedFiled') = Cardinality(FailedFiled) + 1
        BY <4>1, FailedFinite, FS_AddElement
      <4>3. QED
        BY <1>10, <2>1, <2>2, <2>3, <3>1, <4>2 DEF Receive, Accounted
    <3>2. CASE res[f] # "failed"
      <4>1. FailedFiled' = FailedFiled
        BY <1>10, <2>1, <2>2, <3>2 DEF Receive, FailedFiled
      <4>2. QED
        BY <1>10, <2>1, <2>2, <2>3, <3>2, <4>1 DEF Receive, Accounted
    <3>3. QED
      BY <3>1, <3>2
  <2>5. QED
    BY <1>10, <2>3, <2>4 DEF Receive, FilingInv
<1>11. CASE SpawnCloser \/ CloseResults
  <2>1. UNCHANGED <<pc, res, results, data, errorCount, toSet>>
    BY <1>11 DEF SpawnCloser, CloseResults
  <2>2. /\ main' # main => main = "launching" /\ main' = "collecting"
        /\ closer = "done" => main = "launching" \/ closer' = "done"
    BY <1>11 DEF SpawnCloser, CloseResults
  <2>3. QED
    BY <2>1, <2>2, AccountedFrame DEF FilingInv, HasResult, Filed, Drained
<1>12. CASE EndCollect \/ EndUpdate \/ EndRound \/ \E f \in Fetchers : SetGauge(f)
  <2>1. UNCHANGED <<pc, res, results, closer, data, errorCount>>
    BY <1>12 DEF EndCollect, EndUpdate, EndRound, SetGauge
  <2>2. /\ main' \notin {"launching", "collecting"} => Drained
        /\ main' # "updating" => toSet' = {}
        /\ main' # "idle" => main # "idle"
    BY <1>12 DEF EndCollect, EndUpdate, EndRound, SetGauge, FilingInv
  <2>3. QED
    BY <2>1, <2>2, AccountedFrame DEF FilingInv, HasResult, Filed, Drained
<1>13. CASE Expire \/ Cancel \/ UNCHANGED roundVars
  <2>1. UNCHANGED <<pc, res, results, closer, data, errorCount, main, toSet>>
    BY <1>13 DEF Expire, Cancel, roundVars
  <2>2. QED
    BY <2>1, AccountedFrame DEF FilingInv, HasResult, Filed, Drained
<1>14. QED
  BY <1>1, <1>2, <1>3, <1>4, <1>5, <1>6, <1>7, <1>8, <1>9, <1>10, <1>11,
     <1>12, <1>13
  DEF Next, InnerStep, OtherStep, FetcherStep, MainStep, CallReturns

LEMMA FilingInvariant == Spec => []FilingInv
BY FilingInit, FilingStep, GroupInvariant, PTL DEF Spec

\* A round that is over has left nothing behind: no goroutine, no result in the
\* channel, no open channel.
THEOREM RoundLeavesNothing == Spec => []NothingLeftBehind
<1>1. GroupInv /\ FilingInv => NothingLeftBehind
  BY DEF GroupInv, FilingInv, WaitGroupCounts, NothingLeftBehind, Drained
<1>2. QED
  BY <1>1, GroupInvariant, FilingInvariant, PTL

\* What is known of the results when the round decides.
LEMMA AllFiled ==
    ASSUME GroupInv, FilingInv, main # "idle", Drained
    PROVE  /\ \A f \in Fetchers : Filed(f) /\ res[f] # "none"
           /\ FailedFiled = {f \in Fetchers : res[f] = "failed"}
<1>1. \A f \in Fetchers : Filed(f) /\ res[f] # "none"
  BY DEF GroupInv, FilingInv, WaitGroupCounts, Drained, Filed, HasResult
<1>2. QED
  BY <1>1 DEF FailedFiled

\* When a round decides, it has received the result of every query exactly
\* once: its failure count is the number of failed queries and its data are the
\* answers of the others, whatever the order in which the goroutines ended.
THEOREM EveryResultCounts == Spec => []ResultsAccounted
<1>1. GroupInv /\ FilingInv => ResultsAccounted
  BY AllFiled, RoundAssumption DEF FilingInv, Accounted, ResultsAccounted
<1>2. QED
  BY <1>1, GroupInvariant, FilingInvariant, PTL

-----------------------------------------------------------------------------
\* The third layer: the refinement.
\* Steps that neither begin, decide nor end a round, nor touch a gauge, are
\* invisible on the board.
LEMMA BoardStutters ==
    ASSUME FilingInv, main # "updating", main' # "updating", toSet' = toSet,
           gauge' = gauge, main = "idle" <=> main' = "idle",
           main = "ok" <=> main' = "ok"
    PROVE  UNCHANGED Board!vars
BY DEF FilingInv, Board!vars

\* The round that decides to update publishes the answers it has received.
LEMMA DecidingPublishes ==
    ASSUME GroupInv, FilingInv, EndCollect, main' = "updating"
    PROVE  Board!Publish
<1> DEFINE answered == {f \in Fetchers : res[f] # "failed"}
           answer == [f \in answered |-> res[f]]
           before == [f \in Fetchers |-> IF f \in toSet THEN Updated(f) ELSE gauge[f]]
           after == [f \in Fetchers |-> IF f \in answered THEN answer[f]
                                        ELSE IF f \in HashFetchers THEN "zero"
                                        ELSE before[f]]
<1> USE DEF EndCollect
<1>1. /\ \A f \in Fetchers : Filed(f) /\ res[f] # "none"
      /\ FailedFiled = {f \in Fetchers : res[f] = "failed"}
  BY AllFiled
<1>2. Accounted /\ toSet = {} /\ before = [f \in Fetchers |-> gauge[f]]
  BY DEF FilingInv
<1>3. Cardinality(Fetchers \ answered) <= MaxAllowedFailures
  <2>1. Fetchers \ answered = FailedFiled
    BY <1>1
  <2>2. errorCount <= MaxAllowedFailures
    BY RoundAssumption DEF TooManyFailures, RoundAssumption, GroupInv, TypeOK
  <2>3. QED
    BY <1>2, <2>1, <2>2 DEF Accounted
<1>4. answer \in [answered -> Values]
  BY <1>1 DEF GroupInv, TypeOK, Answers
<1>5. \A f \in Fetchers : Updated(f)' = after[f]
  BY <1>1, <1>2 DEF Updated, Accounted
<1>6. [f \in Fetchers |-> IF f \in toSet THEN Updated(f) ELSE gauge[f]]' = after
  <2>1. toSet' = Fetchers
    OBVIOUS
  <2>2. QED
    BY <1>5, <2>1
<1>7. answered \in {a \in SUBSET Fetchers :
                       Cardinality(Fetchers \ a) <= MaxAllowedFailures}
  BY <1>3
<1>8. \E a \in {b \in SUBSET Fetchers :
                   Cardinality(Fetchers \ b) <= MaxAllowedFailures} :
          \E v \in [a -> Values] :
                after = [f \in Fetchers |-> IF f \in a THEN v[f]
                                           ELSE IF f \in HashFetchers THEN "zero"
                                           ELSE before[f]]
  <2> HIDE DEF answered, answer, before
  <2>1. QED
    BY <1>4, <1>7
<1>9. main = "collecting"
  OBVIOUS
<1> HIDE DEF after
<1>10. QED
  BY <1>6, <1>8, <1>9 DEF Board!Publish

\* A gauge that is set shows what was published already.
LEMMA SettingIsInvisible ==
    ASSUME GroupInv, NEW f \in Fetchers, SetGauge(f)
    PROVE  UNCHANGED Board!vars
<1> USE DEF SetGauge, mainVars
<1>1. gauge'[f] = Updated(f) /\ \A g \in Fetchers \ {f} : gauge'[g] = gauge[g]
  BY DEF GroupInv, TypeOK
<1>2. \A g \in Fetchers \ {f} : Updated(g)' = Updated(g)
  BY <1>1 DEF Updated
<1>3. QED
  BY <1>1, <1>2 DEF Board!vars

\* Every round, with its goroutines, retries and channel, is to the readers of
\* the gauges a round of ScrapeBoard: abandoned without a trace, or published
\* as a whole with at most MaxAllowedFailures queries unanswered.
THEOREM RoundImplementsBoard == Spec => ImplementsBoard
<1>1. Init => Board!Init
  BY DEF Init, Board!Init
<1>2. GroupInv /\ FilingInv /\ [Next]_roundVars => [Board!Next]_(Board!vars)
  <2> SUFFICES ASSUME GroupInv, FilingInv, [Next]_roundVars
               PROVE  [Board!Next]_(Board!vars)
    OBVIOUS
  <2> USE DEF fetcherVars, mainVars
  <2>1. CASE BeginRound
    <3>1. Board!Begin
      BY <2>1 DEF BeginRound, Board!Begin, FilingInv
    <3>2. QED
      BY <3>1 DEF Board!Next
  <2>2. CASE \E f \in Fetchers : CallReturns(f) \/ FetcherStep(f)
    <3>1. UNCHANGED <<main, toSet, gauge>> /\ main # "updating"
      BY <2>2 DEF CallReturns, CallAnswered, CallFailsRetrying,
         CallFailsFinally, FetcherStep, Spawn, BackoffElapses, BackoffAborts,
         Send, Finish, GroupInv, WaitGroupCounts, FilingInv, Drained
    <3>2. QED
      BY <3>1, BoardStutters
  <2>3. CASE SpawnCloser \/ \E f \in Fetchers : Receive(f)
    <3>1. /\ main # "updating" /\ main' # "updating" /\ UNCHANGED <<toSet, gauge>>
          /\ main \notin {"idle", "ok"} /\ main' \notin {"idle", "ok"}
      BY <2>3 DEF SpawnCloser, Receive
    <3>2. QED
      BY <3>1, BoardStutters
  <2>4. CASE CloseResults \/ Expire \/ Cancel \/ UNCHANGED roundVars
    <3>1. UNCHANGED <<main, data, toSet, gauge>>
      BY <2>4 DEF CloseResults, Expire, Cancel, roundVars
    <3>2. QED
      BY <3>1 DEF Board!vars, Updated
  <2>5. CASE EndCollect
    <3>1. CASE main' = "updating"
      BY <2>5, <3>1, DecidingPublishes DEF Board!Next
    <3>2. CASE main' = "failed"
      BY <2>5, <3>2, BoardStutters DEF EndCollect
    <3>3. QED
      BY <2>5, <3>1, <3>2 DEF EndCollect
  <2>6. CASE \E f \in Fetchers : SetGauge(f)
    BY <2>6, SettingIsInvisible
  <2>7. CASE EndUpdate
    BY <2>7 DEF EndUpdate, Board!vars, Updated
  <2>8. CASE EndRound
    <3>1. CASE main = "ok"
      <4>1. Board!End
        BY <2>8, <3>1 DEF EndRound, Board!End, FilingInv
      <4>2. QED
        BY <4>1 DEF Board!Next
    <3>2. CASE main = "failed"
      <4>1. Board!Abandon
        BY <2>8, <3>2 DEF EndRound, Board!Abandon, FilingInv
      <4>2. QED
        BY <4>1 DEF Board!Next
    <3>3. QED
      BY <2>8, <3>1, <3>2 DEF EndRound
  <2>9. QED
    BY <2>1, <2>2, <2>3, <2>4, <2>5, <2>6, <2>7, <2>8
    DEF Next, InnerStep, OtherStep, MainStep
<1>3. QED
  BY <1>1, <1>2, GroupInvariant, FilingInvariant, PTL
  DEF Spec, ImplementsBoard, Board!Spec

-----------------------------------------------------------------------------
\* Every gauge that updateMetrics sets only if the query has an answer shows what
\* bitcoind answered or nothing: in every round, whatever fails, the hash rates
\* are the only ones that are ever zeroed.
THEOREM OnlyHashRatesZeroed ==
    Spec => [](\A f \in Fetchers \ HashFetchers : gauge[f] # "zero")
<1> DEFINE Honest == \A f \in Fetchers \ HashFetchers : gauge[f] # "zero"
<1>1. Init => Honest
  BY DEF Init
<1>2. ASSUME TypeOK, Honest, [Next]_roundVars PROVE Honest'
  <2>1. ASSUME NEW g \in Fetchers, SetGauge(g) PROVE Honest'
    <3>1. data[g] \in Values \cup {"none"}
      BY <1>2 DEF TypeOK
    <3>2. g \notin HashFetchers => Updated(g) # "zero"
      BY <1>2, <2>1, <3>1, RoundAssumption DEF Updated, RoundAssumption
    <3>3. gauge' = [gauge EXCEPT ![g] = Updated(g)]
      BY <2>1 DEF SetGauge
    <3> HIDE DEF Honest
    <3>4. \A f \in Fetchers \ HashFetchers : gauge'[f] # "zero"
      BY <1>2, <3>2, <3>3 DEF TypeOK, Honest
    <3>5. QED
      BY <3>4 DEF Honest
  <2>2. ASSUME ~\E g \in Fetchers : SetGauge(g) PROVE UNCHANGED gauge
    BY <1>2, <2>2
       DEF Next, BeginRound, InnerStep, CallReturns, CallAnswered, CallFailsRetrying,
           CallFailsFinally, FetcherStep, Spawn, BackoffElapses, BackoffAborts, Send,
           Finish, MainStep, Receive, OtherStep, SpawnCloser, CloseResults, EndCollect,
           EndUpdate, Expire, Cancel, EndRound, mainVars, roundVars
  <2>3. QED
    BY <1>2, <2>1, <2>2
<1>3. QED
  <2> HIDE DEF Honest
  <2>1. Spec => []Honest
    BY <1>1, <1>2, TypeCorrect, PTL DEF Spec
  <2>2. Honest => \A f \in Fetchers \ HashFetchers : gauge[f] # "zero"
    BY DEF Honest
  <2>3. QED
    BY <2>1, <2>2, PTL
=============================================================================
