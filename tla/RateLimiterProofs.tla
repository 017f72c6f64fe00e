------------------------- MODULE RateLimiterProofs -------------------------
(***************************************************************************)
(* Theorems about RateLimiter.tla, for any clients and connections, any    *)
(* limit, window, block time and cleanup interval, and any bound on the    *)
(* clock.                                                                  *)
(*                                                                         *)
(* What has to be shown is that nobody overwrites the block of a client    *)
(* while it is in force.  Three things could: a request that counts and    *)
(* starts a new window, a cleanup that deletes the entry, and another      *)
(* blockClient.  The last sets a penalty of its own.  The cleanup cannot,  *)
(* since its time is never ahead of the clock.  A request could, so the    *)
(* invariant says who is past its check: nobody whose client's block is    *)
(* protected, unless a blockClient of that client is about to start a new  *)
(* penalty.                                                                *)
(***************************************************************************)
EXTENDS RateLimiter, SequenceTheorems, TLAPS

\* The block of c is in force and no request of c was past its lookup when it
\* was set.
Protected(c) == InForce(penalty[c]) /\ ~overlap[c]
Writing(c) == \E w \in Connections : pc[w] = "writing" /\ ClientOf[w] = c

NowPast == \A k \in Connections : now[k] <= clock
OneWriter ==
    \A k, w \in Connections : pc[k] = "writing" /\ pc[w] = "writing" => k = w
BlockKept ==
    \A c \in Clients :
        Protected(c) => clients[c].blocked = penalty[c] /\ clients[c].requests # 0
LateWait ==
    \A k \in Connections :
        Protected(ClientOf[k]) =>
            /\ pc[k] \in {"stamping", "counting"} => Writing(ClientOf[k])
            /\ pc[k] = "checking" => ref[k].live
BlockInv == NowPast /\ OneWriter /\ BlockKept /\ LateWait

-----------------------------------------------------------------------------
LEMMA NeverInTime ==
    /\ Never \in TimeOrNever /\ TimeOrNever \subseteq Int
    /\ Time \subseteq TimeOrNever /\ Time \subseteq Nat /\ 0 \in Time
BY LimiterAssumption DEF LimiterAssumption, Never, Time, TimeOrNever

\* Counting keeps the entry in its type, whatever window it falls in.
LEMMA CountedType ==
    ASSUME NEW e \in [requests : 0..(Requests + 1), window : Time, blocked : TimeOrNever],
           NEW t \in Time
    PROVE  Counted(e, t) \in [requests : 1..(Requests + 1), window : Time, blocked : TimeOrNever]
<1>1. Requests \in Nat \ {0}
  BY LimiterAssumption DEF LimiterAssumption
<1>2. CASE e.requests = 0 \/ t - e.window > WindowSize
  BY <1>1, <1>2, NeverInTime DEF Counted
<1>3. CASE ~(e.requests = 0 \/ t - e.window > WindowSize)
  <2>1. Counted(e, t) = [e EXCEPT !.requests = IF @ > Requests THEN @ ELSE @ + 1]
    BY <1>3 DEF Counted
  <2>2. (IF e.requests > Requests THEN e.requests ELSE e.requests + 1) \in 1..(Requests + 1)
    BY <1>1, <1>3
  <2>3. QED
    BY <2>1, <2>2
<1>4. QED
  BY <1>2, <1>3

LEMMA TypeInit == Init => TypeOK
BY LimiterAssumption, NeverInTime DEF LimiterAssumption, Init, TypeOK, Absent

LEMMA TypeStep == TypeOK /\ [Next]_vars => TypeOK'
<1> SUFFICES ASSUME TypeOK, [Next]_vars PROVE TypeOK'
  OBVIOUS
<1> USE LimiterAssumption DEF LimiterAssumption, TypeOK
<1>1. CASE Tick
  BY <1>1 DEF Tick, history, Time
<1>2. ASSUME NEW k \in Connections, Request(k) PROVE TypeOK'
  <2>0. ClientOf[k] \in Clients
    OBVIOUS
  <2>1. CASE Lookup(k)
    <3>1. ref' \in [Connections -> [live : BOOLEAN, blocked : TimeOrNever]]
      <4>1. [live |-> TRUE, blocked |-> Never] \in [live : BOOLEAN, blocked : TimeOrNever]
        BY NeverInTime
      <4>2. QED
        BY <2>1, <4>1 DEF Lookup
    <3>2. under' \in [Connections -> TimeOrNever]
      <4>1. penalty[ClientOf[k]] \in TimeOrNever
        BY <2>0
      <4>2. QED
        BY <2>1, <4>1, NeverInTime DEF Lookup
    <3>3. pc' \in [Connections -> {"new", "checking", "stamping", "counting",
                                    "offending", "writing", "served", "refused"}]
      BY <2>1 DEF Lookup
    <3>4. UNCHANGED <<clock, clients, lastCleanup, now, stamps, penalty, overlap>>
      BY <2>1 DEF Lookup
    <3>5. QED
      BY <3>1, <3>2, <3>3, <3>4
  <2>2. CASE ReadBlock(k)
    BY <2>2 DEF ReadBlock, history
  <2>3. CASE Stamp(k)
    <3>1. stamps' \in [Clients -> Seq(Time)]
      <4> DEFINE c == ClientOf[k]
      <4>1. CASE c \notin PoliteClients
        BY <2>3, <4>1 DEF Stamp
      <4>2. CASE c \in PoliteClients
        <5>1. stamps[c] \in Seq(Time) /\ clock \in Time
          BY <2>0
        <5>2. Len(stamps[c]) < Requests \/ stamps[c] # <<>>
          BY <5>1
        <5>3. (IF Len(stamps[c]) < Requests THEN Append(stamps[c], clock)
               ELSE Append(Tail(stamps[c]), clock)) \in Seq(Time)
          BY <5>1, <5>2
        <5>4. stamps' = [stamps EXCEPT ![c] = IF Len(stamps[c]) < Requests
                            THEN Append(stamps[c], clock)
                            ELSE Append(Tail(stamps[c]), clock)]
          BY <2>3, <4>2 DEF Stamp
        <5>5. QED
          BY <5>3, <5>4
      <4>3. QED
        BY <4>1, <4>2
    <3>2. QED
      BY <2>3, <3>1 DEF Stamp
  <2>4. CASE Count(k)
    <3> DEFINE c == ClientOf[k]
               t == now[k]
               evicted == IF t - lastCleanup > CleanupInterval THEN Stale(t) ELSE {}
               kept == [d \in Clients |-> IF d \in evicted THEN Absent ELSE clients[d]]
               Entries == [requests : 0..(Requests + 1), window : Time,
                           blocked : TimeOrNever]
    <3>1. t \in Time
      OBVIOUS
    <3>2. kept \in [Clients -> Entries]
      BY NeverInTime DEF Absent
    <3>3. Counted(kept[c], t) \in Entries
      <4>1. Counted(kept[c], t) \in [requests : 1..(Requests + 1), window : Time,
                                     blocked : TimeOrNever]
        <5> HIDE DEF kept
        <5> QED
          BY <2>0, <3>1, <3>2, CountedType
      <4>2. QED
        BY <4>1
    <3>4. clients' \in [Clients -> Entries]
      <4>1. clients' = [kept EXCEPT ![c] = Counted(kept[c], t)]
        BY <2>4 DEF Count
      <4> HIDE DEF kept
      <4> QED
        BY <4>1, <3>2, <3>3
    <3>5. ref' \in [Connections -> [live : BOOLEAN, blocked : TimeOrNever]]
      <4>1. \A j \in Connections : clients[ClientOf[j]].blocked \in TimeOrNever
        OBVIOUS
      <4>2. QED
        BY <2>4, <4>1 DEF Count
    <3>6. under' \in [Connections -> TimeOrNever]
      BY <2>4, NeverInTime DEF Count
    <3>7. pc' \in [Connections -> {"new", "checking", "stamping", "counting",
                                    "offending", "writing", "served", "refused"}]
      BY <2>4 DEF Count
    <3>8. lastCleanup' \in Time
      BY <2>4, <3>1 DEF Count
    <3>9. UNCHANGED <<clock, now, stamps, penalty, overlap>>
      BY <2>4 DEF Count
    <3>10. QED
      BY <3>4, <3>5, <3>6, <3>7, <3>8, <3>9
  <2>5. CASE BlockBegin(k)
    BY <2>5 DEF BlockBegin, history
  <2>6. CASE BlockEnd(k)
    <3> DEFINE c == ClientOf[k]
    <3>1. pc' = [pc EXCEPT ![k] = "refused"]
          /\ UNCHANGED <<clock, lastCleanup, ref, now, stamps, under>>
      BY <2>6 DEF BlockEnd
    <3>2. CASE clients[c].requests = 0
      <4>1. UNCHANGED <<clients, penalty, overlap>>
        BY <2>6, <3>2 DEF BlockEnd
      <4>2. QED
        BY <3>1, <4>1
    <3>3. CASE clients[c].requests # 0
      <4>1. now[k] \in TimeOrNever
        BY NeverInTime
      <4>2. /\ clients' = [clients EXCEPT ![c].blocked = now[k]]
            /\ penalty' = [penalty EXCEPT ![c] = now[k]]
            /\ overlap' = [overlap EXCEPT ![c] =
                  \E j \in Connections :
                      /\ ClientOf[j] = c
                      /\ pc[j] \in {"checking", "stamping", "counting"}]
        BY <2>6, <3>3 DEF BlockEnd
      <4>3. clients' \in [Clients -> [requests : 0..(Requests + 1), window : Time,
                                      blocked : TimeOrNever]]
        BY <2>0, <4>1, <4>2
      <4>4. penalty' \in [Clients -> TimeOrNever]
        BY <4>1, <4>2
      <4>5. overlap' \in [Clients -> BOOLEAN]
        <5>1. (\E j \in Connections :
                  /\ ClientOf[j] = c
                  /\ pc[j] \in {"checking", "stamping", "counting"}) \in BOOLEAN
          OBVIOUS
        <5>2. QED
          BY <4>2, <5>1
      <4>6. QED
        BY <3>1, <4>3, <4>4, <4>5
    <3>4. QED
      BY <3>2, <3>3
  <2>7. QED
    BY <1>2, <2>1, <2>2, <2>3, <2>4, <2>5, <2>6 DEF Request
<1>3. CASE UNCHANGED vars
  BY <1>3 DEF vars, codeVars, history
<1>4. QED
  BY <1>1, <1>2, <1>3 DEF Next

\* The entries, times and stages that Middleware and the steps it calls leave
\* behind stay in their types, whatever the limit, the window and the clients.
THEOREM TypeCorrect == Spec => []TypeOK
<1>1. QED
  BY TypeInit, TypeStep, PTL DEF Spec

-----------------------------------------------------------------------------
\* What the steps of the proof read from the types.
LEMMA Facts ==
    ASSUME TypeOK
    PROVE  /\ clock \in Nat /\ BlockTime \in Nat /\ WindowSize \in Nat
           /\ \A c \in Clients : penalty[c] \in Int /\ clients[c].blocked \in Int
                                 /\ clients[c].requests \in Nat
           /\ \A k \in Connections : now[k] \in Nat /\ ClientOf[k] \in Clients
<1>1. clock \in Nat /\ BlockTime \in Nat /\ WindowSize \in Nat /\ Requests \in Nat
  BY NeverInTime, LimiterAssumption DEF TypeOK, LimiterAssumption
<1>2. ASSUME NEW c \in Clients
      PROVE  /\ penalty[c] \in Int /\ clients[c].blocked \in Int
             /\ clients[c].requests \in Nat
  <2>1. penalty[c] \in TimeOrNever
    BY DEF TypeOK
  <2>2. clients[c] \in [requests : 0..(Requests + 1), window : Time, blocked : TimeOrNever]
    BY DEF TypeOK
  <2>3. clients[c].blocked \in TimeOrNever /\ clients[c].requests \in 0..(Requests + 1)
    BY <2>2
  <2>4. clients[c].requests \in Nat
    BY <1>1, <2>3
  <2>5. penalty[c] \in Int /\ clients[c].blocked \in Int
    BY <2>1, <2>3, NeverInTime
  <2>6. QED
    BY <2>4, <2>5
<1>3. ASSUME NEW k \in Connections PROVE now[k] \in Nat /\ ClientOf[k] \in Clients
  BY NeverInTime, LimiterAssumption DEF TypeOK, LimiterAssumption
<1>4. QED
  BY <1>1, <1>2, <1>3

LEMMA BlockInit == Init => BlockInv
<1> SUFFICES ASSUME Init PROVE BlockInv
  OBVIOUS
<1>1. ASSUME NEW c \in Clients PROVE ~Protected(c)
  <2>1. clock = 0 /\ penalty[c] = Never
    BY DEF Init
  <2>2. ~(0 - Never < BlockTime)
    BY LimiterAssumption DEF LimiterAssumption, Never
  <2>3. QED
    BY <2>1, <2>2 DEF Protected, InForce
<1>2. NowPast /\ OneWriter
  BY DEF Init, NowPast, OneWriter
<1>3. BlockKept /\ LateWait
  BY <1>1, LimiterAssumption DEF LimiterAssumption, BlockKept, LateWait
<1>4. QED
  BY <1>2, <1>3 DEF BlockInv

\* Time only weakens what is protected.
LEMMA BlockTick == ASSUME TypeOK, BlockInv, Tick PROVE BlockInv'
<1>1. clock' = clock + 1 /\ UNCHANGED <<clients, pc, ref, now, penalty, overlap>>
  BY DEF Tick, history
<1>2. \A c \in Clients : Protected(c)' => Protected(c)
  BY <1>1, Facts DEF Protected, InForce
<1>3. NowPast'
  BY <1>1, Facts DEF BlockInv, NowPast
<1>4. OneWriter' /\ BlockKept'
  BY <1>1, <1>2 DEF BlockInv, OneWriter, BlockKept
<1>5. LateWait'
  BY <1>1, <1>2, Facts DEF BlockInv, LateWait, Writing
<1>6. QED
  BY <1>3, <1>4, <1>5 DEF BlockInv

\* A request of a protected client finds the entry, with its block.
LEMMA BlockLookup ==
    ASSUME TypeOK, BlockInv, NEW k \in Connections, Lookup(k)
    PROVE  BlockInv'
<1>1. UNCHANGED <<clock, clients, now, penalty, overlap>>
  BY DEF Lookup
<1>2. \A c \in Clients : Protected(c)' <=> Protected(c)
  BY <1>1 DEF Protected, InForce
<1>3. /\ pc'[k] \in {"stamping", "checking"}
      /\ \A j \in Connections : j # k => pc'[j] = pc[j] /\ ref'[j] = ref[j]
  BY DEF Lookup, TypeOK
<1>4. clients[ClientOf[k]].requests # 0 => pc'[k] = "checking" /\ ref'[k].live
  BY DEF Lookup, TypeOK
<1>5. \A j \in Connections : pc[j] # "writing"
  BY DEF Lookup, MutexFree
<1>6. NowPast' /\ OneWriter' /\ BlockKept'
  BY <1>1, <1>2, <1>3, <1>5 DEF BlockInv, NowPast, OneWriter, BlockKept
<1>7. LateWait'
  <2> SUFFICES ASSUME NEW j \in Connections, Protected(ClientOf[j])
               PROVE  /\ pc'[j] \notin {"stamping", "counting"}
                      /\ pc'[j] = "checking" => ref'[j].live
    BY <1>2, Facts DEF LateWait
  <2>1. CASE j = k
    <3>1. clients[ClientOf[k]].requests # 0
      BY <2>1, Facts DEF BlockInv, BlockKept
    <3>2. QED
      BY <2>1, <3>1, <1>4
  <2>2. CASE j # k
    BY <2>2, <1>3, <1>5 DEF BlockInv, LateWait, Writing
  <2>3. QED
    BY <2>1, <2>2
<1>8. QED
  BY <1>6, <1>7 DEF BlockInv

\* A protected client is refused, unless its block is being written.
LEMMA BlockRead ==
    ASSUME TypeOK, BlockInv, NEW k \in Connections, ReadBlock(k)
    PROVE  BlockInv'
<1>1. UNCHANGED <<clock, clients, now, ref, penalty, overlap>>
  BY DEF ReadBlock, history
<1>2. \A c \in Clients : Protected(c)' <=> Protected(c)
  BY <1>1 DEF Protected, InForce
<1>3. /\ pc[k] = "checking"
      /\ pc'[k] \in {"refused", "stamping"}
      /\ \A j \in Connections : j # k => pc'[j] = pc[j]
  BY DEF ReadBlock, TypeOK
<1>4. \A c \in Clients : Writing(c)' <=> Writing(c)
  BY <1>3 DEF Writing
<1>5. NowPast' /\ OneWriter' /\ BlockKept'
  BY <1>1, <1>2, <1>3 DEF BlockInv, NowPast, OneWriter, BlockKept
<1>6. ASSUME Protected(ClientOf[k]), ~Writing(ClientOf[k])
      PROVE  pc'[k] = "refused"
  <2>1. ref[k].live
    BY <1>3, <1>6 DEF BlockInv, LateWait
  <2>2. clients[ClientOf[k]].blocked = penalty[ClientOf[k]]
    BY <1>6, Facts DEF BlockInv, BlockKept
  <2>3. BlockReadings(k) = {InForce(penalty[ClientOf[k]])}
    BY <1>6, <2>1, <2>2 DEF BlockReadings, Writing
  <2>4. InForce(penalty[ClientOf[k]])
    BY <1>6 DEF Protected
  <2>5. PICK blocked \in BlockReadings(k) :
           pc' = [pc EXCEPT ![k] = IF blocked THEN "refused" ELSE "stamping"]
    BY DEF ReadBlock
  <2>6. blocked
    BY <2>3, <2>4, <2>5
  <2>7. pc' = [pc EXCEPT ![k] = "refused"]
    BY <2>5, <2>6
  <2>8. QED
    BY <2>7 DEF TypeOK
<1>7. LateWait'
  <2> SUFFICES ASSUME NEW j \in Connections, Protected(ClientOf[j])
               PROVE  /\ pc'[j] \in {"stamping", "counting"} => Writing(ClientOf[j])
                      /\ pc'[j] = "checking" => ref[j].live
    BY <1>1, <1>2, <1>4, Facts DEF LateWait
  <2>1. CASE j = k
    BY <2>1, <1>3, <1>6
  <2>2. CASE j # k
    BY <2>2, <1>3 DEF BlockInv, LateWait
  <2>3. QED
    BY <2>1, <2>2
<1>8. QED
  BY <1>5, <1>7 DEF BlockInv

LEMMA BlockStamp ==
    ASSUME TypeOK, BlockInv, NEW k \in Connections, Stamp(k)
    PROVE  BlockInv'
<1>1. UNCHANGED <<clock, clients, ref, penalty, overlap>>
  BY DEF Stamp
<1>2. \A c \in Clients : Protected(c)' <=> Protected(c)
  BY <1>1 DEF Protected, InForce
<1>3. /\ pc[k] = "stamping" /\ pc'[k] = "counting"
      /\ now'[k] = clock
      /\ \A j \in Connections : j # k => pc'[j] = pc[j] /\ now'[j] = now[j]
  BY DEF Stamp, TypeOK
<1>4. \A c \in Clients : Writing(c)' <=> Writing(c)
  BY <1>3 DEF Writing
<1>5. NowPast' /\ OneWriter' /\ BlockKept'
  BY <1>1, <1>2, <1>3, Facts DEF BlockInv, NowPast, OneWriter, BlockKept
<1>6. LateWait'
  BY <1>1, <1>2, <1>3, <1>4, Facts DEF BlockInv, LateWait
<1>7. QED
  BY <1>5, <1>6 DEF BlockInv

\* Counting: the client is not protected, for its request would not have got
\* past its check; and nobody else's protected block is old enough to delete.
LEMMA BlockCount ==
    ASSUME TypeOK, BlockInv, NEW k \in Connections, Count(k)
    PROVE  BlockInv'
<1> DEFINE c == ClientOf[k]
           t == now[k]
           evicted == IF t - lastCleanup > CleanupInterval THEN Stale(t) ELSE {}
           kept == [d \in Clients |-> IF d \in evicted THEN Absent ELSE clients[d]]
           entry == Counted(kept[c], t)
           dropped == evicted \cup (IF entry.requests = 1 THEN {c} ELSE {})
<1>1. UNCHANGED <<clock, now, penalty, overlap>>
  BY DEF Count
<1>2. \A d \in Clients : Protected(d)' <=> Protected(d)
  BY <1>1 DEF Protected, InForce
<1>3. /\ pc[k] = "counting"
      /\ pc'[k] \in {"offending", "served"}
      /\ \A j \in Connections : j # k => pc'[j] = pc[j]
  BY DEF Count, TypeOK
<1>4. \A j \in Connections : pc[j] # "writing"
  BY DEF Count, MutexFree
<1>5. ~Protected(c)
  BY <1>3, <1>4 DEF BlockInv, LateWait, Writing
<1>6. ASSUME NEW d \in Clients, Protected(d) PROVE d \notin evicted /\ d # c
  <2>1. clock - penalty[d] < BlockTime /\ clients[d].blocked = penalty[d]
    BY <1>6 DEF Protected, InForce, BlockInv, BlockKept
  <2>2. t <= clock
    BY DEF BlockInv, NowPast
  <2>3. ~(t - clients[d].blocked > BlockTime)
    BY <2>1, <2>2, Facts
  <2>4. QED
    BY <1>5, <1>6, <2>3 DEF Stale
<1>7. NowPast' /\ OneWriter'
  BY <1>1, <1>3, <1>4 DEF BlockInv, NowPast, OneWriter
<1>8. BlockKept'
  <2> SUFFICES ASSUME NEW d \in Clients, Protected(d)
               PROVE  clients'[d].blocked = penalty[d] /\ clients'[d].requests # 0
    BY <1>1, <1>2 DEF BlockKept
  <2>1. clients' = [kept EXCEPT ![c] = entry]
    BY DEF Count
  <2>2. clients'[d] = clients[d]
    BY <1>6, <2>1
  <2>3. QED
    BY <2>2 DEF BlockInv, BlockKept
<1>9. LateWait'
  <2> SUFFICES ASSUME NEW j \in Connections, Protected(ClientOf[j])
               PROVE  /\ pc'[j] \notin {"stamping", "counting"}
                      /\ pc'[j] = "checking" => ref'[j].live
    BY <1>2, Facts DEF LateWait
  <2>1. pc[j] \notin {"stamping", "counting"} /\ (pc[j] = "checking" => ref[j].live)
    BY <1>4 DEF BlockInv, LateWait, Writing
  <2>2. ClientOf[j] \notin dropped
    BY <1>6, Facts
  <2>3. ref'[j] = ref[j]
    <3>1. ref' = [i \in Connections |->
                     IF ref[i].live /\ ClientOf[i] \in dropped
                     THEN [live |-> FALSE, blocked |-> clients[ClientOf[i]].blocked]
                     ELSE ref[i]]
      BY DEF Count
    <3> HIDE DEF dropped
    <3>2. QED
      BY <2>2, <3>1
  <2>4. QED
    BY <1>3, <2>1, <2>3
<1>10. QED
  BY <1>7, <1>8, <1>9 DEF BlockInv

LEMMA BlockBegins ==
    ASSUME TypeOK, BlockInv, NEW k \in Connections, BlockBegin(k)
    PROVE  BlockInv'
<1>1. UNCHANGED <<clock, clients, ref, penalty, overlap>>
  BY DEF BlockBegin, history
<1>2. \A c \in Clients : Protected(c)' <=> Protected(c)
  BY <1>1 DEF Protected, InForce
<1>3. /\ pc'[k] = "writing" /\ now'[k] = clock
      /\ \A j \in Connections : j # k => pc'[j] = pc[j] /\ now'[j] = now[j]
  BY DEF BlockBegin, TypeOK
<1>4. \A j \in Connections : pc[j] # "writing"
  BY DEF BlockBegin, MutexFree
<1>5. NowPast' /\ OneWriter' /\ BlockKept'
  BY <1>1, <1>2, <1>3, <1>4, Facts DEF BlockInv, NowPast, OneWriter, BlockKept
<1>6. LateWait'
  BY <1>1, <1>2, <1>3, <1>4, Facts DEF BlockInv, LateWait, Writing
<1>7. QED
  BY <1>5, <1>6 DEF BlockInv

\* Writing a block starts a penalty, which is protected only when nobody of
\* that client is late.
LEMMA BlockEnds ==
    ASSUME TypeOK, BlockInv, NEW k \in Connections, BlockEnd(k)
    PROVE  BlockInv'
<1> DEFINE c == ClientOf[k]
<1>0. c \in Clients
  BY Facts
<1>1. UNCHANGED <<clock, now, ref>>
  BY DEF BlockEnd
<1>2. /\ pc[k] = "writing" /\ pc'[k] = "refused"
      /\ \A j \in Connections : j # k => pc'[j] = pc[j]
  BY DEF BlockEnd, TypeOK
<1>3. \A j \in Connections : pc[j] = "writing" => j = k
  BY <1>2 DEF BlockInv, OneWriter
<1>4. \A d \in Clients : d # c =>
          /\ clients'[d] = clients[d] /\ penalty'[d] = penalty[d]
          /\ overlap'[d] = overlap[d]
  BY DEF BlockEnd, TypeOK
<1>5. \A d \in Clients : d # c => (Protected(d)' <=> Protected(d))
  BY <1>1, <1>4 DEF Protected, InForce
<1>6. Protected(c)' =>
          /\ clients'[c].blocked = penalty'[c] /\ clients'[c].requests # 0
          /\ \A j \in Connections :
                 ClientOf[j] = c => pc[j] \notin {"checking", "stamping", "counting"}
  <2>1. CASE clients[c].requests = 0
    <3>1. ~Protected(c)
      BY <1>0, <2>1 DEF BlockInv, BlockKept
    <3>2. UNCHANGED <<clock, penalty, overlap>>
      BY <1>1, <2>1 DEF BlockEnd
    <3>3. QED
      BY <3>1, <3>2 DEF Protected, InForce
  <2>2. CASE clients[c].requests # 0
    <3>1. /\ clients' = [clients EXCEPT ![c].blocked = now[k]]
          /\ penalty' = [penalty EXCEPT ![c] = now[k]]
          /\ overlap' = [overlap EXCEPT ![c] =
                \E j \in Connections :
                    /\ ClientOf[j] = c
                    /\ pc[j] \in {"checking", "stamping", "counting"}]
      BY <2>2 DEF BlockEnd
    <3>2. clients'[c].blocked = penalty'[c] /\ clients'[c].requests # 0
      BY <1>0, <2>2, <3>1 DEF TypeOK
    <3>3. overlap'[c] <=> \E j \in Connections :
                              /\ ClientOf[j] = c
                              /\ pc[j] \in {"checking", "stamping", "counting"}
      BY <1>0, <3>1 DEF TypeOK
    <3>4. QED
      BY <3>2, <3>3 DEF Protected
  <2>3. QED
    BY <2>1, <2>2
<1>7. NowPast' /\ OneWriter'
  BY <1>1, <1>2, <1>3 DEF BlockInv, NowPast, OneWriter
<1>8. BlockKept'
  BY <1>4, <1>5, <1>6 DEF BlockInv, BlockKept
<1>9. LateWait'
  <2> SUFFICES ASSUME NEW j \in Connections, Protected(ClientOf[j])'
               PROVE  /\ pc'[j] \notin {"stamping", "counting"}
                      /\ pc'[j] = "checking" => ref'[j].live
    BY DEF LateWait
  <2>1. CASE ClientOf[j] = c
    BY <1>2, <1>6, <2>1
  <2>2. CASE ClientOf[j] # c
    <3>1. Protected(ClientOf[j])
      BY <1>5, <2>2, Facts
    <3>2. ~Writing(ClientOf[j])
      BY <1>3, <2>2 DEF Writing
    <3>3. QED
      BY <1>1, <1>2, <2>2, <3>1, <3>2 DEF BlockInv, LateWait
  <2>3. QED
    BY <2>1, <2>2
<1>10. QED
  BY <1>7, <1>8, <1>9 DEF BlockInv

LEMMA BlockStep == TypeOK /\ BlockInv /\ [Next]_vars => BlockInv'
<1> SUFFICES ASSUME TypeOK, BlockInv, [Next]_vars PROVE BlockInv'
  OBVIOUS
<1>1. CASE Tick
  BY <1>1, BlockTick
<1>2. ASSUME NEW k \in Connections, Request(k) PROVE BlockInv'
  BY <1>2, BlockLookup, BlockRead, BlockStamp, BlockCount, BlockBegins, BlockEnds
     DEF Request
<1>3. CASE UNCHANGED vars
  <2>1. UNCHANGED <<clock, clients, pc, ref, now, penalty, overlap>>
    BY <1>3 DEF vars, codeVars, history
  <2>2. QED
    BY <2>1 DEF BlockInv, NowPast, OneWriter, BlockKept, LateWait, Protected, InForce, Writing
<1>4. QED
  BY <1>1, <1>2, <1>3 DEF Next

\* The block of a client lasts its BlockTime unless a request of that client
\* was already past its lookup when the block was set: the only way to lose it
\* is the window between isBlocked and isRateLimited in Middleware.
THEOREM BlockLasts == Spec => []BlockHoldsUnlessOverlapped
<1>1. TypeOK /\ BlockInv => BlockHoldsUnlessOverlapped
  BY DEF BlockInv, BlockKept, Protected, BlockHoldsUnlessOverlapped
<1>2. QED
  BY <1>1, TypeInit, TypeStep, BlockInit, BlockStep, PTL DEF Spec

-----------------------------------------------------------------------------
\* That window is the only way to be served under a block, too.

\* The request of k is counted and let through, under the block it began in.
ServedUnderBlock(k) == pc[k] = "counting" /\ pc'[k] = "served" /\ under'[k] # Never

LEMMA NeverIsOver == TypeOK => ~InForce(Never)
BY Facts, LimiterAssumption DEF LimiterAssumption, InForce, Never

\* When it is counted, the block it began in is the block of its client, and in
\* force: had nobody been late when it was set, this request would not be here.
LEMMA ServedByOverlap ==
    ASSUME TypeOK, BlockInv, [Next]_vars, NEW k \in Connections, ServedUnderBlock(k)
    PROVE  overlap[ClientOf[k]]
<1>1. Count(k)
  <2>1. pc'[k] # pc[k]
    BY DEF ServedUnderBlock
  <2>2. ~Tick /\ ~UNCHANGED vars
    BY <2>1 DEF Tick, vars, codeVars
  <2>3. ASSUME NEW j \in Connections, Request(j) PROVE j = k
    BY <2>1, <2>3
       DEF Request, Lookup, ReadBlock, Stamp, Count, BlockBegin, BlockEnd, TypeOK
  <2>4. Request(k)
    BY <2>2, <2>3 DEF Next
  <2>5. QED
    BY <2>4 DEF ServedUnderBlock, Request, Lookup, ReadBlock, Stamp, BlockBegin, BlockEnd
<1>2. InForce(penalty[ClientOf[k]])
  BY <1>1 DEF Count, ServedUnderBlock, TypeOK
<1>3. \A j \in Connections : pc[j] # "writing"
  BY <1>1 DEF Count, MutexFree
<1>4. ~Protected(ClientOf[k])
  BY <1>3 DEF ServedUnderBlock, BlockInv, LateWait, Writing
<1>5. QED
  BY <1>2, <1>4 DEF Protected

\* However many connections a client has, whatever the cleanup deletes and a racing
\* read returns, a request is served under a block only when that block was set
\* while a request of the client was between isBlocked and the count of
\* isRateLimited (Middleware).
THEOREM OnlyOverlapIsServed ==
    Spec => [][\A k \in Connections : ServedUnderBlock(k) => overlap[ClientOf[k]]]_vars
<1>1. TypeOK /\ BlockInv /\ [Next]_vars =>
         [\A k \in Connections : ServedUnderBlock(k) => overlap[ClientOf[k]]]_vars
  BY ServedByOverlap
<1>2. QED
  BY <1>1, TypeInit, TypeStep, BlockInit, BlockStep, PTL DEF Spec

\* Nobody holds two connections.
SingleConnections == \A j, k \in Connections : ClientOf[j] = ClientOf[k] => j = k

\* Clients that hold one connection each are never served under a block: it takes
\* two requests of one client at once for the exporter to lose a block.
THEOREM BlockHoldsForSingles == ASSUME SingleConnections PROVE Spec => []BlockHolds
<1> DEFINE NoOverlap == \A c \in Clients : ~overlap[c]
<1>1. Init => NoOverlap /\ BlockHolds
  BY DEF Init, BlockHolds
<1>2. ASSUME TypeOK, BlockInv, NoOverlap, BlockHolds, [Next]_vars
      PROVE  (NoOverlap /\ BlockHolds)'
  <2>1. NoOverlap'
    <3>1. ASSUME NEW k \in Connections, BlockEnd(k) PROVE NoOverlap'
      <4>1. \A j \in Connections : ClientOf[j] = ClientOf[k] => pc[j] = "writing"
        BY <3>1 DEF SingleConnections, BlockEnd
      <4>2. ~\E j \in Connections :
               /\ ClientOf[j] = ClientOf[k]
               /\ pc[j] \in {"checking", "stamping", "counting"}
        BY <4>1
      <4>3. overlap' \in {overlap, [overlap EXCEPT ![ClientOf[k]] = FALSE]}
        BY <3>1, <4>2 DEF BlockEnd
      <4>4. QED
        BY <1>2, <4>3 DEF TypeOK
    <3>2. ASSUME ~\E k \in Connections : BlockEnd(k) PROVE UNCHANGED overlap
      BY <1>2, <3>2 DEF Next, Tick, Request, Lookup, ReadBlock, Stamp, Count, BlockBegin,
                        vars, history
    <3>3. QED
      BY <1>2, <3>1, <3>2
  <2>2. BlockHolds'
    <3> SUFFICES ASSUME NEW k \in Connections, pc'[k] = "served", under'[k] # Never
                 PROVE  FALSE
      BY DEF BlockHolds
    <3>1. ClientOf[k] \in Clients
      BY <1>2, Facts
    <3>2. ~ServedUnderBlock(k)
      BY <1>2, <3>1, ServedByOverlap
    <3>3. pc[k] = "served" => under'[k] # under[k]
      BY <1>2 DEF BlockHolds
    <3>4. pc[k] # "counting"
      BY <3>2 DEF ServedUnderBlock
    <3>5. ~Tick /\ ~UNCHANGED vars
      BY <1>2, <3>3 DEF Tick, vars, codeVars, history, BlockHolds
    <3>6. ASSUME NEW j \in Connections, Request(j) PROVE FALSE
      <4>1. CASE j = k
        BY <1>2, <3>4, <3>6, <4>1
           DEF Request, Lookup, ReadBlock, Stamp, Count, BlockBegin, BlockEnd, TypeOK
      <4>2. CASE j # k
        <5>1. pc'[k] = pc[k]
          BY <1>2, <3>6, <4>2
             DEF Request, Lookup, ReadBlock, Stamp, Count, BlockBegin, BlockEnd, TypeOK
        <5>2. under'[k] = under[k]
          <6>1. CASE Lookup(j) \/ Count(j)
            BY <1>2, <5>1, <4>2, <6>1 DEF Lookup, Count, TypeOK
          <6>2. CASE ReadBlock(j) \/ Stamp(j) \/ BlockBegin(j) \/ BlockEnd(j)
            BY <6>2 DEF ReadBlock, Stamp, BlockBegin, BlockEnd, history
          <6>3. QED
            BY <3>6, <6>1, <6>2 DEF Request
        <5>3. QED
          BY <3>3, <5>1, <5>2
      <4>3. QED
        BY <4>1, <4>2
    <3>7. QED
      BY <1>2, <3>5, <3>6 DEF Next
  <2>3. QED
    BY <2>1, <2>2
<1>3. Spec => [](NoOverlap /\ BlockHolds)
  <2> HIDE DEF NoOverlap
  <2>1. QED
    BY <1>1, <1>2, TypeInit, TypeStep, BlockInit, BlockStep, PTL DEF Spec
<1>4. QED
  BY <1>3, PTL

-----------------------------------------------------------------------------
(***************************************************************************)
(* Why a polite client is never refused.  Its entry counts at most the     *)
(* requests it has sent since its window began, all of which are among its *)
(* latest stamps; when it may send a request with Requests stamps already  *)
(* taken, the oldest of them, and so the window, is over.  This needs the  *)
(* client to send one request at a time: of two at once neither would see  *)
(* the other's stamp when it is sent.                                      *)
(***************************************************************************)

OneAtATime ==
    \A j, k \in Connections :
        ClientOf[j] = ClientOf[k] /\ ClientOf[k] \in PoliteClients => j = k

\* The last r of the stamps s are not before w.
Since(s, r, w) == r <= Len(s) /\ (r # 0 => s[Len(s) - r + 1] >= w)

\* The stamps of a client after one more at time t, as Stamp keeps them.
Stamped(s, t) == IF Len(s) < Requests THEN Append(s, t) ELSE Append(Tail(s), t)

Unblocked(k) ==
    /\ pc[k] \notin {"offending", "writing", "refused"}
    /\ clients[ClientOf[k]].blocked = Never
    /\ ~ref[k].live => ref[k].blocked = Never

Spaced(k) ==
    LET s == stamps[ClientOf[k]] IN
    /\ Len(s) <= Requests
    /\ pc[k] \in {"checking", "stamping"} /\ Len(s) = Requests => clock - s[1] > WindowSize

WithinLimit(k) ==
    LET s == stamps[ClientOf[k]]
        e == clients[ClientOf[k]]
    IN
    e.requests # 0 =>
        IF pc[k] = "counting"
        THEN now[k] - e.window > WindowSize \/ Since(s, e.requests + 1, e.window)
        ELSE Since(s, e.requests, e.window)

NowStamped(k) ==
    LET s == stamps[ClientOf[k]] IN
    pc[k] = "counting" => Len(s) # 0 /\ now[k] = s[Len(s)]

Polite(k) == Unblocked(k) /\ Spaced(k) /\ WithinLimit(k) /\ NowStamped(k)
PoliteInv == \A k \in Connections : ClientOf[k] \in PoliteClients => Polite(k)

-----------------------------------------------------------------------------
\* One more stamp leaves room for one more request in the window.
LEMMA StampedSince ==
    ASSUME NEW s \in Seq(Nat), NEW t \in Nat, Len(s) <= Requests
    PROVE  /\ Stamped(s, t) \in Seq(Nat) /\ Len(Stamped(s, t)) <= Requests
           /\ Len(Stamped(s, t)) # 0 /\ Stamped(s, t)[Len(Stamped(s, t))] = t
           /\ \A r \in Nat \ {0}, w \in Nat :
                 r < Requests /\ Since(s, r, w) => Since(Stamped(s, t), r + 1, w)
<1> USE LimiterAssumption DEF LimiterAssumption
<1>1. CASE Len(s) < Requests
  <2>1. Stamped(s, t) = Append(s, t)
    BY <1>1 DEF Stamped
  <2>2. /\ Len(Append(s, t)) = Len(s) + 1 /\ Append(s, t)[Len(s) + 1] = t
        /\ \A i \in 1..Len(s) : Append(s, t)[i] = s[i]
        /\ Append(s, t) \in Seq(Nat) /\ Len(s) \in Nat
    OBVIOUS
  <2>3. ASSUME NEW r \in Nat \ {0}, NEW w \in Nat, Since(s, r, w)
        PROVE  Since(Append(s, t), r + 1, w)
    <3>1. r <= Len(s) /\ s[Len(s) - r + 1] >= w
      BY <2>3 DEF Since
    <3>2. Len(s) - r + 1 \in 1..Len(s) /\ (Len(s) + 1) - (r + 1) + 1 = Len(s) - r + 1
      BY <2>2, <3>1
    <3>3. Append(s, t)[Len(s) - r + 1] >= w
      BY <2>2, <3>1, <3>2
    <3>4. QED
      BY <2>2, <3>1, <3>2, <3>3 DEF Since
  <2>4. QED
    BY <1>1, <2>1, <2>2, <2>3
<1>2. CASE Len(s) = Requests
  <2> DEFINE q == Tail(s)
  <2>1. Stamped(s, t) = Append(q, t)
    BY <1>2 DEF Stamped
  <2>2. /\ q \in Seq(Nat) /\ Len(q) = Len(s) - 1 /\ Len(s) \in Nat \ {0}
        /\ \A i \in 1..Len(q) : q[i] = s[i + 1]
    BY <1>2
  <2> HIDE DEF q
  <2>3. /\ Len(Append(q, t)) = Len(s) /\ Append(q, t)[Len(s)] = t
        /\ \A i \in 1..Len(q) : Append(q, t)[i] = q[i]
        /\ Append(q, t) \in Seq(Nat)
    BY <2>2
  <2>4. ASSUME NEW r \in Nat \ {0}, NEW w \in Nat, r < Requests, Since(s, r, w)
        PROVE  Since(Append(q, t), r + 1, w)
    <3>1. s[Len(s) - r + 1] >= w
      BY <2>4 DEF Since
    <3>2. Len(s) - r \in 1..Len(q) /\ Len(s) - (r + 1) + 1 = Len(s) - r
      BY <1>2, <2>2, <2>4
    <3>3. Append(q, t)[Len(s) - r] >= w
      BY <2>2, <2>3, <3>1, <3>2
    <3>4. QED
      BY <1>2, <2>2, <2>3, <2>4, <3>2, <3>3 DEF Since
  <2>5. QED
    BY <1>2, <2>1, <2>2, <2>3, <2>4
<1>3. QED
  BY <1>1, <1>2

\* What the steps below read from the types.
LEMMA PoliteFacts ==
    ASSUME TypeOK, NEW k \in Connections
    PROVE  /\ ClientOf[k] \in Clients
           /\ stamps[ClientOf[k]] \in Seq(Nat)
           /\ clients[ClientOf[k]].requests \in Nat
           /\ clients[ClientOf[k]].window \in Nat
           /\ now[k] \in Nat /\ clock \in Nat
           /\ WindowSize \in Nat /\ Requests \in Nat \ {0}
           /\ ~InForce(Never)
<1>1. ClientOf[k] \in Clients /\ clock \in Nat /\ now[k] \in Nat
      /\ clients[ClientOf[k]].requests \in Nat
  BY Facts
<1>2. clients[ClientOf[k]] \in [requests : 0..(Requests + 1), window : Time,
                                blocked : TimeOrNever]
  BY <1>1 DEF TypeOK
<1>3. clients[ClientOf[k]].window \in Nat
  BY <1>2, NeverInTime
<1>4. stamps[ClientOf[k]] \in Seq(Time)
  BY <1>1 DEF TypeOK
<1>5. stamps[ClientOf[k]] \in Seq(Nat)
  <2>1. PICK n \in Nat : stamps[ClientOf[k]] \in [1..n -> Time]
    BY <1>4, SeqDef
  <2>2. stamps[ClientOf[k]] \in [1..n -> Nat]
    BY <2>1, NeverInTime
  <2>3. QED
    BY <2>2, SeqDef
<1>6. ~InForce(Never)
  BY <1>1, LimiterAssumption DEF LimiterAssumption, InForce, Never
<1>7. QED
  BY <1>1, <1>3, <1>5, <1>6, LimiterAssumption DEF LimiterAssumption

\* What the rest of the system may do to a polite client: let time pass, and
\* evict its entry.
LEMMA PoliteFrame ==
    ASSUME TypeOK, NEW k \in Connections, Polite(k),
           clock' \in Nat, clock' >= clock,
           pc'[k] = pc[k], now'[k] = now[k],
           stamps'[ClientOf[k]] = stamps[ClientOf[k]],
           clients'[ClientOf[k]] \in {clients[ClientOf[k]], Absent},
           ref'[k] = ref[k] \/ ref'[k].blocked = Never
    PROVE  Polite(k)'
<1>1. Unblocked(k)'
  BY DEF Polite, Unblocked, Absent
<1>2. Spaced(k)'
  <2>1. Len(stamps[ClientOf[k]]) = Requests => stamps[ClientOf[k]][1] \in Nat
    BY PoliteFacts
  <2>2. QED
    BY <2>1, PoliteFacts DEF Polite, Spaced
<1>3. WithinLimit(k)'
  BY DEF Polite, WithinLimit, Absent
<1>4. NowStamped(k)'
  BY DEF Polite, NowStamped
<1>5. QED
  BY <1>1, <1>2, <1>3, <1>4 DEF Polite

-----------------------------------------------------------------------------
\* The steps of a request of the polite client.
LEMMA PoliteLookup ==
    ASSUME TypeOK, NEW k \in Connections, ClientOf[k] \in PoliteClients,
           Polite(k), Lookup(k)
    PROVE  Polite(k)'
<1>1. UNCHANGED <<clock, clients, now, stamps>> /\ MaySend(ClientOf[k])
  BY DEF Lookup
<1>2. pc'[k] \in {"stamping", "checking"} /\ pc[k] # "counting"
  BY DEF Lookup, TypeOK
<1>3. ref'[k] = ref[k] \/ ref'[k] = [live |-> TRUE, blocked |-> Never]
  BY DEF Lookup, TypeOK
<1>4. Unblocked(k)'
  BY <1>1, <1>2, <1>3 DEF Polite, Unblocked
<1>5. Spaced(k)'
  <2>1. Len(stamps[ClientOf[k]]) = Requests
          => Head(stamps[ClientOf[k]]) = stamps[ClientOf[k]][1]
    BY PoliteFacts
  <2>2. QED
    BY <1>1, <2>1 DEF Polite, Spaced, MaySend
<1>6. WithinLimit(k)' /\ NowStamped(k)'
  BY <1>1, <1>2 DEF Polite, WithinLimit, NowStamped
<1>7. QED
  BY <1>4, <1>5, <1>6 DEF Polite

\* Its block is Never, whichever entry it reads it from, and nobody is writing it.
LEMMA PoliteRead ==
    ASSUME TypeOK, OneAtATime, NEW k \in Connections, ClientOf[k] \in PoliteClients,
           Polite(k), ReadBlock(k)
    PROVE  Polite(k)'
<1>1. pc[k] = "checking" /\ UNCHANGED <<clock, clients, now, ref, stamps>>
  BY DEF ReadBlock, history
<1>2. \A w \in Connections : ClientOf[w] = ClientOf[k] => w = k
  BY DEF OneAtATime
<1>3. ~\E w \in Connections : pc[w] = "writing" /\ ClientOf[w] = ClientOf[k]
  BY <1>1, <1>2
<1>4. BlockReadings(k) = {InForce(Never)}
  BY <1>3 DEF BlockReadings, Polite, Unblocked
<1>5. PICK blocked \in BlockReadings(k) :
         pc' = [pc EXCEPT ![k] = IF blocked THEN "refused" ELSE "stamping"]
  BY DEF ReadBlock
<1>6. ~blocked
  BY <1>4, <1>5, PoliteFacts
<1>7. pc'[k] = "stamping"
  BY <1>5, <1>6 DEF TypeOK
<1>8. QED
  BY <1>1, <1>7 DEF Polite, Unblocked, Spaced, WithinLimit, NowStamped

\* The stamp it takes is one more than the requests its entry has counted.
LEMMA PoliteStamp ==
    ASSUME TypeOK, NEW k \in Connections, ClientOf[k] \in PoliteClients,
           Polite(k), Stamp(k)
    PROVE  Polite(k)'
<1> DEFINE s == stamps[ClientOf[k]]
           e == clients[ClientOf[k]]
<1>1. pc[k] = "stamping" /\ UNCHANGED <<clock, clients, ref>>
  BY DEF Stamp
<1>2. pc'[k] = "counting" /\ now'[k] = clock
  BY DEF Stamp, TypeOK
<1>3. stamps'[ClientOf[k]] = Stamped(s, clock)
  BY PoliteFacts DEF Stamp, Stamped, TypeOK
<1>4. s \in Seq(Nat) /\ clock \in Nat /\ Len(s) <= Requests
  BY PoliteFacts DEF Polite, Spaced
<1>5. /\ Len(Stamped(s, clock)) <= Requests
      /\ Len(Stamped(s, clock)) # 0 /\ Stamped(s, clock)[Len(Stamped(s, clock))] = clock
  BY <1>4, StampedSince
<1>6. Unblocked(k)'
  BY <1>1, <1>2 DEF Polite, Unblocked
<1>7. Spaced(k)' /\ NowStamped(k)'
  BY <1>2, <1>3, <1>5 DEF Spaced, NowStamped
<1>8. WithinLimit(k)'
  <2> SUFFICES ASSUME e.requests # 0, ~(clock - e.window > WindowSize)
               PROVE  Since(Stamped(s, clock), e.requests + 1, e.window)
    BY <1>1, <1>2, <1>3 DEF WithinLimit
  <2>1. Since(s, e.requests, e.window)
    BY <1>1 DEF Polite, WithinLimit
  <2>2. e.requests \in Nat \ {0} /\ e.window \in Nat
    BY PoliteFacts
  <2>3. e.requests < Requests
    <3>1. e.requests <= Len(s) /\ s[Len(s) - e.requests + 1] >= e.window
      BY <2>1 DEF Since
    <3>2. SUFFICES ASSUME e.requests = Requests PROVE FALSE
      BY <1>4, <2>2, <3>1, PoliteFacts
    <3>3. Len(s) = Requests /\ Len(s) - e.requests + 1 = 1
      BY <1>4, <2>2, <3>1, <3>2, PoliteFacts
    <3>4. clock - s[1] > WindowSize
      BY <1>1, <3>3 DEF Polite, Spaced
    <3>5. s[1] >= e.window /\ s[1] \in Nat
      BY <1>4, <3>1, <3>3, PoliteFacts
    <3>6. QED
      BY <1>4, <2>2, <3>4, <3>5, PoliteFacts
  <2>4. QED
    BY <1>4, <2>1, <2>2, <2>3, StampedSince
<1>9. QED
  BY <1>6, <1>7, <1>8 DEF Polite

\* Counting it stays within the limit.
LEMMA PoliteCount ==
    ASSUME TypeOK, NEW k \in Connections, ClientOf[k] \in PoliteClients,
           Polite(k), Count(k)
    PROVE  Polite(k)'
<1> DEFINE c == ClientOf[k]
           s == stamps[c]
           t == now[k]
           evicted == IF t - lastCleanup > CleanupInterval THEN Stale(t) ELSE {}
           kept == [d \in Clients |-> IF d \in evicted THEN Absent ELSE clients[d]]
           entry == Counted(kept[c], t)
<1>1. /\ pc[k] = "counting" /\ UNCHANGED <<clock, now, stamps>>
      /\ clients' = [kept EXCEPT ![c] = entry]
      /\ pc' = [pc EXCEPT ![k] = IF entry.requests > Requests THEN "offending" ELSE "served"]
  BY DEF Count
<1>2. c \in Clients /\ s \in Seq(Nat) /\ Len(s) \in Nat /\ Len(s) # 0 /\ t = s[Len(s)]
  BY <1>1, PoliteFacts DEF Polite, NowStamped
<1>3. clients'[c] = entry
  BY <1>1, <1>2
<1>4. kept[c] \in {clients[c], Absent} /\ kept[c].blocked = Never
  BY <1>2 DEF Polite, Unblocked, Absent
<1>5. kept[c].requests # 0 =>
         t - kept[c].window > WindowSize \/ Since(s, kept[c].requests + 1, kept[c].window)
  BY <1>1, <1>4 DEF Polite, WithinLimit, Absent
<1>6. kept[c] \in [requests : 0..(Requests + 1), window : Time, blocked : TimeOrNever]
  BY <1>2, <1>4, NeverInTime, PoliteFacts DEF TypeOK, Absent
<1>7. entry.blocked = Never /\ entry.requests \in Nat /\ Since(s, entry.requests, entry.window)
  <2> DEFINE e == kept[c]
  <2> HIDE DEF e, kept
  <2>1. CASE e.requests = 0 \/ t - e.window > WindowSize
    <3>1. entry = [requests |-> 1, window |-> t, blocked |-> Never]
      BY <2>1 DEF Counted, e
    <3>2. t \in Nat
      BY PoliteFacts
    <3>3. QED
      BY <1>2, <3>1, <3>2 DEF Since
  <2>2. CASE ~(e.requests = 0 \/ t - e.window > WindowSize)
    <3>1. Since(s, e.requests + 1, e.window) /\ e.requests \in Nat
      BY <1>5, <1>6, <2>2, PoliteFacts DEF e
    <3>2. e.requests < Requests
      BY <1>2, <3>1, PoliteFacts DEF Since, Polite, Spaced
    <3>3. entry = [e EXCEPT !.requests = e.requests + 1]
      BY <2>2, <3>1, <3>2, PoliteFacts DEF Counted, e
    <3>4. /\ entry.requests = e.requests + 1 /\ entry.window = e.window
          /\ entry.blocked = e.blocked
      BY <1>6, <3>3 DEF e
    <3>5. QED
      BY <1>4, <3>1, <3>4 DEF e
  <2>3. QED
    BY <2>1, <2>2
<1>8. entry.requests <= Requests
  BY <1>2, <1>7, PoliteFacts DEF Since, Polite, Spaced
<1> HIDE DEF entry, kept
<1>9. pc'[k] = "served"
  BY <1>1, <1>7, <1>8, PoliteFacts DEF TypeOK
<1>10. Unblocked(k)'
  <2>1. ref'[k] = ref[k] \/ ref'[k].blocked = clients[c].blocked
    BY DEF Count
  <2>2. ~ref'[k].live => ref'[k].blocked = Never
    BY <2>1 DEF Polite, Unblocked
  <2>3. QED
    BY <1>3, <1>7, <1>9, <2>2 DEF Unblocked
<1>11. Spaced(k)' /\ NowStamped(k)'
  BY <1>1, <1>9 DEF Polite, Spaced, NowStamped
<1>12. WithinLimit(k)'
  BY <1>1, <1>3, <1>7, <1>9 DEF WithinLimit
<1>13. QED
  BY <1>10, <1>11, <1>12 DEF Polite

\* The steps of other requests, which are of other clients.
LEMMA PoliteOthers ==
    ASSUME TypeOK, OneAtATime, NEW k \in Connections, ClientOf[k] \in PoliteClients,
           Polite(k), NEW j \in Connections, j # k, Request(j)
    PROVE  Polite(k)'
<1> DEFINE c == ClientOf[k]
<1>1. c \in Clients /\ ClientOf[j] \in Clients /\ ClientOf[j] # c
  BY PoliteFacts DEF OneAtATime
<1>2. clock' = clock /\ clock \in Nat
  BY PoliteFacts DEF Request, Lookup, ReadBlock, Stamp, Count, BlockBegin, BlockEnd, history
<1>3. pc'[k] = pc[k] /\ now'[k] = now[k]
  BY DEF Request, Lookup, ReadBlock, Stamp, Count, BlockBegin, BlockEnd, history, TypeOK
<1>4. stamps'[c] = stamps[c]
  <2>1. CASE Stamp(j)
    BY <1>1, <2>1 DEF Stamp, TypeOK
  <2>2. CASE ~Stamp(j)
    BY <2>2 DEF Request, Lookup, ReadBlock, Count, BlockBegin, BlockEnd, history
  <2>3. QED
    BY <2>1, <2>2
<1>5. clients'[c] \in {clients[c], Absent} /\ (ref'[k] = ref[k] \/ ref'[k].blocked = Never)
  <2>1. CASE Count(j)
    <3>1. ref'[k] = ref[k] \/ ref'[k].blocked = clients[c].blocked
      BY <2>1 DEF Count
    <3>2. clients'[c] \in {clients[c], Absent}
      BY <1>1, <2>1 DEF Count
    <3>3. QED
      BY <3>1, <3>2 DEF Polite, Unblocked
  <2>2. CASE BlockEnd(j)
    BY <1>1, <2>2 DEF BlockEnd, TypeOK
  <2>3. CASE Lookup(j)
    BY <2>3 DEF Lookup, TypeOK
  <2>4. CASE ReadBlock(j) \/ Stamp(j) \/ BlockBegin(j)
    BY <2>4 DEF ReadBlock, Stamp, BlockBegin, history
  <2>5. QED
    BY <2>1, <2>2, <2>3, <2>4 DEF Request
<1>6. QED
  BY <1>2, <1>3, <1>4, <1>5, PoliteFrame

LEMMA PoliteInit == TypeOK /\ Init => PoliteInv
<1> SUFFICES ASSUME TypeOK, Init, NEW k \in Connections PROVE Polite(k)
  BY DEF PoliteInv
<1>1. ClientOf[k] \in Clients /\ Requests \in Nat \ {0}
  BY PoliteFacts
<1>2. QED
  BY <1>1 DEF Init, Absent, Polite, Unblocked, Spaced, WithinLimit, NowStamped

LEMMA PoliteStep == TypeOK /\ OneAtATime /\ PoliteInv /\ [Next]_vars => PoliteInv'
<1> SUFFICES ASSUME TypeOK, OneAtATime, [Next]_vars,
                    NEW k \in Connections, ClientOf[k] \in PoliteClients, Polite(k)
             PROVE  Polite(k)'
  BY DEF PoliteInv
<1>1. CASE Tick
  <2>1. /\ clock' = clock + 1 /\ clock \in Nat
        /\ UNCHANGED <<clients, pc, ref, now, stamps>>
    BY <1>1, PoliteFacts DEF Tick, history
  <2>2. clock' \in Nat /\ clock' >= clock
    BY <2>1
  <2>3. QED
    BY <2>1, <2>2, PoliteFrame
<1>2. ASSUME NEW j \in Connections, j # k, Request(j) PROVE Polite(k)'
  BY <1>2, PoliteOthers
<1>3. ASSUME Request(k) PROVE Polite(k)'
  <2>1. ~BlockBegin(k) /\ ~BlockEnd(k)
    BY DEF Polite, Unblocked, BlockBegin, BlockEnd
  <2>2. QED
    BY <1>3, <2>1, PoliteLookup, PoliteRead, PoliteStamp, PoliteCount DEF Request
<1>4. CASE UNCHANGED vars
  BY <1>4 DEF vars, codeVars, history, Polite, Unblocked, Spaced, WithinLimit, NowStamped
<1>5. QED
  BY <1>1, <1>2, <1>3, <1>4 DEF Next

\* A client that sends one request at a time and keeps within the limit is never
\* refused, whatever others send, the cleanup deletes, or a racing read returns.
THEOREM PoliteIsServed == ASSUME OneAtATime PROVE Spec => []PoliteServed
<1>1. Init => TypeOK /\ PoliteInv
  BY TypeInit, PoliteInit
<1>2. TypeOK /\ PoliteInv /\ [Next]_vars => (TypeOK /\ PoliteInv)'
  BY TypeStep, PoliteStep
<1>3. PoliteInv => PoliteServed
  BY DEF PoliteInv, Polite, Unblocked, PoliteServed
<1>4. QED
  BY <1>1, <1>2, <1>3, PTL DEF Spec
=============================================================================
