---------------------------- MODULE RateLimiter ----------------------------
(***************************************************************************)
(* The rate limiter of security/tls.go (lines 205-311).                    *)
(*                                                                         *)
(* Middleware runs once per request, in the goroutine of its connection,   *)
(* and goes through steps that other requests, and the clock, may come     *)
(* between: look the client up under the read lock, read its block after   *)
(* the lock is released, take the time, count the request under the write  *)
(* lock, and block the client under the write lock again.  A client is an  *)
(* address; it may hold several connections.                               *)
(*                                                                         *)
(* The clock counts ticks up to MaxTime, the bound of the model; requests  *)
(* keep coming when it has stopped.  An entry that is not in the map has   *)
(* no requests: the code never stores such an entry.                       *)
(***************************************************************************)
EXTENDS Integers, Sequences

CONSTANTS
    Clients,            \* client addresses
    Connections,        \* connections, each serving one request at a time
    ClientOf,           \* ClientOf[k]: the client at the other end
    PoliteClients,      \* clients that keep within the limit (external)
    Requests,           \* RATE_LIMIT_REQUESTS
    WindowSize,         \* RATE_LIMIT_WINDOW, in ticks
    BlockTime,          \* RATE_LIMIT_BLOCK_TIME, in ticks
    CleanupInterval,    \* rateLimiterCleanupInterval, in ticks
    MaxTime             \* bound on the clock

ASSUME LimiterAssumption ==
    /\ ClientOf \in [Connections -> Clients]
    /\ PoliteClients \subseteq Clients
    /\ Requests \in Nat \ {0}
    /\ WindowSize \in Nat /\ BlockTime \in Nat /\ CleanupInterval \in Nat
    /\ MaxTime \in Nat

VARIABLES
    clock,
    clients,        \* clients[c]: the entry of c in the map
    lastCleanup,
    pc,             \* pc[k]: what the latest request of k does next, or its end
    ref,            \* ref[k]: the entry isBlocked found, by then perhaps no
                    \* longer in the map: its block as it was when it left
    now,            \* now[k]: the time isRateLimited or blockClient has taken
    \* The rest is history, for the properties.
    stamps,         \* stamps[c]: times of the last requests of polite c
    penalty,        \* penalty[c]: when blockClient last found the entry of c
    overlap,        \* overlap[c]: another request of c was past its lookup then
    under           \* under[k]: the penalty k's request began in, or Never

codeVars == <<clock, clients, lastCleanup, pc, ref, now>>
history == <<stamps, penalty, overlap, under>>
vars == <<codeVars, history>>

Time == 0..MaxTime
\* A zero time.Time: longer ago than any timeout.
Never == -(BlockTime + WindowSize + 1)
TimeOrNever == Time \cup {Never}
Absent == [requests |-> 0, window |-> 0, blocked |-> Never]

TypeOK ==
    /\ clock \in Time
    /\ clients \in [Clients -> [requests : 0..(Requests + 1), window : Time,
                                blocked : TimeOrNever]]
    /\ lastCleanup \in Time
    /\ pc \in [Connections -> {"new", "checking", "stamping", "counting",
                   "offending", "writing", "served", "refused"}]
    /\ ref \in [Connections -> [live : BOOLEAN, blocked : TimeOrNever]]
    /\ now \in [Connections -> Time]
    /\ stamps \in [Clients -> Seq(Time)]
    /\ penalty \in [Clients -> TimeOrNever]
    /\ overlap \in [Clients -> BOOLEAN]
    /\ under \in [Connections -> TimeOrNever]

Init ==
    /\ clock = 0
    /\ clients = [c \in Clients |-> Absent]
    /\ lastCleanup = 0
    /\ pc = [k \in Connections |-> "new"]
    /\ ref = [k \in Connections |-> [live |-> FALSE, blocked |-> Never]]
    /\ now = [k \in Connections |-> 0]
    /\ stamps = [c \in Clients |-> <<>>]
    /\ penalty = [c \in Clients |-> Never]
    /\ overlap = [c \in Clients |-> FALSE]
    /\ under = [k \in Connections |-> Never]

-----------------------------------------------------------------------------
\* Nobody holds the mutex across a step but a blockClient that is writing.
MutexFree == \A k \in Connections : pc[k] # "writing"

\* A block that started at time t is in force.
InForce(t) == clock - t < BlockTime

\* A polite client keeps to Requests requests in any WindowSize (external).
MaySend(c) ==
    c \in PoliteClients /\ Len(stamps[c]) = Requests =>
        clock - Head(stamps[c]) > WindowSize

\* A request arrives and isBlocked looks its client up.
Lookup(k) ==
    LET c == ClientOf[k] IN
    /\ pc[k] \in {"new", "served", "refused"}
    /\ MutexFree
    /\ MaySend(c)
    /\ IF clients[c].requests = 0
       THEN /\ pc' = [pc EXCEPT ![k] = "stamping"]
            /\ UNCHANGED ref
       ELSE /\ pc' = [pc EXCEPT ![k] = "checking"]
            /\ ref' = [ref EXCEPT ![k] = [live |-> TRUE, blocked |-> Never]]
    /\ under' = [under EXCEPT ![k] = IF InForce(penalty[c]) THEN penalty[c] ELSE Never]
    /\ UNCHANGED <<clock, clients, lastCleanup, now, stamps, penalty, overlap>>

\* What isBlocked may find when it reads state.blocked, with no lock held: the
\* read of an entry that blockClient is writing to is a data race.
BlockReadings(k) ==
    LET c == ClientOf[k] IN
    IF ~ref[k].live THEN {InForce(ref[k].blocked)}
    ELSE IF \E w \in Connections : pc[w] = "writing" /\ ClientOf[w] = c
         THEN BOOLEAN
         ELSE {InForce(clients[c].blocked)}

\* isBlocked answers; a blocked client is refused.
ReadBlock(k) ==
    /\ pc[k] = "checking"
    /\ \E blocked \in BlockReadings(k) :
          pc' = [pc EXCEPT ![k] = IF blocked THEN "refused" ELSE "stamping"]
    /\ UNCHANGED <<clock, clients, lastCleanup, ref, now, history>>

\* isRateLimited takes the time, before it takes the mutex.
Stamp(k) ==
    LET c == ClientOf[k] IN
    /\ pc[k] = "stamping"
    /\ now' = [now EXCEPT ![k] = clock]
    /\ pc' = [pc EXCEPT ![k] = "counting"]
    /\ stamps' = IF c \notin PoliteClients THEN stamps
                 ELSE [stamps EXCEPT ![c] =
                          IF Len(@) < Requests THEN Append(@, clock)
                          ELSE Append(Tail(@), clock)]
    /\ UNCHANGED <<clock, clients, lastCleanup, ref, penalty, overlap, under>>

\* The entries that the periodic cleanup deletes at time t; before it, a slip
\* that forgets the blocks.
ForgetfulStale(t) ==
    {c \in Clients : t - clients[c].window > WindowSize}
Stale(t) ==
    {c \in Clients : /\ t - clients[c].window > WindowSize
                     /\ t - clients[c].blocked > BlockTime}

\* The entry of c after a request counted at time t, e being its entry before;
\* before it, two slips: a request counted twice, and a new window that starts
\* without forgetting the old count.
CountedTwice(e, t) ==
    IF e.requests = 0 \/ t - e.window > WindowSize
    THEN [requests |-> 1, window |-> t, blocked |-> Never]
    ELSE [e EXCEPT !.requests = IF @ > Requests THEN @ ELSE @ + 2]
CarryOver(e, t) ==
    IF e.requests = 0 \/ t - e.window > WindowSize
    THEN [e EXCEPT !.requests = IF @ > Requests THEN @ ELSE @ + 1, !.window = t]
    ELSE [e EXCEPT !.requests = IF @ > Requests THEN @ ELSE @ + 1]
Counted(e, t) ==
    IF e.requests = 0 \/ t - e.window > WindowSize
    THEN [requests |-> 1, window |-> t, blocked |-> Never]
    ELSE [e EXCEPT !.requests = IF @ > Requests THEN @ ELSE @ + 1]

\* isRateLimited under the mutex: the cleanup when it is due, then the count.
\* References to entries that leave the map keep the block they had.
Count(k) ==
    LET c == ClientOf[k]
        t == now[k]
        due == t - lastCleanup > CleanupInterval
        evicted == IF due THEN Stale(t) ELSE {}
        kept == [d \in Clients |-> IF d \in evicted THEN Absent ELSE clients[d]]
        entry == Counted(kept[c], t)
        dropped == evicted \cup (IF entry.requests = 1 THEN {c} ELSE {})
        stillIn == under[k] = penalty[c] /\ InForce(penalty[c])
    IN
    /\ pc[k] = "counting"
    /\ MutexFree
    /\ lastCleanup' = IF due THEN t ELSE lastCleanup
    /\ clients' = [kept EXCEPT ![c] = entry]
    /\ ref' = [j \in Connections |->
                  IF ref[j].live /\ ClientOf[j] \in dropped
                  THEN [live |-> FALSE, blocked |-> clients[ClientOf[j]].blocked]
                  ELSE ref[j]]
    /\ pc' = [pc EXCEPT ![k] = IF entry.requests > Requests THEN "offending" ELSE "served"]
    /\ under' = [under EXCEPT ![k] = IF stillIn THEN @ ELSE Never]
    /\ UNCHANGED <<clock, now, stamps, penalty, overlap>>

\* blockClient takes the mutex and the time and starts to write.
BlockBegin(k) ==
    /\ pc[k] = "offending"
    /\ MutexFree
    /\ now' = [now EXCEPT ![k] = clock]
    /\ pc' = [pc EXCEPT ![k] = "writing"]
    /\ UNCHANGED <<clock, clients, lastCleanup, ref, history>>

\* It has written, if the client still has an entry, and the request is refused.
BlockEnd(k) ==
    LET c == ClientOf[k] IN
    /\ pc[k] = "writing"
    /\ pc' = [pc EXCEPT ![k] = "refused"]
    /\ IF clients[c].requests = 0
       THEN UNCHANGED <<clients, penalty, overlap>>
       ELSE /\ clients' = [clients EXCEPT ![c].blocked = now[k]]
            /\ penalty' = [penalty EXCEPT ![c] = now[k]]
            /\ overlap' = [overlap EXCEPT ![c] =
                  \E j \in Connections :
                      /\ ClientOf[j] = c
                      /\ pc[j] \in {"checking", "stamping", "counting"}]
    /\ UNCHANGED <<clock, lastCleanup, ref, now, stamps, under>>

Tick ==
    /\ clock < MaxTime
    /\ clock' = clock + 1
    /\ UNCHANGED <<clients, lastCleanup, pc, ref, now, history>>

Request(k) ==
    Lookup(k) \/ ReadBlock(k) \/ Stamp(k) \/ Count(k) \/ BlockBegin(k) \/ BlockEnd(k)

Next == Tick \/ \E k \in Connections : Request(k)

Spec == Init /\ [][Next]_vars

-----------------------------------------------------------------------------
\* A client that sends one request at a time and stays within the limit is
\* never refused, however hard other clients press, whatever the cleanup
\* deletes and whatever a racing read of a block returns.
PoliteServed ==
    \A k \in Connections :
        ClientOf[k] \in PoliteClients => pc[k] \notin {"offending", "writing", "refused"}

\* The block of a client lasts its BlockTime, through cleanups and new windows,
\* unless a request of that client was already past its own check when the
\* block was set.
BlockHoldsUnlessOverlapped ==
    \A c \in Clients :
        InForce(penalty[c]) /\ ~overlap[c] => clients[c].blocked = penalty[c]

\* A request that begins while its client is blocked is not served as long as
\* that block is in force ("Block duration after rate limit exceeded",
\* README.md:40; "Subsequent requests should be blocked", tls_test.go:490).
BlockHolds ==
    \A k \in Connections : pc[k] = "served" => under[k] = Never
=============================================================================
