--------------------------- MODULE ExporterProofs ---------------------------
(***************************************************************************)
(* Theorems about AccessRules.tla and Exporter.tla, for every list of      *)
(* rules, every set of connections, every configuration and request, and   *)
(* every number of restarts of bitcoind.                                   *)
(***************************************************************************)
EXTENDS Exporter, TLAPS

\* The lists of IP rules mean what they say to every client and rule the filter
\* can read: the textual comparison and the order of the two loops of IsIPAllowed
\* lose nothing.
THEOREM LegibleRulesMeanIt ==
    ASSUME NEW client, NEW allowed, NEW denied, Legible(client, allowed \cup denied)
    PROVE  IsIPAllowed(client, allowed, denied) <=> MeantToEnter(client, allowed, denied)
<1>1. ASSUME NEW rule \in allowed \cup denied
      PROVE  MatchesIP(client, rule) <=> client.address \in rule.meant
  BY DEF Legible, MatchesIP
<1>2. QED
  BY <1>1 DEF IsIPAllowed, MeantToEnter, Named

\* What the filter cannot read it keeps out: with a list of allowed addresses,
\* whoever enters is on it, however the rules are spelled.
THEOREM AllowListFailsClosed ==
    ASSUME NEW client, NEW allowed, NEW denied, allowed # {},
           IsIPAllowed(client, allowed, denied)
    PROVE  Named(client, allowed)
BY DEF IsIPAllowed, MatchesIP, Named

-----------------------------------------------------------------------------
\* A step of a handler takes its connection from one stage to the next and
\* changes nothing else.
LEMMA HandlerGoes ==
    ASSUME TypeOK, NEW k \in Connections, HandlerStep(k)
    PROVE  \E s \in InHandler \cup Answered : Goto(k, s)
<1>1. CASE IPFilter(k)
  BY <1>1 DEF IPFilter, InHandler, Answered
<1>2. CASE Route(k)
  <2>1. request[k].path \in {"metrics", "health", "ready"}
    BY DEF TypeOK, Requests
  <2>2. HandlerFor(request[k].path) \in InHandler \cup Answered
    BY <2>1 DEF HandlerFor, InHandler, Answered
  <2>3. QED
    BY <1>2, <2>2 DEF Route
<1>3. CASE Authenticate(k)
  BY <1>3 DEF Authenticate, InHandler, Answered
<1>4. CASE RateLimit(k) \/ Collect(k) \/ CheckRPC(k)
  BY <1>4 DEF RateLimit, Collect, CheckRPC, InHandler, Answered
<1>5. QED
  BY <1>1, <1>2, <1>3, <1>4 DEF HandlerStep

-----------------------------------------------------------------------------
\* The steps of the listener and of its socket.
LEMMA ZmqTypeStep ==
    ASSUME ZmqTypeOK, ZmqStep \/ FeedChanges
    PROVE  ZmqTypeOK' /\ shutdown' = shutdown /\ configured' = configured
BY DEF ZmqTypeOK, ZmqStep, FeedChanges, ZmqStart, ZmqConnects, ZmqFails, AfterError,
       ZmqRetries, ZmqStops

\* The server and its shutdown goroutine leave the requests alone.
LEMMA ServerGoes ==
    ASSUME TypeOK, Listen \/ ListenFails \/ DrainBegins \/ DrainEnds
    PROVE  /\ server' \in {"starting", "serving", "closed", "failed"}
           /\ drain' \in {"watching", "draining", "drained", "timedout"}
           /\ UNCHANGED <<zmqVars, mainVars, request, stage>>
<1>1. CASE Listen
  <2>1. server' = "serving" /\ UNCHANGED <<zmqVars, mainVars, drain, request, stage>>
    BY <1>1, Zenon DEF Listen
  <2>2. QED
    BY <2>1 DEF TypeOK
<1>2. CASE ListenFails
  BY <1>2 DEF ListenFails, TypeOK
<1>3. CASE DrainBegins
  BY <1>3 DEF DrainBegins, TypeOK
<1>4. CASE DrainEnds
  BY <1>4 DEF DrainEnds, TypeOK
<1>5. QED
  BY <1>1, <1>2, <1>3, <1>4

\* The part of TypeOK about the HTTP server.
HttpTypeOK ==
    /\ server \in {"starting", "serving", "closed", "failed"}
    /\ drain \in {"watching", "draining", "drained", "timedout"}
    /\ request \in [Connections -> Requests]
    /\ stage \in [Connections -> {"idle"} \cup InHandler \cup Answered]

LEMMA HttpTypeStep ==
    ASSUME TypeOK, Step
    PROVE  HttpTypeOK'
<1> USE DEF TypeOK, HttpTypeOK
<1>1. CASE Listen \/ ListenFails \/ DrainBegins \/ DrainEnds
  BY <1>1, ServerGoes
<1>2. ASSUME NEW k \in Connections, Arrive(k) PROVE HttpTypeOK'
  BY <1>2, ExporterAssumption DEF Arrive, InHandler
<1>3. ASSUME NEW k \in Connections, HandlerStep(k) PROVE HttpTypeOK'
  BY <1>3, HandlerGoes DEF Goto
<1>4. CASE Signal \/ LoopStarts \/ ScrapeEnds \/ ScrapeBegins \/ LoopReturns
  BY <1>4 DEF Signal, LoopStarts, ScrapeEnds, ScrapeBegins, LoopReturns, LoopGoto, httpVars
<1>5. CASE (ZmqStep \/ FeedChanges) /\ UNCHANGED <<mainVars, httpVars>>
  BY <1>5 DEF httpVars
<1>6. QED
  BY <1>1, <1>2, <1>3, <1>4, <1>5 DEF Step

\* The part about bitcoind and the client of the loop.
BitcoindTypeOK ==
    /\ loop \in {"starting", "scraping", "waiting", "returned"}
    /\ loopClient \in {Nobody, Password} \cup {Cookie(n) : n \in 0..MaxRestarts}
    /\ bitcoind \in {"up", "down"}
    /\ cookieFile \in NoCookie..MaxRestarts
    /\ restarts \in 0..MaxRestarts
    /\ madeAt \in 0..MaxRestarts

\* A client is made with credentials of a known kind.
LEMMA NewClientTyped ==
    ASSUME TypeOK
    PROVE  NewClient \in {Nobody, Password} \cup {Cookie(n) : n \in 0..MaxRestarts}
<1>1. cookieFile # NoCookie => cookieFile \in 0..MaxRestarts
  BY ExporterAssumption DEF TypeOK, NoCookie
<1>2. QED
  BY <1>1 DEF NewClient

LEMMA MainTypeStep ==
    ASSUME TypeOK, Step
    PROVE  BitcoindTypeOK' /\ ZmqTypeOK' /\ shutdown' \in BOOLEAN
<1> USE DEF TypeOK, BitcoindTypeOK, ZmqTypeOK
<1>1. CASE Listen \/ ListenFails \/ DrainBegins \/ DrainEnds
  BY <1>1, ServerGoes DEF mainVars, bitcoindVars, zmqVars
<1>2. ASSUME NEW k \in Connections, Arrive(k) \/ HandlerStep(k)
      PROVE  BitcoindTypeOK' /\ ZmqTypeOK' /\ shutdown' \in BOOLEAN
  <2>1. UNCHANGED <<mainVars, zmqVars>>
    BY <1>2, HandlerGoes DEF Arrive, Goto
  <2>2. QED
    BY <2>1 DEF mainVars, bitcoindVars, zmqVars
<1>3. CASE Signal
  <2>1. shutdown' \in BOOLEAN
    BY <1>3, Zenon DEF Signal
  <2>2. UNCHANGED <<configured, feed, connected, zmq, mainVars>>
    BY <1>3 DEF Signal
  <2>3. QED
    BY <2>1, <2>2 DEF mainVars, bitcoindVars
<1>4. CASE LoopStarts
  BY <1>4, NewClientTyped DEF LoopStarts, bitcoindVars, zmqVars
<1>5. CASE ScrapeEnds \/ ScrapeBegins \/ LoopReturns
  BY <1>5 DEF ScrapeEnds, ScrapeBegins, LoopReturns, LoopGoto, bitcoindVars, zmqVars
<1>6. CASE (ZmqStep \/ FeedChanges) /\ UNCHANGED <<mainVars, httpVars>>
  BY <1>6, ZmqTypeStep DEF mainVars, bitcoindVars
<1>7. QED
  BY <1>1, <1>2, <1>3, <1>4, <1>5, <1>6 DEF Step

\* bitcoind and the process around the step of its goroutines.
LEMMA OuterTypeStep ==
    ASSUME TypeOK, BitcoindMoves
    PROVE  BitcoindTypeOK'
BY ExporterAssumption
DEF BitcoindMoves, BitcoindStops, BitcoindStarts, TypeOK, BitcoindTypeOK, NoCookie

LEMMA ExporterTypeStep == TypeOK /\ [Next]_vars => TypeOK'
<1> SUFFICES ASSUME TypeOK, [Next]_vars PROVE TypeOK'
  OBVIOUS
<1> DEFINE Parts == /\ BitcoindTypeOK /\ HttpTypeOK /\ ZmqTypeOK /\ shutdown \in BOOLEAN
                    /\ environment \in Environments /\ oneShot \in BOOLEAN
                    /\ proc \in {"booting", "running"} \cup Ended
<1>1. TypeOK <=> Parts
  BY DEF TypeOK, BitcoindTypeOK, HttpTypeOK
<1>2. TypeOK' <=> Parts'
  BY DEF TypeOK, BitcoindTypeOK, HttpTypeOK
<1>3. CASE Running(Step)
  <2>1. /\ environment' = environment /\ oneShot' = oneShot /\ proc' = proc /\ Step
    BY <1>3 DEF Running
  <2>2. QED
    BY <1>1, <1>2, <2>1, HttpTypeStep, MainTypeStep
<1>4. CASE Boot \/ Exit \/ Crash
  BY <1>1, <1>2, <1>4
  DEF Boot, Exit, Crash, Ended, mainVars, bitcoindVars, httpVars, zmqVars, TypeOK,
      BitcoindTypeOK, HttpTypeOK, ZmqTypeOK
<1>5. CASE HealthCheck
  BY <1>1, <1>2, <1>5, NewClientTyped
  DEF HealthCheck, Ended, bitcoindVars, httpVars, zmqVars, TypeOK,
      BitcoindTypeOK, HttpTypeOK, ZmqTypeOK
<1>6. CASE BitcoindMoves
  BY <1>1, <1>2, <1>6, OuterTypeStep
  DEF BitcoindMoves, httpVars, zmqVars, TypeOK, HttpTypeOK, ZmqTypeOK
<1>7. CASE UNCHANGED vars
  BY <1>7 DEF vars, mainVars, bitcoindVars, httpVars, zmqVars, TypeOK, ZmqTypeOK
<1>8. QED
  BY <1>3, <1>4, <1>5, <1>6, <1>7 DEF Next

LEMMA ExporterTypeInit == Init => TypeOK
<1> SUFFICES ASSUME Init PROVE TypeOK
  OBVIOUS
<1>1. shutdown \in BOOLEAN
  BY Zenon DEF Init
<1>2. request \in [Connections -> Requests]
  BY ExporterAssumption DEF Init
<1>3. /\ cookieFile \in NoCookie..MaxRestarts /\ restarts \in 0..MaxRestarts
      /\ madeAt \in 0..MaxRestarts
  <2>1. cookieFile \in {NoCookie, 0} /\ restarts = 0 /\ madeAt = 0
    BY DEF Init
  <2>2. QED
    BY <2>1, ExporterAssumption DEF NoCookie
<1>4. ZmqTypeOK
  BY DEF Init, ZmqInit, ZmqTypeOK
<1>5. stage \in [Connections -> {"idle"} \cup InHandler \cup Answered]
  BY DEF Init
<1>6. /\ environment \in Environments /\ oneShot \in BOOLEAN /\ proc = "booting"
      /\ loop = "starting" /\ loopClient = Nobody /\ bitcoind \in {"up", "down"}
      /\ server = "starting" /\ drain = "watching"
  BY DEF Init
<1>7. QED
  BY <1>1, <1>2, <1>3, <1>4, <1>5, <1>6 DEF TypeOK

\* Every variable keeps its type: no request ends in a stage the middleware does
\* not know.
THEOREM ExporterTypeCorrect == Spec => []TypeOK
BY ExporterTypeInit, ExporterTypeStep, PTL DEF Spec

-----------------------------------------------------------------------------
\* What a handler has established when it is at a stage: the IP filter let the
\* client in, the mux found the metrics, and authentication was passed if there
\* is any.
Entered(k) ==
    stage[k] \notin {"idle", "ipfilter", "forbidden"} =>
        IsIPAllowed(request[k].client, security.allowed, security.denied)
OnMetrics(k) ==
    stage[k] \in {"auth", "ratelimit", "collect", "metrics", "unauthorized", "too_many"} =>
        request[k].path = "metrics"
Known(k) ==
    stage[k] \in {"ratelimit", "collect", "metrics"} =>
        (security.auth => request[k].authentic)
GuardInv == \A k \in Connections : Entered(k) /\ OnMetrics(k) /\ Known(k)

\* Nothing changes the environment, nor who is at which stage but the server.
LEMMA GuardFrame ==
    ASSUME GuardInv, UNCHANGED <<environment, request, stage>>
    PROVE  GuardInv'
BY DEF GuardInv, Entered, OnMetrics, Known, security

\* One connection moves.
LEMMA GuardMoves ==
    ASSUME TypeOK, GuardInv, environment' = environment, NEW k \in Connections, NEW s,
           stage' = [stage EXCEPT ![k] = s],
           \A j \in Connections : j # k => request'[j] = request[j],
           (Entered(k) /\ OnMetrics(k) /\ Known(k))'
    PROVE  GuardInv'
<1> SUFFICES ASSUME NEW j \in Connections, j # k
             PROVE  (Entered(j) /\ OnMetrics(j) /\ Known(j))'
  BY DEF GuardInv
<1>1. stage'[j] = stage[j] /\ request'[j] = request[j]
  BY DEF TypeOK
<1>2. QED
  BY <1>1 DEF GuardInv, Entered, OnMetrics, Known, security

\* A step of a handler keeps to what it has established.
LEMMA GuardHandles ==
    ASSUME TypeOK, GuardInv, environment' = environment, NEW k \in Connections,
           HandlerStep(k)
    PROVE  GuardInv'
<1>1. Entered(k) /\ OnMetrics(k) /\ Known(k)
  BY DEF GuardInv
<1>2. security' = security
  BY DEF security
<1>3. ASSUME NEW s, Goto(k, s),
             s # "forbidden" =>
                IsIPAllowed(request[k].client, security.allowed, security.denied),
             s \in {"auth", "ratelimit", "collect", "metrics", "unauthorized", "too_many"}
                => request[k].path = "metrics",
             s \in {"ratelimit", "collect", "metrics"} =>
                (security.auth => request[k].authentic)
      PROVE  GuardInv'
  <2>1. stage' = [stage EXCEPT ![k] = s] /\ request' = request
    BY <1>3 DEF Goto
  <2>2. stage'[k] = s
    BY <2>1 DEF TypeOK
  <2>3. (Entered(k) /\ OnMetrics(k) /\ Known(k))'
    BY <1>2, <1>3, <2>1, <2>2 DEF Entered, OnMetrics, Known
  <2>4. QED
    BY <2>1, <2>3, GuardMoves
<1>4. CASE IPFilter(k)
  <2>1. CASE IsIPAllowed(request[k].client, security.allowed, security.denied)
    BY <1>3, <1>4, <2>1 DEF IPFilter
  <2>2. CASE ~IsIPAllowed(request[k].client, security.allowed, security.denied)
    BY <1>3, <1>4, <2>2 DEF IPFilter
  <2>3. QED
    BY <2>1, <2>2
<1>5. stage[k] \in InHandler \ {"ipfilter"} =>
        IsIPAllowed(request[k].client, security.allowed, security.denied)
  BY <1>1 DEF Entered, InHandler
<1>6. CASE Route(k)
  <2>1. request[k].path \in {"metrics", "health", "ready"}
    BY DEF TypeOK, Requests
  <2>2. Goto(k, HandlerFor(request[k].path)) /\ stage[k] = "route"
    BY <1>6 DEF Route
  <2>3. CASE request[k].path = "metrics"
    <3>1. /\ HandlerFor("metrics") \in {"auth", "ratelimit", "collect"}
          /\ HandlerFor("metrics") # "auth" => ~security.auth
      BY DEF HandlerFor
    <3>2. QED
      BY <1>3, <1>5, <2>2, <2>3, <3>1 DEF InHandler
  <2>4. CASE request[k].path \in {"health", "ready"}
    <3>1. HandlerFor(request[k].path) \in {"healthy", "rpc"}
      BY <2>4 DEF HandlerFor
    <3>2. QED
      BY <1>3, <1>5, <2>2, <3>1 DEF InHandler
  <2>5. QED
    BY <2>1, <2>3, <2>4
<1>7. CASE Authenticate(k)
  <2>1. stage[k] = "auth" /\ request[k].path = "metrics"
    BY <1>1, <1>7 DEF Authenticate, OnMetrics
  <2>2. CASE request[k].authentic
    BY <1>3, <1>5, <1>7, <2>1, <2>2 DEF Authenticate, InHandler
  <2>3. CASE ~request[k].authentic
    BY <1>3, <1>5, <1>7, <2>1, <2>3 DEF Authenticate, InHandler
  <2>4. QED
    BY <2>2, <2>3
<1>8. CASE RateLimit(k)
  <2>1. /\ stage[k] = "ratelimit" /\ request[k].path = "metrics"
        /\ security.auth => request[k].authentic
    BY <1>1, <1>8 DEF RateLimit, OnMetrics, Known
  <2>2. QED
    BY <1>3, <1>5, <1>8, <2>1 DEF RateLimit, InHandler
<1>9. CASE Collect(k)
  <2>1. /\ stage[k] = "collect" /\ request[k].path = "metrics"
        /\ security.auth => request[k].authentic
    BY <1>1, <1>9 DEF Collect, OnMetrics, Known
  <2>2. QED
    BY <1>3, <1>5, <1>9, <2>1 DEF Collect, InHandler
<1>10. CASE CheckRPC(k)
  BY <1>3, <1>5, <1>10 DEF CheckRPC, InHandler
<1>11. QED
  BY <1>4, <1>6, <1>7, <1>8, <1>9, <1>10 DEF HandlerStep

LEMMA GuardStep == TypeOK /\ GuardInv /\ [Next]_vars => GuardInv'
<1> SUFFICES ASSUME TypeOK, GuardInv, [Next]_vars PROVE GuardInv'
  OBVIOUS
<1>1. CASE Running(Step)
  <2>1. environment' = environment /\ Step
    BY <1>1 DEF Running
  <2>2. CASE Listen \/ ListenFails \/ DrainBegins \/ DrainEnds
    BY <2>1, <2>2, ServerGoes, GuardFrame
  <2>3. ASSUME NEW k \in Connections, Arrive(k) PROVE GuardInv'
    <3>1. /\ stage' = [stage EXCEPT ![k] = "ipfilter"]
          /\ \A j \in Connections : j # k => request'[j] = request[j]
      BY <2>3 DEF Arrive, TypeOK
    <3>2. stage'[k] = "ipfilter"
      BY <3>1 DEF TypeOK
    <3>3. QED
      BY <2>1, <3>1, <3>2, GuardMoves DEF Entered, OnMetrics, Known
  <2>4. ASSUME NEW k \in Connections, HandlerStep(k) PROVE GuardInv'
    BY <2>1, <2>4, GuardHandles
  <2>5. CASE Signal \/ LoopStarts \/ ScrapeEnds \/ ScrapeBegins \/ LoopReturns
    BY <2>1, <2>5, GuardFrame
    DEF Signal, LoopStarts, ScrapeEnds, ScrapeBegins, LoopReturns, LoopGoto, httpVars
  <2>6. CASE (ZmqStep \/ FeedChanges) /\ UNCHANGED <<mainVars, httpVars>>
    BY <2>1, <2>6, GuardFrame DEF httpVars
  <2>7. QED
    BY <2>1, <2>2, <2>3, <2>4, <2>5, <2>6 DEF Step
<1>2. CASE Boot \/ HealthCheck \/ Exit \/ Crash \/ BitcoindMoves
  BY <1>2, GuardFrame DEF Boot, HealthCheck, Exit, Crash, BitcoindMoves, httpVars
<1>3. CASE UNCHANGED vars
  BY <1>3, GuardFrame DEF vars, httpVars
<1>4. QED
  BY <1>1, <1>2, <1>3 DEF Next

\* Whoever gets an answer was let in by the lists as they are meant, and whoever
\* gets the gauges asked for them and proved who it is.  The filter works on
\* texts: what it means is AllowListFailsClosed and LegibleRulesMeanIt.
THEOREM OnlyAdmittedServed == Spec => []OnlyAdmittedReadMetrics
<1>1. Init => GuardInv
  BY DEF Init, GuardInv, Entered, OnMetrics, Known
<1>2. GuardInv => OnlyAdmittedReadMetrics
  <2> SUFFICES ASSUME GuardInv, NEW k \in Connections
               PROVE  /\ stage[k] \in Answered \ {"forbidden"} =>
                            /\ security.allowed # {} =>
                                  Named(request[k].client, security.allowed)
                            /\ Legible(request[k].client,
                                       security.allowed \cup security.denied) =>
                                  MeantToEnter(request[k].client, security.allowed,
                                               security.denied)
                      /\ stage[k] = "metrics" =>
                            /\ request[k].path = "metrics"
                            /\ security.auth => request[k].authentic
    BY Zenon DEF OnlyAdmittedReadMetrics
  <2>1. Entered(k) /\ OnMetrics(k) /\ Known(k)
    BY DEF GuardInv
  <2>2. ASSUME stage[k] \in Answered \ {"forbidden"}
        PROVE  IsIPAllowed(request[k].client, security.allowed, security.denied)
    BY <2>1, <2>2 DEF Entered, Answered
  <2>3. QED
    BY <2>1, <2>2, AllowListFailsClosed, LegibleRulesMeanIt DEF OnMetrics, Known
<1>3. QED
  BY <1>1, <1>2, ExporterTypeInit, ExporterTypeStep, GuardStep, PTL DEF Spec

-----------------------------------------------------------------------------
\* Every reason to stop is a signal, but for those the property lists.
LEMMA StopStep == TypeOK /\ StopsOnlyWhenTold /\ [Next]_vars => StopsOnlyWhenTold'
<1> SUFFICES ASSUME TypeOK, StopsOnlyWhenTold, [Next]_vars PROVE StopsOnlyWhenTold'
  OBVIOUS
<1>0. ASSUME UNCHANGED <<environment, oneShot, shutdown, configured>>,
             loop' = "returned" => loop = "returned" \/ shutdown,
             server' = "closed" => server = "closed" \/ shutdown,
             proc' = proc,
             zmq' = "returned" => zmq = "returned" \/ shutdown \/ ~configured
      PROVE  StopsOnlyWhenTold'
  BY <1>0, Zenon DEF StopsOnlyWhenTold
<1>1. CASE Running(Step)
  <2>1. UNCHANGED <<environment, oneShot, proc>> /\ Step
    BY <1>1 DEF Running
  <2>2. CASE Listen \/ ListenFails \/ DrainBegins \/ DrainEnds
    <3>1. server' = "closed" => server = "closed" \/ shutdown
      BY <2>2 DEF Listen, ListenFails, DrainBegins, DrainEnds
    <3>2. QED
      BY <1>0, <2>1, <2>2, <3>1, ServerGoes DEF zmqVars, mainVars
  <2>3. ASSUME NEW k \in Connections, Arrive(k) \/ HandlerStep(k)
        PROVE  StopsOnlyWhenTold'
    <3>1. UNCHANGED <<zmqVars, mainVars, server>>
      BY <2>3, HandlerGoes DEF Arrive, Goto
    <3>2. QED
      BY <1>0, <2>1, <3>1 DEF zmqVars, mainVars
  <2>4. CASE Signal
    <3>1. shutdown' /\ UNCHANGED <<environment, oneShot, proc>>
      BY <2>1, <2>4, Zenon DEF Signal
    <3>2. QED
      BY <3>1, Zenon DEF StopsOnlyWhenTold
  <2>5. CASE LoopStarts \/ ScrapeEnds \/ ScrapeBegins \/ LoopReturns
    <3>1. /\ UNCHANGED <<zmqVars, httpVars>>
          /\ loop' = "returned" => loop = "returned" \/ shutdown
      BY <2>5 DEF LoopStarts, ScrapeEnds, ScrapeBegins, LoopReturns, LoopGoto, BetweenScrapes
    <3>2. QED
      BY <1>0, <2>1, <3>1 DEF zmqVars, httpVars
  <2>6. CASE (ZmqStep \/ FeedChanges) /\ UNCHANGED <<mainVars, httpVars>>
    <3>1. /\ UNCHANGED <<shutdown, configured>>
          /\ zmq' = "returned" => zmq = "returned" \/ shutdown \/ ~configured
      BY <2>6 DEF ZmqStep, FeedChanges, ZmqStart, ZmqConnects, ZmqFails, AfterError,
                  ZmqRetries, ZmqStops
    <3>2. QED
      BY <1>0, <2>1, <2>6, <3>1 DEF mainVars, httpVars
  <2>7. QED
    BY <2>1, <2>2, <2>3, <2>4, <2>5, <2>6 DEF Step
<1>2. CASE Boot
  <2>1. /\ UNCHANGED <<zmqVars, environment, oneShot, mainVars, httpVars>>
        /\ proc' \in {"running", "refused"}
    BY <1>2 DEF Boot
  <2>2. QED
    BY <2>1 DEF StopsOnlyWhenTold, zmqVars, mainVars, httpVars
<1>3. CASE HealthCheck
  <2>1. /\ UNCHANGED <<zmqVars, environment, oneShot, loop, httpVars>>
        /\ proc' = "exited" /\ oneShot
    BY <1>3 DEF HealthCheck
  <2>2. QED
    BY <2>1 DEF StopsOnlyWhenTold, zmqVars, httpVars
<1>4. CASE Exit
  <2>1. /\ UNCHANGED <<zmqVars, environment, oneShot, mainVars, httpVars>>
        /\ proc' = "exited" /\ loop = "returned"
    BY <1>4 DEF Exit
  <2>2. QED
    BY <2>1 DEF StopsOnlyWhenTold, zmqVars, mainVars, httpVars
<1>5. CASE Crash
  <2>1. /\ UNCHANGED <<zmqVars, environment, oneShot, mainVars, httpVars>>
        /\ proc' = "crashed" /\ environment.path # "/metrics"
    BY <1>5 DEF Crash, Mountable
  <2>2. QED
    BY <2>1 DEF StopsOnlyWhenTold, zmqVars, mainVars, httpVars
<1>6. CASE BitcoindMoves
  BY <1>0, <1>6 DEF BitcoindMoves, zmqVars, httpVars
<1>7. CASE UNCHANGED vars
  BY <1>0, <1>7 DEF vars, zmqVars, mainVars, httpVars
<1>8. QED
  BY <1>1, <1>2, <1>3, <1>4, <1>5, <1>6, <1>7 DEF Next

\* Nothing of the exporter ends before it is told to, for every configuration.
THEOREM ToldToStop == Spec => []StopsOnlyWhenTold
<1>1. Init => StopsOnlyWhenTold
  BY DEF Init, ZmqInit, StopsOnlyWhenTold
<1>2. QED
  BY <1>1, ExporterTypeInit, ExporterTypeStep, StopStep, PTL DEF Spec

-----------------------------------------------------------------------------
\* A bitcoind that is up has its latest cookie in the file, and a file left behind
\* by one that is down holds an older one; the loop keeps the password, or the
\* cookie its client found, which is no newer than the restarts made until then
\* and is the latest if bitcoind was up.
FileInv ==
    /\ cookieFile <= restarts
    /\ bitcoind = "up" => cookieFile = restarts
ClientInv ==
    loop # "starting" =>
        IF environment.cookie = "unset" THEN loopClient = Password
        ELSE /\ madeAt <= restarts
             /\ loopClient = Nobody \/ \E n \in 0..madeAt : loopClient = Cookie(n)
             /\ bitcoind = "up" /\ restarts = madeAt => loopClient = Cookie(madeAt)
CookieInv == FileInv /\ ClientInv

LEMMA CookieFrame ==
    ASSUME CookieInv, UNCHANGED <<environment, bitcoindVars, loopClient, madeAt>>,
           loop' # "starting" => loop # "starting"
    PROVE  CookieInv'
BY DEF CookieInv, FileInv, ClientInv, bitcoindVars

\* What a client is made with satisfies ClientInv.
LEMMA ClientMade ==
    ASSUME TypeOK, FileInv, UNCHANGED <<environment, bitcoindVars>>,
           loopClient' = NewClient, madeAt' = restarts
    PROVE  CookieInv'
<1>1. UNCHANGED <<bitcoind, cookieFile, restarts>>
  BY DEF bitcoindVars
<1>2. cookieFile # NoCookie => cookieFile \in 0..restarts
  BY ExporterAssumption DEF TypeOK, FileInv, NoCookie
<1>3. bitcoind = "up" => cookieFile = restarts /\ cookieFile # NoCookie
  BY ExporterAssumption DEF TypeOK, FileInv, NoCookie
<1>4. restarts <= restarts
  BY DEF TypeOK
<1>5. QED
  BY <1>1, <1>2, <1>3, <1>4 DEF CookieInv, FileInv, ClientInv, NewClient

\* A bitcoind that starts has made one more restart than any client has seen.
LEMMA CookieMoves ==
    ASSUME TypeOK, CookieInv, BitcoindMoves
    PROVE  CookieInv'
<1>1. UNCHANGED <<environment, loop, loopClient, madeAt>>
  BY DEF BitcoindMoves
<1>2. /\ restarts \in Nat /\ madeAt \in Nat /\ cookieFile \in Int
  BY ExporterAssumption DEF TypeOK, NoCookie
<1>3. CASE BitcoindStops
  <2>1. /\ bitcoind' = "down" /\ restarts' = restarts
        /\ cookieFile' = NoCookie \/ cookieFile' = cookieFile
    BY <1>3 DEF BitcoindStops
  <2>2. cookieFile' <= restarts'
    BY <1>2, <2>1 DEF CookieInv, FileInv, NoCookie
  <2>3. QED
    BY <1>1, <2>1, <2>2 DEF CookieInv, FileInv, ClientInv
<1>4. CASE BitcoindStarts
  <2>1. bitcoind' = "up" /\ restarts' = restarts + 1 /\ cookieFile' = restarts'
    BY <1>4 DEF BitcoindStarts
  <2>2. FileInv'
    BY <1>2, <2>1 DEF FileInv
  <2>3. madeAt <= restarts => madeAt <= restarts' /\ restarts' # madeAt
    BY <1>2, <2>1
  <2>4. QED
    BY <1>1, <2>2, <2>3 DEF CookieInv, ClientInv
<1>5. QED
  BY <1>3, <1>4 DEF BitcoindMoves

LEMMA CookieStep == TypeOK /\ CookieInv /\ [Next]_vars => CookieInv'
<1> SUFFICES ASSUME TypeOK, CookieInv, [Next]_vars PROVE CookieInv'
  OBVIOUS
<1>1. CASE Running(Step)
  <2>1. environment' = environment /\ Step
    BY <1>1 DEF Running
  <2>2. UNCHANGED mainVars => CookieInv'
    BY <2>1, CookieFrame DEF mainVars
  <2>3. CASE Listen \/ ListenFails \/ DrainBegins \/ DrainEnds
    BY <2>2, <2>3, ServerGoes
  <2>4. ASSUME NEW k \in Connections, Arrive(k) \/ HandlerStep(k) PROVE CookieInv'
    BY <2>2, <2>4, HandlerGoes DEF Arrive, Goto
  <2>5. CASE Signal
    BY <2>2, <2>5 DEF Signal
  <2>6. CASE LoopStarts
    BY <2>1, <2>6, ClientMade DEF LoopStarts, CookieInv
  <2>7. CASE ScrapeEnds \/ ScrapeBegins \/ LoopReturns
    BY <2>1, <2>7, CookieFrame
    DEF ScrapeEnds, ScrapeBegins, LoopReturns, BetweenScrapes, LoopGoto
  <2>8. CASE (ZmqStep \/ FeedChanges) /\ UNCHANGED <<mainVars, httpVars>>
    BY <2>2, <2>8
  <2>9. QED
    BY <2>1, <2>3, <2>4, <2>5, <2>6, <2>7, <2>8 DEF Step
<1>2. CASE Boot \/ Exit \/ Crash
  BY <1>2, CookieFrame DEF Boot, Exit, Crash, mainVars
<1>3. CASE HealthCheck
  BY <1>3, ClientMade DEF HealthCheck, CookieInv
<1>4. CASE BitcoindMoves
  BY <1>4, CookieMoves
<1>5. CASE UNCHANGED vars
  BY <1>5, CookieFrame DEF vars, mainVars
<1>6. QED
  BY <1>1, <1>2, <1>3, <1>4, <1>5 DEF Next

\* However often bitcoind is restarted and whenever the loop's client was made, a
\* bitcoind that is up takes it, password aside, exactly until its next restart:
\* the client is never renewed.  The one /ready makes is always taken.
THEOREM RestartAloneLocksOut == Spec => []CookieGoodUntilRestart
<1>1. Init => CookieInv
  <2> SUFFICES ASSUME Init PROVE CookieInv
    OBVIOUS
  <2>1. /\ restarts = 0 /\ cookieFile \in {NoCookie, 0} /\ loop = "starting"
        /\ bitcoind = "up" => cookieFile = 0
    BY DEF Init
  <2>2. QED
    BY <2>1 DEF CookieInv, FileInv, ClientInv, NoCookie
<1>2. TypeOK /\ CookieInv => CookieGoodUntilRestart
  <2> SUFFICES ASSUME TypeOK, CookieInv, bitcoind = "up"
               PROVE  /\ Accepts(NewClient)
                      /\ loop # "starting" =>
                            (Accepts(loopClient) <=>
                                environment.cookie = "unset" \/ restarts = madeAt)
    BY DEF CookieGoodUntilRestart
  <2>1. restarts \in Nat /\ madeAt \in Nat
    BY ExporterAssumption DEF TypeOK
  <2>2. Accepts(NewClient)
    <3>1. cookieFile = restarts /\ cookieFile # NoCookie
      BY <2>1 DEF CookieInv, FileInv, NoCookie
    <3>2. QED
      BY <3>1 DEF NewClient, Accepts
  <2>3. ASSUME loop # "starting", environment.cookie = "unset"
        PROVE  Accepts(loopClient)
    BY <2>3 DEF CookieInv, ClientInv, Accepts
  <2>4. ASSUME loop # "starting", environment.cookie # "unset"
        PROVE  Accepts(loopClient) <=> restarts = madeAt
    <3>1. /\ madeAt <= restarts
          /\ loopClient = Nobody \/ \E n \in 0..madeAt : loopClient = Cookie(n)
          /\ restarts = madeAt => loopClient = Cookie(madeAt)
      BY <2>4 DEF CookieInv, ClientInv
    <3>2. restarts # madeAt => \A n \in 0..madeAt : n # restarts
      BY <2>1, <3>1
    <3>3. restarts # madeAt => loopClient \notin {Password, Cookie(restarts)}
      BY <3>1, <3>2 DEF Nobody, Password, Cookie
    <3>4. QED
      BY <3>1, <3>3 DEF Accepts
  <2>5. QED
    BY <2>2, <2>3, <2>4
<1>3. QED
  BY <1>1, <1>2, ExporterTypeInit, ExporterTypeStep, CookieStep, PTL DEF Spec
=============================================================================
