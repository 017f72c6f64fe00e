------------------------------ MODULE Exporter ------------------------------
(***************************************************************************)
(* The life of the exporter process: main.go, the HTTP server of           *)
(* prometheus/secure_server.go with its middleware (security/tls.go), the  *)
(* ZMQ listener, the fetch loop and the credentials it calls bitcoind with *)
(* (fetcher/client.go), from start to exit.                                *)
(*                                                                         *)
(* main reads the configuration (Settings.tla), starts the server and the  *)
(* listener in goroutines of their own and runs the fetch loop itself, so  *)
(* the process exits, and every goroutine with it, as soon as the fetch    *)
(* loop returns.  A signal cancels one context that all of them watch.     *)
(* The fetch loop is reduced to the variable loop of ResilientFetcher.tla, *)
(* and the verdict of the rate limiter to a choice (RateLimiter.tla).      *)
(***************************************************************************)
EXTENDS ZmqListener, Settings, FiniteSets

CONSTANTS
    Connections,    \* HTTP connections, each carrying one request at a time
    Environments,   \* the environment variables the process may start with
    RequestsMade,   \* the requests clients make
    MaxRestarts     \* the bound on the restarts of bitcoind

Requests == [path : {"metrics", "health", "ready"}, client : Client, authentic : BOOLEAN]

ASSUME ExporterAssumption ==
    /\ RequestsMade \subseteq Requests /\ RequestsMade # {}
    /\ MaxRestarts \in Nat

VARIABLES
    environment,    \* what the configuration was read from
    oneShot,        \* the flag -health-check
    proc,       \* the process: "booting", "running", "exited", "refused" (its
                \* configuration is not accepted) or "crashed" (a panic)
    loop,       \* the fetch loop: "starting", "scraping", "waiting", "returned"
    loopClient, \* the credentials its client was made with
    bitcoind, cookieFile, restarts,     \* bitcoind is "up" or "down"; the cookie
                \* in its file, or NoCookie; its restarts so far (external)
    server,     \* StartSecure: "starting", "serving", "closed" or "failed"
    drain,      \* its shutdown goroutine: "watching", "draining", "drained"
                \* or "timedout"
    request,    \* request[k]: the request on connection k
    stage,      \* stage[k]: where its handler is, or the answer it gave
    madeAt      \* History: the restarts bitcoind had made when loopClient was made

bitcoindVars == <<bitcoind, cookieFile, restarts>>
httpVars == <<server, drain, request, stage>>
mainVars == <<loop, loopClient, madeAt, bitcoindVars>>
vars == <<zmqVars, environment, oneShot, proc, mainVars, httpVars>>

InHandler == {"ipfilter", "route", "auth", "ratelimit", "collect", "rpc"}
Answered == {"metrics", "healthy", "ready", "not_ready", "forbidden",
             "unauthorized", "too_many"}
Ended == {"exited", "refused", "crashed"}

\* Credentials: none, the configured user and password, or bitcoind's n-th cookie.
NoCookie == -1
Nobody == [kind |-> "nobody", cookie |-> NoCookie]
Password == [kind |-> "password", cookie |-> NoCookie]
Cookie(n) == [kind |-> "cookie", cookie |-> n]

TypeOK ==
    /\ ZmqTypeOK
    /\ shutdown \in BOOLEAN
    /\ environment \in Environments
    /\ oneShot \in BOOLEAN
    /\ proc \in {"booting", "running"} \cup Ended
    /\ loop \in {"starting", "scraping", "waiting", "returned"}
    /\ loopClient \in {Nobody, Password} \cup {Cookie(n) : n \in 0..MaxRestarts}
    /\ bitcoind \in {"up", "down"}
    /\ cookieFile \in NoCookie..MaxRestarts
    /\ restarts \in 0..MaxRestarts
    /\ madeAt \in 0..MaxRestarts
    /\ server \in {"starting", "serving", "closed", "failed"}
    /\ drain \in {"watching", "draining", "drained", "timedout"}
    /\ request \in [Connections -> Requests]
    /\ stage \in [Connections -> {"idle"} \cup InHandler \cup Answered]

Init ==
    /\ environment \in Environments
    /\ ZmqInit
    /\ configured = (environment.zmqAddress # "")
    /\ shutdown = FALSE
    /\ oneShot \in BOOLEAN
    /\ proc = "booting"
    /\ loop = "starting" /\ loopClient = Nobody
    /\ bitcoind \in {"up", "down"}
    /\ cookieFile \in IF bitcoind = "up" THEN {0} ELSE {NoCookie, 0}
    /\ restarts = 0 /\ madeAt = 0
    /\ server = "starting"
    /\ drain = "watching"
    /\ request \in [Connections -> {CHOOSE r \in RequestsMade : TRUE}]
    /\ stage = [k \in Connections |-> "idle"]

-----------------------------------------------------------------------------
\* bitcoind and the credentials it is called with.

\* computeBasicAuth, of NewClient: a cookie file comes before a user; an error
\* leaves the client without credentials.  Before it, the slip of reading the
\* cookie once, at boot.
CookieOfBoot == IF environment.cookie = "unset" THEN Password ELSE Cookie(0)
NewClient ==
    IF environment.cookie = "unset" THEN Password
    ELSE IF cookieFile = NoCookie THEN Nobody ELSE Cookie(cookieFile)

\* bitcoind takes the password it was configured with and its latest cookie.
Accepts(client) == client \in {Password, Cookie(restarts)}
Answers(client) == bitcoind = "up" /\ Accepts(client)

\* It stops, with its cookie file or, killed, without removing it; and starts
\* with a new cookie.
BitcoindStops ==
    /\ bitcoind = "up"
    /\ bitcoind' = "down"
    /\ cookieFile' \in {NoCookie, cookieFile}
    /\ UNCHANGED restarts
BitcoindStarts ==
    /\ bitcoind = "down"
    /\ restarts < MaxRestarts
    /\ bitcoind' = "up"
    /\ restarts' = restarts + 1
    /\ cookieFile' = restarts'
BitcoindMoves ==
    /\ BitcoindStops \/ BitcoindStarts
    /\ UNCHANGED <<zmqVars, environment, oneShot, proc, loop, loopClient, madeAt, httpVars>>

-----------------------------------------------------------------------------
\* main, until it starts the goroutines: InitializeConfig opens the cookie file
\* to see that it is readable, and refuses the configuration by ending the
\* process, as setupLogging does.
CookieSeen ==
    IF environment.cookie = "readable" /\ cookieFile = NoCookie
    THEN [environment EXCEPT !.cookie = "unreadable"] ELSE environment
Boot ==
    /\ proc = "booting"
    /\ proc' = IF BootAccepted(CookieSeen) /\ LoggingAccepted(environment)
               THEN "running" ELSE "refused"
    /\ UNCHANGED <<zmqVars, environment, oneShot, mainVars, httpVars>>

\* runHealthCheck: one call, then the process exits and says how it went.
HealthCheck ==
    /\ proc = "running"
    /\ oneShot
    /\ proc' = "exited"
    /\ loopClient' = NewClient /\ madeAt' = restarts
    /\ UNCHANGED <<zmqVars, environment, oneShot, loop, bitcoindVars, httpVars>>

-----------------------------------------------------------------------------
\* StartSecure.

\* The port is one to listen on (0 is any); and mux.Handle panics on a path
\* without a slash and on one that is taken.
Bindable == LegacyRead(environment).port \in 0..65535
Mountable == environment.path \notin {"unrooted", "/health", "/ready"}

Listen ==
    /\ server = "starting"
    /\ drain = "watching"
    /\ Mountable
    /\ Bindable
    /\ server' = "serving"
    /\ UNCHANGED <<zmqVars, mainVars, drain, request, stage>>

\* ListenAndServe fails (the port is taken or not a port, the certificate
\* unreadable): it is logged, and the process goes on without a server.
ListenFails ==
    /\ server = "starting"
    /\ Mountable
    /\ server' = "failed"
    /\ UNCHANGED <<zmqVars, mainVars, drain, request, stage>>

\* The shutdown goroutine calls Shutdown: no request is accepted from now on.
DrainBegins ==
    /\ drain = "watching"
    /\ shutdown
    /\ drain' = "draining"
    /\ server' = IF server = "failed" THEN "failed" ELSE "closed"
    /\ UNCHANGED <<zmqVars, mainVars, request, stage>>

InFlight == {k \in Connections : stage[k] \in InHandler}

\* Shutdown returns: every handler has, or shutdownTimeout has passed.
DrainEnds ==
    /\ drain = "draining"
    /\ drain' = IF InFlight = {} THEN "drained" ELSE "timedout"
    /\ UNCHANGED <<zmqVars, mainVars, server, request, stage>>

-----------------------------------------------------------------------------
\* One request, through IPFilterMiddleware, the mux, AuthMiddleware and the
\* rate limiter; the security headers it gets on the way are left out.

security == environment.security

Goto(k, s) ==
    /\ stage' = [stage EXCEPT ![k] = s]
    /\ UNCHANGED <<zmqVars, mainVars, server, drain, request>>

Arrive(k) ==
    /\ server = "serving"
    /\ stage[k] \notin InHandler
    /\ \E r \in RequestsMade : request' = [request EXCEPT ![k] = r]
    /\ stage' = [stage EXCEPT ![k] = "ipfilter"]
    /\ UNCHANGED <<zmqVars, mainVars, server, drain>>

IPFilter(k) ==
    /\ stage[k] = "ipfilter"
    /\ Goto(k, IF IsIPAllowed(request[k].client, security.allowed, security.denied)
               THEN "route" ELSE "forbidden")

\* CreateSecureHandler puts the security middleware around the metrics handler
\* alone, authentication outside the rate limiter; before it, the slips of
\* mounting the metrics handler itself and of not mounting /ready.
UnguardedHandlerFor(path) ==
    [metrics |-> "collect", health |-> "healthy", ready |-> "rpc"][path]
UnmountedHandlerFor(path) ==
    [metrics |-> "auth", health |-> "healthy", ready |-> "not_found"][path]
HandlerFor(path) ==
    [metrics |-> IF security.auth THEN "auth"
                 ELSE IF security.limit THEN "ratelimit" ELSE "collect",
     health  |-> "healthy",
     ready   |-> "rpc"][path]

Route(k) ==
    /\ stage[k] = "route"
    /\ Goto(k, HandlerFor(request[k].path))

Authenticate(k) ==
    /\ stage[k] = "auth"
    /\ Goto(k, IF ~request[k].authentic THEN "unauthorized"
               ELSE IF security.limit THEN "ratelimit" ELSE "collect")

RateLimit(k) ==
    /\ stage[k] = "ratelimit"
    /\ \E next \in {"collect", "too_many"} : Goto(k, next)

\* promhttp writes the gauges.
Collect(k) ==
    /\ stage[k] = "collect"
    /\ Goto(k, "metrics")

\* readinessCheckHandler, with a client of its own: bitcoind answers
\* getblockcount, or does not within readinessTimeoutSeconds.
CheckRPC(k) ==
    /\ stage[k] = "rpc"
    /\ \E answer \in {"ready", "not_ready"} :
          (answer = "ready" => Answers(NewClient)) /\ Goto(k, answer)

HandlerStep(k) ==
    \/ IPFilter(k) \/ Route(k) \/ Authenticate(k) \/ RateLimit(k)
    \/ Collect(k) \/ CheckRPC(k)

-----------------------------------------------------------------------------
\* main and the fetch loop.

Signal ==
    /\ ~shutdown
    /\ shutdown' = TRUE
    /\ UNCHANGED <<configured, feed, connected, zmq, mainVars, httpVars>>

\* StartResilient makes its client, once.
LoopStarts ==
    /\ loop = "starting"
    /\ loop' = "scraping"
    /\ loopClient' = NewClient /\ madeAt' = restarts
    /\ UNCHANGED <<zmqVars, bitcoindVars, httpVars>>

\* A scrape ends, the next begins, or ctx.Done() is taken.
LoopGoto(place) ==
    loop' = place /\ UNCHANGED <<zmqVars, loopClient, madeAt, bitcoindVars, httpVars>>
ScrapeEnds == loop = "scraping" /\ LoopGoto("waiting")
ScrapeBegins == loop = "waiting" /\ LoopGoto("scraping")
\* The condition on which the loop returns; before it, the slips of not looking
\* at the context and of waiting for a drain that leaves nothing behind.
BetweenAnyTwo == loop = "waiting"
AfterCleanDrain == loop = "waiting" /\ drain = "drained"
BetweenScrapes == loop = "waiting" /\ shutdown
LoopReturns == BetweenScrapes /\ LoopGoto("returned")

\* main returns: whatever still runs in another goroutine is cut off.
Exit ==
    /\ proc = "running"
    /\ loop = "returned"
    /\ proc' = "exited"
    /\ UNCHANGED <<zmqVars, environment, oneShot, mainVars, httpVars>>

\* The panic of mux.Handle, in a goroutine that does not recover.
Crash ==
    /\ proc = "running"
    /\ ~oneShot
    /\ server = "starting"
    /\ ~Mountable
    /\ proc' = "crashed"
    /\ UNCHANGED <<zmqVars, environment, oneShot, mainVars, httpVars>>

Step ==
    \/ Listen \/ ListenFails \/ DrainBegins \/ DrainEnds
    \/ \E k \in Connections : Arrive(k) \/ HandlerStep(k)
    \/ Signal \/ LoopStarts \/ ScrapeEnds \/ ScrapeBegins \/ LoopReturns
    \/ (ZmqStep \/ FeedChanges) /\ UNCHANGED <<mainVars, httpVars>>

Running(A) == proc = "running" /\ ~oneShot /\ A /\ UNCHANGED <<environment, oneShot, proc>>

Next ==
    \/ Running(Step)
    \/ Boot \/ HealthCheck \/ Exit \/ Crash
    \/ proc \notin Ended /\ BitcoindMoves

Spec == Init /\ [][Next]_vars

\* Goroutines run, handlers and timers included; the clock of the fetch loop and
\* a canceled context may be ready together, and select then picks either:
\* strong fairness of LoopReturns and of ZmqStops says it does not pick the
\* timer for ever.  Nothing is assumed of the signal, of requests, or of
\* bitcoind, and no scrape has to begin.
Fairness ==
    /\ WF_vars(Boot) /\ WF_vars(HealthCheck) /\ WF_vars(Exit) /\ WF_vars(Crash)
    /\ WF_vars(Running(DrainBegins)) /\ WF_vars(Running(DrainEnds))
    /\ \A k \in Connections : WF_vars(Running(HandlerStep(k)))
    /\ WF_vars(Running(LoopStarts \/ ScrapeEnds)) /\ SF_vars(Running(LoopReturns))
    /\ WF_vars(Running((ZmqStart \/ ZmqConnects \/ ZmqFails \/ ZmqRetries)
                       /\ UNCHANGED <<mainVars, httpVars>>))
    /\ SF_vars(Running(ZmqStops /\ UNCHANGED <<mainVars, httpVars>>))

FairSpec == Spec /\ Fairness

-----------------------------------------------------------------------------
\* Whoever gets more than "forbidden" from any endpoint is on the list of allowed
\* addresses, when there is one, and, where the filter can read the address and
\* the rules as they are written, is meant to enter; the gauges go only to a
\* request for them that proved who it is when authentication is on
\* (IPFilterMiddleware, CreateSecureHandler).
OnlyAdmittedReadMetrics ==
    \A k \in Connections :
        LET client == request[k].client IN
        /\ stage[k] \in Answered \ {"forbidden"} =>
              /\ security.allowed # {} => Named(client, security.allowed)
              /\ Legible(client, security.allowed \cup security.denied) =>
                    MeantToEnter(client, security.allowed, security.denied)
        /\ stage[k] = "metrics" =>
              request[k].path = "metrics" /\ (security.auth => request[k].authentic)

\* No part of the exporter ends before it is told to: neither a lost feed, nor a
\* failed scrape, nor a server that cannot listen stops anything else
\* (zmq.go:27-30, main.go:63-64).  Two things do end the process: a METRICS_PATH
\* the mux does not take, which nothing checks at boot, and a configuration that
\* is refused.
StopsOnlyWhenTold ==
    /\ loop = "returned" \/ server = "closed" => shutdown
    /\ proc = "exited" => shutdown \/ oneShot
    /\ proc = "crashed" => environment.path # "/metrics"
    /\ zmq = "returned" => shutdown \/ ~configured

\* A bitcoind that is up takes the client /ready makes for each request; it takes
\* the one the fetch loop made when it started if and only if it has not been
\* started since, or is called with a password.  From the first restart on, the
\* loop is locked out while /ready says ready, whatever the cookie file was like
\* at boot and when the client was made (NewResilientRunner,
\* checkBitcoinRPCReadiness).
CookieGoodUntilRestart ==
    bitcoind = "up" =>
        /\ Accepts(NewClient)
        /\ loop # "starting" =>
              (Accepts(loopClient) <=> environment.cookie = "unset" \/ restarts = madeAt)

\* Once bitcoind's socket stays up, the listener is connected to it again and
\* again, however often the connection is lost, and so for good once it is not
\* lost any more (zmq.go:27-30).
FeedRecovers ==
    <>[](configured /\ feed = "up" /\ ~shutdown /\ proc = "running") =>
        []<>(zmq = "receiving" /\ connected)

\* After a signal the process ends, whatever the requests, the drain and the feed
\* are doing, and with -health-check it ends by itself.
ShutdownExits == shutdown \/ oneShot ~> proc \in Ended

\* main.go:63-64: the servers stop "cleanly, giving in-flight requests a chance
\* to complete", that is, within the shutdownTimeout the server waits for them.
\* The process does not wait for the server: main returns with the fetch loop.
InFlightGetAChance ==
    proc = "exited" /\ InFlight # {} => drain = "timedout"

\* README.md:127-130: /ready is a "Comprehensive readiness check that validates"
\* the "ZMQ endpoint reachability (if enabled)".  The handler asks bitcoind's
\* RPC interface and nothing else.
ReadyMeansReachable ==
    [][\A k \in Connections : stage[k] # "ready" /\ stage'[k] = "ready" =>
           (configured => feed = "up")]_vars
=============================================================================
