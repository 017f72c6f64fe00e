--------------------------- MODULE MCConfigReload ---------------------------
\* Environments for ConfigReload: one that both readings accept, and what a few
\* variables make of it.
EXTENDS ConfigReload

Url(scheme, port) == [parses |-> TRUE, scheme |-> scheme, host |-> TRUE, port |-> port]
\* node:8332, which url.Parse takes for a scheme, and 10.0.0.1:8332, which it refuses.
HostPort == [parses |-> TRUE, scheme |-> "node", host |-> FALSE, port |-> 0]
NumericHostPort == [NoAddress EXCEPT !.parses = FALSE]
RuleOf(form) == [form |-> form, meant |-> {"a"}]

Open ==
    [tls |-> FALSE, cert |-> "", key |-> "", tlsVersion |-> "1.2",
     auth |-> FALSE, authUser |-> 0, authPass |-> 0,
     limit |-> FALSE, requests |-> 100, window |-> 60, blockTime |-> 300,
     allowed |-> {}, denied |-> {}]
Hardened ==
    [Open EXCEPT !.tls = TRUE, !.cert = "present", !.key = "present",
                 !.auth = TRUE, !.authUser = 5, !.authPass = 8, !.limit = TRUE]

Plain ==
    [address |-> Url("http", 8332), user |-> 4, pass |-> 8, cookie |-> "unset",
     rpcTimeout |-> 30 * Second, zmqAddress |-> "", zmqEnabled |-> FALSE,
     zmqTimeout |-> 10 * Second, interval |-> [text |-> "unset", n |-> 0],
     metricPort |-> <<>>, metricsPort |-> <<>>, path |-> "/metrics",
     logLevel |-> "info", environment |-> "development", security |-> Open]
Production == [Plain EXCEPT !.environment = "production", !.security = Hardened]

Intervals == {[text |-> "number", n |-> 0], [text |-> "number", n |-> 5],
              [text |-> "number", n |-> -1], [text |-> "duration", n |-> 500],
              [text |-> "duration", n |-> 5000]}
Ports == {<<>>, <<80>>, <<9332>>, <<70000>>}
Securities ==
    {Open, Hardened, [Hardened EXCEPT !.authPass = 7], [Hardened EXCEPT !.cert = "missing"],
     [Hardened EXCEPT !.key = ""], [Hardened EXCEPT !.tlsVersion = "1.1"],
     [Hardened EXCEPT !.authUser = 0], [Hardened EXCEPT !.tls = FALSE],
     [Hardened EXCEPT !.requests = 0], [Hardened EXCEPT !.blockTime = 0],
     [Open EXCEPT !.allowed = {RuleOf("unparsable")}],
     [Open EXCEPT !.denied = {RuleOf("unparsable")}],
     [Hardened EXCEPT !.allowed = {RuleOf("respelled")}, !.requests = 20000]}

MCEnvironments ==
    {Plain, Production,
     [Plain EXCEPT !.environment = "production"],
     [Plain EXCEPT !.environment = "staging", !.logLevel = "debug"],
     [Plain EXCEPT !.logLevel = "warning"], [Plain EXCEPT !.logLevel = "loud"],
     [Production EXCEPT !.logLevel = "debug"],
     [Plain EXCEPT !.path = "unrooted"], [Plain EXCEPT !.path = "/health"],
     [Plain EXCEPT !.cookie = "readable", !.user = 0, !.pass = 0],
     [Plain EXCEPT !.cookie = "unreadable"], [Plain EXCEPT !.pass = 0],
     [Plain EXCEPT !.zmqAddress = "tcp"], [Plain EXCEPT !.zmqEnabled = TRUE],
     [Plain EXCEPT !.zmqAddress = "tcp", !.zmqEnabled = TRUE,
                   !.rpcTimeout = 60 * Second, !.zmqTimeout = 5 * Second],
     [Plain EXCEPT !.zmqAddress = "bare", !.zmqEnabled = TRUE],
     [Plain EXCEPT !.rpcTimeout = 500]}
    \cup {[Plain EXCEPT !.address = a] : a \in {UnsetAddress, NoAddress, HostPort,
             NumericHostPort, Url("ftp", 8332), Url("https", 70000)}}
    \cup {[Plain EXCEPT !.interval = i] : i \in Intervals}
    \cup {[Plain EXCEPT !.metricPort = p, !.metricsPort = q] : p, q \in Ports}
    \cup {[e EXCEPT !.security = s] : e \in {Plain, Production}, s \in Securities}

\* What os.Setenv brings later: development and production, hardened or not.
MCLater ==
    {[Plain EXCEPT !.metricsPort = <<9332>>], Production,
     [Plain EXCEPT !.environment = "production"]}
=============================================================================
