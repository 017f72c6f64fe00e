------------------------------ MODULE Validator ------------------------------
(***************************************************************************)
(* The validator of config/validation.go: the fields of a configuration it *)
(* finds in error, and the warnings it gives, in strict mode or not.       *)
(*                                                                         *)
(* A configuration has the shape of the struct Config.  Durations are in   *)
(* milliseconds, user names and passwords are known by their length, an    *)
(* RPC address by what url.Parse makes of it, a ZMQ address as "tcp" when  *)
(* it is tcp://host:port with a port of 1 to 65535, and texts compared     *)
(* without regard to case are taken in lower case.                         *)
(***************************************************************************)
EXTENDS Integers, AccessRules

If(condition, what) == IF condition THEN {what} ELSE {}

\* The RPC address that is an empty text; port 0 is none.
NoAddress == [parses |-> TRUE, scheme |-> "", host |-> FALSE, port |-> 0]
IsPort(n) == n \in 1..65535

Second == 1000
LogLevels == {"trace", "debug", "info", "warn", "error", "fatal", "panic"}
KnownEnvironments == {"development", "staging", "production"}
CommonPorts == {22, 23, 25, 53, 80, 110, 143, 443, 993, 995}

\* Each of these names the fields in error.  An address that is empty or does
\* not parse ends the checks of its section.
RPCErrors(rpc) ==
    LET a == rpc.address IN
    IF a = NoAddress \/ ~a.parses THEN {"RPC_ADDRESS"} ELSE
    If(a.scheme \notin {"http", "https"} \/ ~a.host \/ (a.port # 0 /\ ~IsPort(a.port)),
       "RPC_ADDRESS")
    \cup If(rpc.user = 0, "RPC_USER") \cup If(rpc.pass = 0, "RPC_PASS")
    \cup If(rpc.timeout < Second, "RPC_TIMEOUT")

ZMQErrors(zmq) ==
    IF ~zmq.enabled THEN {}
    ELSE IF zmq.address = "" THEN {"ZMQ_ADDRESS"}
    ELSE If(zmq.address # "tcp", "ZMQ_ADDRESS") \cup If(zmq.timeout < Second, "ZMQ_TIMEOUT")

MetricsErrors(metrics) ==
    If(~IsPort(metrics.port), "METRICS_PORT")
    \cup If(metrics.path = "unrooted", "METRICS_PATH")
    \cup If(metrics.interval < Second, "FETCH_INTERVAL")

\* Unlike the validateSecurityConfig of security.go, this one asks neither for
\* the existence of the files, nor for a TLS version, a length of the password,
\* the window and the block time of the limiter, or DENIED_IPS.
SecurityErrors(s) ==
    If(s.tls /\ s.cert = "", "TLS_CERT_FILE") \cup If(s.tls /\ s.key = "", "TLS_KEY_FILE")
    \cup If(s.auth /\ s.authUser = 0, "AUTH_USERNAME")
    \cup If(s.auth /\ s.authPass = 0, "AUTH_PASSWORD")
    \cup If(s.limit /\ s.requests <= 0, "RATE_LIMIT_REQUESTS")
    \cup If(\E rule \in s.allowed : ~IsValidIP(rule), "ALLOWED_IPS")

AppErrors(app) == If(app.logLevel \notin LogLevels, "LOG_LEVEL")

\* validateCrossFieldDependencies; before it, the slip of dropping its last
\* part.
NoProductionErrors(cfg, strict) == {}
ProductionErrors(cfg, strict) ==
    IF ~(strict /\ cfg.app.environment = "production") THEN {} ELSE
    If(~cfg.security.tls, "PRODUCTION_TLS") \cup If(~cfg.security.auth, "PRODUCTION_AUTH")
    \cup If(cfg.app.logLevel \in {"debug", "trace"}, "PRODUCTION_LOG_LEVEL")

Errors(cfg, strict) ==
    RPCErrors(cfg.rpc) \cup ZMQErrors(cfg.zmq) \cup MetricsErrors(cfg.metrics)
    \cup SecurityErrors(cfg.security) \cup AppErrors(cfg.app)
    \cup ProductionErrors(cfg, strict)

Valid(cfg, strict) == Errors(cfg, strict) = {}

-----------------------------------------------------------------------------
\* The warnings.  Those on the RPC section come only after a parsable address.

RPCWarnings(rpc, strict) ==
    LET a == rpc.address IN
    IF a = NoAddress \/ ~a.parses THEN {} ELSE
    If(strict /\ a.scheme = "http", "rpc over http")
    \cup If(strict /\ rpc.pass < 8, "short rpc password")
    \cup If(rpc.timeout > 300 * Second, "long rpc timeout")

MetricsWarnings(cfg, strict) ==
    LET m == cfg.metrics IN
    If(m.port \in CommonPorts, "common port")
    \cup If(m.interval > 300 * Second, "long interval")
    \cup If(strict /\ m.interval < 5 * Second, "short interval")
    \cup If(cfg.zmq.enabled /\ m.interval < 5 * Second, "short interval with zmq")
    \cup If(m.port = 443 /\ ~cfg.security.tls, "https port without tls")
    \cup If(m.port = 80 /\ cfg.security.tls, "http port with tls")

SecurityWarnings(s, strict) ==
    If(s.limit /\ s.requests > 10000, "high rate limit")
    \cup IF ~strict THEN {} ELSE
         If(s.auth /\ s.authPass < 8, "short password")
         \cup If(~s.tls, "no tls") \cup If(~s.auth, "no auth")
         \cup If(s.tls # s.auth, "tls and auth differ")

AppWarnings(app, strict) ==
    If(strict /\ app.logLevel = "debug", "debug logging")
    \cup If(app.environment \notin KnownEnvironments \cup {""}, "unknown environment")

Warnings(cfg, strict) ==
    RPCWarnings(cfg.rpc, strict) \cup MetricsWarnings(cfg, strict)
    \cup SecurityWarnings(cfg.security, strict) \cup AppWarnings(cfg.app, strict)

\* checkConfigValidation of config/health.go, which validates with a strict
\* validator of its own; before it, the slip of a lenient one.
LenientConfigCheck(cfg) ==
    IF ~Valid(cfg, FALSE) THEN "unhealthy"
    ELSE IF Warnings(cfg, FALSE) # {} THEN "degraded" ELSE "healthy"
ConfigCheck(cfg) ==
    IF ~Valid(cfg, TRUE) THEN "unhealthy"
    ELSE IF Warnings(cfg, TRUE) # {} THEN "degraded" ELSE "healthy"
=============================================================================
