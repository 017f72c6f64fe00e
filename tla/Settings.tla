------------------------------ MODULE Settings ------------------------------
(***************************************************************************)
(* The environment variables of the exporter, and the two readings of them *)
(* in config/config.go: that of InitializeConfig, which the process serves *)
(* from, and that of LoadConfig, which the validator judges.               *)
(*                                                                         *)
(* A variable that is unset has its default here, except where the two     *)
(* readings treat it differently: ports are <<>> or <<n>>, FETCH_INTERVAL  *)
(* is [text, n], a bare number n or a Go duration of n milliseconds.       *)
(***************************************************************************)
EXTENDS Validator, Sequences

SecurityVars ==
    [tls : BOOLEAN, cert : {"", "present", "missing"}, key : {"", "present", "missing"},
     tlsVersion : STRING, auth : BOOLEAN, authUser : Nat, authPass : Nat,
     limit : BOOLEAN, requests : Int, window : Int, blockTime : Int,
     allowed : SUBSET Rule, denied : SUBSET Rule]
EnvVars ==
    [address : [parses : BOOLEAN, scheme : STRING, host : BOOLEAN, port : Nat],
     user : Nat, pass : Nat, cookie : {"unset", "readable", "unreadable"},
     rpcTimeout : Int, zmqAddress : STRING, zmqEnabled : BOOLEAN, zmqTimeout : Int,
     interval : [text : {"unset", "number", "duration"}, n : Int],
     metricPort : Seq(Int), metricsPort : Seq(Int), path : STRING,
     logLevel : STRING, environment : STRING, security : SecurityVars]

OrElse(option, default) == IF option = <<>> THEN default ELSE option[1]

DefaultPort == 3000
DefaultInterval == 10 * Second
MinPasswordLength == 8

-----------------------------------------------------------------------------
\* InitializeConfig: loadConfiguration and LoadSecurityConfig.

\* METRICS_PORT is copied to METRIC_PORT when that is unset, for the rest of the
\* process; before it, the slip of reading METRIC_PORT alone.
WithoutAlias(env) == env
WithAlias(env) ==
    [env EXCEPT !.metricPort = IF @ = <<>> THEN env.metricsPort ELSE @]

\* FETCH_INTERVAL as whole seconds.
ReadsSeconds(interval) == interval.text \in {"unset", "number"}
SecondsRead(interval) ==
    IF interval.text = "number" THEN interval.n ELSE DefaultInterval \div Second

\* An RPC_ADDRESS that is not set, which env.ParseAs refuses, in both readings; an
\* empty one it takes.
UnsetAddress == [NoAddress EXCEPT !.parses = FALSE, !.scheme = "unset"]

\* env.ParseAs, the checks of the credentials and of the cookie file.
CredentialsGiven(env) ==
    IF env.cookie = "unset" THEN env.user > 0 /\ env.pass > 0 ELSE env.cookie = "readable"
LegacyAccepted(env) ==
    env.address # UnsetAddress /\ ReadsSeconds(env.interval) /\ CredentialsGiven(env)

\* validateSecurityConfig.
SecurityAccepted(s) ==
    /\ s.tls => /\ s.cert = "present" /\ s.key = "present"
                /\ s.tlsVersion \in {"1.2", "1.3"}
    /\ s.auth => s.authUser > 0 /\ s.authPass >= MinPasswordLength
    /\ s.limit => s.requests > 0 /\ s.window > 0 /\ s.blockTime > 0
    /\ \A rule \in s.allowed \cup s.denied : IsValidIP(rule)

BootAccepted(env) == LegacyAccepted(env) /\ SecurityAccepted(env.security)

\* setupLogging, in main: the levels of logrus are those of the validator and
\* "warning".
LoggingAccepted(env) == env.logLevel \in LogLevels \cup {"warning"}

\* The variable C it fills, and the GlobalConfig it builds from C and Security.
LegacyRead(env) ==
    [address |-> env.address, user |-> env.user, pass |-> env.pass, cookie |-> env.cookie,
     zmqAddress |-> env.zmqAddress, seconds |-> SecondsRead(env.interval),
     port |-> OrElse(WithAlias(env).metricPort, DefaultPort), path |-> env.path,
     logLevel |-> env.logLevel]
BootConfig(c, security) ==
    [rpc |-> [address |-> c.address, user |-> c.user, pass |-> c.pass,
              cookie |-> c.cookie, timeout |-> 30 * Second],
     zmq |-> [enabled |-> c.zmqAddress # "", address |-> c.zmqAddress,
              timeout |-> 10 * Second],
     metrics |-> [port |-> c.port, path |-> c.path, interval |-> c.seconds * Second],
     security |-> security,
     app |-> [logLevel |-> c.logLevel, environment |-> "production"]]

-----------------------------------------------------------------------------
\* LoadConfig.

\* FETCH_INTERVAL as a duration; "0" is the one text that is a number and a
\* duration.
ReadsDuration(interval) ==
    interval.text \in {"unset", "duration"} \/ (interval.text = "number" /\ interval.n = 0)
DurationRead(interval) == IF interval.text = "unset" THEN DefaultInterval ELSE interval.n

Parses(env) == env.address # UnsetAddress /\ ReadsDuration(env.interval)

\* The Config it builds, from variables it parses anew.
LoadedConfig(env) ==
    [rpc |-> [address |-> env.address, user |-> env.user, pass |-> env.pass,
              cookie |-> env.cookie, timeout |-> env.rpcTimeout],
     zmq |-> [enabled |-> env.zmqEnabled, address |-> env.zmqAddress,
              timeout |-> env.zmqTimeout],
     metrics |-> [port |-> OrElse(env.metricsPort, DefaultPort),
                  path |-> env.path, interval |-> DurationRead(env.interval)],
     security |-> env.security,
     app |-> [logLevel |-> env.logLevel, environment |-> env.environment]]

LoadAccepted(env, strict) == Parses(env) /\ Valid(LoadedConfig(env), strict)

=============================================================================
