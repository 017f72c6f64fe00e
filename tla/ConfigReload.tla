---------------------------- MODULE ConfigReload ----------------------------
(***************************************************************************)
(* The configuration of config/config.go as its callers see it: loaded at  *)
(* boot by InitializeConfig, loaded again by LoadConfig and ReloadConfig,  *)
(* and watched by a health monitor that is started and stopped.            *)
(*                                                                         *)
(* The functions share global variables without a lock, so one goroutine   *)
(* owns them, and a call is one step.  main makes the first call alone:    *)
(* the rest is an API nothing calls yet (the calls, and what os.Setenv     *)
(* does between them, are external).  A monitor is known by its life,      *)
(* which HealthMonitor.tla details, and by the latest verdict of IsHealthy.*)
(***************************************************************************)
EXTENDS Settings

CONSTANTS
    Environments,   \* what the environment variables may be at first,
    Later,          \* and what os.Setenv may make of them,
    MaxChanges,     \* at most so many times
    MaxMonitors     \* the bound on the monitors made

ASSUME ReloadAssumption ==
    /\ Environments \cup Later \subseteq EnvVars
    /\ MaxChanges \in Nat /\ MaxMonitors \in Nat

VARIABLES
    environment,
    ended,          \* the process has ended: log.Fatal or a panic
    C, Security,    \* <<>> before InitializeConfig, then <<the value>>
    globalConfig,   \* GlobalConfig, <<>> when nil
    validator,      \* the global validator: "nil", "strict" or "lenient"
    monitors,       \* the monitors made so far; healthMonitor is the last
    \* History: how often the environment has changed, those InitializeConfig and
    \* the last successful load read, and the ENVIRONMENT of the first
    \* configuration validated.
    changes, bootEnv, loadEnv, firstValidated

history == <<changes, bootEnv, loadEnv, firstValidated>>
vars == <<environment, ended, C, Security, globalConfig, validator, monitors, history>>

Possible == Environments \cup Later \cup {WithAlias(e) : e \in Environments \cup Later}

TypeOK ==
    /\ environment \in Possible
    /\ ended \in BOOLEAN
    /\ C \in {<<>>} \cup {<<LegacyRead(e)>> : e \in Possible}
    /\ Security \in {<<>>} \cup {<<e.security>> : e \in Possible}
    /\ globalConfig \in {<<>>} \cup {<<LoadedConfig(e)>> : e \in Possible}
                        \cup {<<BootConfig(LegacyRead(e), e.security)>> : e \in Possible}
    /\ validator \in {"nil", "strict", "lenient"}
    /\ Len(monitors) <= MaxMonitors
    /\ \A i \in 1..Len(monitors) :
          /\ monitors[i].running \in BOOLEAN /\ monitors[i].closed \in BOOLEAN
          /\ monitors[i].starts \in 0..2
          /\ monitors[i].verdict \in {"unknown", "healthy", "unhealthy"}

Init ==
    /\ environment \in Environments
    /\ ended = FALSE
    /\ C = <<>> /\ Security = <<>> /\ globalConfig = <<>>
    /\ validator = "nil"
    /\ monitors = <<>>
    /\ changes = 0 /\ bootEnv = <<>> /\ loadEnv = <<>>
    /\ firstValidated = <<>>

-----------------------------------------------------------------------------
\* The monitors.

Current == monitors[Len(monitors)]
NewMonitor(cfg) ==
    [config |-> cfg, running |-> FALSE, closed |-> FALSE, verdict |-> "unknown", starts |-> 0]

\* Start, which refuses when the monitor runs, and Stop, on the last of ms.
\* Before them, the slips of a Start that makes a monitor of its own and of a
\* Stop that leaves the flag set.
Update(ms, monitor) == [ms EXCEPT ![Len(ms)] = monitor]
Running(monitor) ==
    [monitor EXCEPT !.running = TRUE, !.verdict = "unknown",
                    !.starts = IF @ = 0 THEN 1 ELSE 2]
FreshStarted(ms) == Append(ms, Running(NewMonitor(ms[Len(ms)].config)))
Started(ms) ==
    IF ms[Len(ms)].running THEN ms ELSE Update(ms, Running(ms[Len(ms)]))
FlaggedStopped(ms) ==
    IF ms[Len(ms)].running THEN Update(ms, [ms[Len(ms)] EXCEPT !.closed = TRUE]) ELSE ms
Stopped(ms) ==
    IF ms[Len(ms)].running
    THEN Update(ms, [ms[Len(ms)] EXCEPT !.closed = TRUE, !.running = FALSE])
    ELSE ms

StartHealthMonitoring ==
    /\ monitors # <<>>
    /\ monitors' = Started(monitors)
    /\ UNCHANGED <<environment, ended, C, Security, globalConfig, validator, history>>

\* Closing the channel of a monitor that was stopped before panics.
StopHealthMonitoring ==
    /\ monitors # <<>>
    /\ ended' = (Current.running /\ Current.closed)
    /\ monitors' = Stopped(monitors)
    /\ UNCHANGED <<environment, C, Security, globalConfig, validator, history>>

\* The current monitor's loop ends a round of checks: that of the configuration
\* decides when it fails, the others are a choice.  Nobody sees the verdicts of a
\* monitor that was replaced.
Round ==
    /\ monitors # <<>>
    /\ Current.starts > 0
    /\ \E verdict \in {"healthy", "unhealthy"} :
          /\ ConfigCheck(Current.config) = "unhealthy" => verdict = "unhealthy"
          /\ monitors' = Update(monitors, [Current EXCEPT !.verdict = verdict])
    /\ UNCHANGED <<environment, ended, C, Security, globalConfig, validator, history>>

\* The answer of IsConfigHealthy, which finds no check failed in a monitor that
\* has not run any.
IsConfigHealthy == monitors # <<>> /\ Current.verdict # "unhealthy"

-----------------------------------------------------------------------------
InitializeConfig ==
    /\ C = <<>>
    /\ BootAccepted(environment)
    /\ Len(monitors) < MaxMonitors
    /\ environment' = WithAlias(environment)
    /\ LET c == LegacyRead(environment)
           cfg == BootConfig(c, environment.security)
       IN /\ C' = <<c>>
          /\ globalConfig' = <<cfg>>
          /\ monitors' = Append(monitors, NewMonitor(cfg))
    /\ Security' = <<environment.security>>
    /\ bootEnv' = <<environment>>
    /\ UNCHANGED <<ended, validator, changes, loadEnv, firstValidated>>

InitializeFails ==
    /\ C = <<>>
    /\ ~BootAccepted(environment)
    /\ ended' = TRUE
    /\ UNCHANGED <<environment, C, Security, globalConfig, validator, monitors, history>>

\* ValidateConfig makes the validator when it is first called, and keeps it.
ValidatorFor(env) ==
    IF validator # "nil" THEN validator
    ELSE IF env.environment = "production" THEN "strict" ELSE "lenient"
Validates(env) ==
    /\ validator' = ValidatorFor(env)
    /\ firstValidated' = IF firstValidated = <<>> THEN <<env.environment>> ELSE firstValidated

\* What a load leaves of the monitors: LoadConfig makes one for the new
\* configuration, and ReloadConfig then stops "the old health monitor", which
\* is that very one; before it, the ReloadConfig its comment describes.
AfterLoad(cfg) == Append(monitors, NewMonitor(cfg))
ReloadAsCommented(cfg) ==
    Append(IF monitors = <<>> THEN <<>> ELSE Stopped(monitors), NewMonitor(cfg))
AfterReload(cfg) == Stopped(Append(monitors, NewMonitor(cfg)))

\* LoadConfig and ReloadConfig, when the configuration is good.
Load ==
    /\ LoadAccepted(environment, ValidatorFor(environment) = "strict")
    /\ Len(monitors) < MaxMonitors
    /\ Validates(environment)
    /\ LET cfg == LoadedConfig(environment)
       IN /\ globalConfig' = <<cfg>>
          /\ monitors' \in {AfterLoad(cfg), AfterReload(cfg)}
    /\ loadEnv' = <<environment>>
    /\ UNCHANGED <<environment, ended, C, Security, changes, bootEnv>>

\* They fail: on the environment, or on the verdict of a validator that is there
\* from now on.
LoadRefused ==
    /\ ~LoadAccepted(environment, ValidatorFor(environment) = "strict")
    /\ IF Parses(environment) THEN Validates(environment)
                              ELSE UNCHANGED <<validator, firstValidated>>
    /\ UNCHANGED <<environment, ended, C, Security, globalConfig, monitors, changes,
                   bootEnv, loadEnv>>

Setenv ==
    /\ changes < MaxChanges
    /\ environment' \in Later
    /\ changes' = changes + 1
    /\ UNCHANGED <<ended, C, Security, globalConfig, validator, monitors, bootEnv, loadEnv,
                   firstValidated>>

Next ==
    /\ ~ended
    /\ \/ InitializeConfig \/ InitializeFails \/ Load \/ LoadRefused \/ Setenv
       \/ StartHealthMonitoring \/ StopHealthMonitoring \/ Round

Spec == Init /\ [][Next]_vars

-----------------------------------------------------------------------------
\* The configuration in force was loaded, rather than booted.
Loaded == loadEnv # <<>> /\ globalConfig = <<LoadedConfig(loadEnv[1])>>

\* A configuration loaded from the variables the process booted with is the one
\* the boot made of them, field by field, but for what one reading alone takes
\* from its variable: the timeouts, whether ZMQ is enabled (ZMQ_ADDRESS at boot,
\* ZMQ_ENABLED at a load), the environment, and METRIC_PORT where it contradicts
\* METRICS_PORT.  FETCH_INTERVAL cannot differ: a value one reading takes, the
\* other refuses (InitializeConfig, LoadConfig).
LoadAgreesWithBoot ==
    Loaded /\ bootEnv # <<>> /\ loadEnv[1] \in {bootEnv[1], WithAlias(bootEnv[1])} =>
        LET env == bootEnv[1] IN
        globalConfig[1] =
            [BootConfig(C[1], Security[1]) EXCEPT
                !.rpc.timeout = env.rpcTimeout,
                !.zmq.enabled = env.zmqEnabled, !.zmq.timeout = env.zmqTimeout,
                !.app.environment = env.environment,
                !.metrics.port = IF env.metricPort \in {<<>>, env.metricsPort} THEN @
                                 ELSE OrElse(env.metricsPort, DefaultPort)]

\* A configuration for production that was loaded has TLS, authentication and
\* quiet logs, unless the first configuration ever validated, even one that was
\* refused, was not for production: its validator judges all later ones
\* (ValidateConfig).
ProductionHardened ==
    Loaded /\ loadEnv[1].environment = "production" /\ firstValidated = <<"production">> =>
        /\ globalConfig[1].security.tls /\ globalConfig[1].security.auth
        /\ globalConfig[1].app.logLevel \notin {"debug", "trace"}

\* IsConfigHealthy does not call a configuration for production healthy that has
\* no TLS or no authentication, whatever validator let it in, once its monitor
\* has run a round; a monitor just made says healthy of anything (IsHealthy,
\* checkConfigValidation).
HealthyMeansHardened ==
    IsConfigHealthy /\ Current.verdict # "unknown"
    /\ globalConfig[1].app.environment = "production" =>
        globalConfig[1].security.tls /\ globalConfig[1].security.auth

\* A monitor that runs when a load replaces it runs on, and nothing ever stops it:
\* neither the load, nor ReloadConfig, which says it stops the old monitor
\* (config.go:251) and stops the new one, nor a later StopHealthMonitoring.
ReplacedLoopsRunOn ==
    [][\A i \in 1..Len(monitors) :
          monitors[i].running /\ i # Len(monitors') => monitors'[i].running]_vars

\* The process ends only at a boot that fails, or when one and the same monitor
\* has been started twice: stopping a stopped monitor, or stopping after a load,
\* closes no channel a second time (Stop; "Stop again - should not panic",
\* health_test.go:70).
EndsOnlyByBootOrRestart ==
    ended => (C = <<>> /\ ~BootAccepted(environment)) \/ Current.starts = 2
=============================================================================
