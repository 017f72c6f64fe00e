------------------------- MODULE ConfigReloadProofs -------------------------
(***************************************************************************)
(* Theorems about Settings.tla and ConfigReload.tla, for every environment *)
(* and every number of reloads.                                            *)
(***************************************************************************)
EXTENDS ConfigReload, SequenceTheorems, TLAPS

\* A strict validator lets nothing in that a lenient one keeps out.
LEMMA StrictIsStricter ==
    ASSUME NEW cfg, Valid(cfg, TRUE)
    PROVE  Valid(cfg, FALSE)
<1>1. ProductionErrors(cfg, FALSE) = {}
  BY DEF ProductionErrors
<1>2. QED
  BY <1>1 DEF Valid, Errors

\* What a strict validator lets in for production is hardened.
LEMMA StrictMeansHardened ==
    ASSUME NEW cfg, Valid(cfg, TRUE), cfg.app.environment = "production"
    PROVE  cfg.security.tls /\ cfg.security.auth
           /\ cfg.app.logLevel \notin {"debug", "trace"}
<1>1. ProductionErrors(cfg, TRUE) = {}
  BY DEF Valid, Errors
<1>2. /\ If(~cfg.security.tls, "PRODUCTION_TLS") = {}
      /\ If(~cfg.security.auth, "PRODUCTION_AUTH") = {}
      /\ If(cfg.app.logLevel \in {"debug", "trace"}, "PRODUCTION_LOG_LEVEL") = {}
  BY <1>1 DEF ProductionErrors
<1>3. QED
  BY <1>2 DEF If

\* The two readings of the environment take few values in common: an interval
\* that is not given, and an address with a scheme, a user and a password, even
\* where a cookie file makes the last two useless.
THEOREM CommonGround ==
    ASSUME NEW env, NEW strict \in BOOLEAN,
           env.interval.n \in Int,
           BootAccepted(env), LoadAccepted(env, strict)
    PROVE  /\ env.interval.text = "unset"
           /\ env.address.parses /\ env.address.scheme \in {"http", "https"}
           /\ env.user # 0 /\ env.pass # 0
<1> DEFINE cfg == LoadedConfig(env)
<1>1. RPCErrors(cfg.rpc) = {} /\ MetricsErrors(cfg.metrics) = {}
  BY DEF LoadAccepted, Valid, Errors
<1>2. env.interval.text = "unset"
  <2>1. ReadsSeconds(env.interval) /\ ReadsDuration(env.interval)
    BY DEF BootAccepted, LegacyAccepted, LoadAccepted, Parses
  <2>2. ~(cfg.metrics.interval < Second)
    BY <1>1 DEF MetricsErrors, If
  <2>3. cfg.metrics.interval = DurationRead(env.interval)
    BY DEF LoadedConfig
  <2>4. QED
    BY <2>1, <2>2, <2>3 DEF ReadsSeconds, ReadsDuration, DurationRead, Second
<1>3. cfg.rpc.address = env.address /\ cfg.rpc.user = env.user /\ cfg.rpc.pass = env.pass
  BY DEF LoadedConfig
<1>4. ~(env.address = NoAddress \/ ~env.address.parses)
  BY <1>1, <1>3 DEF RPCErrors
<1>5. /\ If(env.address.scheme \notin {"http", "https"} \/ ~env.address.host
              \/ (env.address.port # 0 /\ ~IsPort(env.address.port)), "RPC_ADDRESS") = {}
      /\ If(env.user = 0, "RPC_USER") = {} /\ If(env.pass = 0, "RPC_PASS") = {}
  BY <1>1, <1>3, <1>4 DEF RPCErrors
<1>6. QED
  BY <1>2, <1>4, <1>5 DEF If
-----------------------------------------------------------------------------
\* The invariants of the configuration, which the monitors do not touch.

\* The validator is made by the first validation, stays, and has let in whatever
\* was loaded: what it calls good is kept as long as it is there.
HardInv ==
    /\ validator = "nil" <=> firstValidated = <<>>
    /\ firstValidated = <<"production">> => validator = "strict"
    /\ loadEnv # <<>> => validator # "nil"
    /\ validator = "strict" /\ loadEnv # <<>> => Valid(LoadedConfig(loadEnv[1]), TRUE)

LEMMA HardStep == HardInv /\ [Next]_vars => HardInv'
<1> SUFFICES ASSUME HardInv, [Next]_vars PROVE HardInv'
  OBVIOUS
<1>0. UNCHANGED <<validator, firstValidated, loadEnv>> => HardInv'
  BY DEF HardInv
<1>1. CASE Load
  <2>1. /\ validator' = ValidatorFor(environment)
        /\ firstValidated' = IF firstValidated = <<>> THEN <<environment.environment>>
                             ELSE firstValidated
        /\ loadEnv' = <<environment>>
        /\ LoadAccepted(environment, ValidatorFor(environment) = "strict")
    BY <1>1 DEF Load, Validates
  <2>2. validator' = "strict" => Valid(LoadedConfig(environment), TRUE)
    BY <2>1 DEF LoadAccepted
  <2>3. loadEnv'[1] = environment /\ loadEnv' # <<>>
    BY <2>1
  <2>4. QED
    BY <2>1, <2>2, <2>3 DEF ValidatorFor, HardInv
<1>2. CASE LoadRefused
  <2>1. CASE Parses(environment)
    <3>1. /\ validator' = ValidatorFor(environment) /\ loadEnv' = loadEnv
          /\ firstValidated' = IF firstValidated = <<>> THEN <<environment.environment>>
                               ELSE firstValidated
      BY <1>2, <2>1 DEF LoadRefused, Validates
    <3>2. QED
      BY <3>1 DEF ValidatorFor, HardInv
  <2>2. CASE ~Parses(environment)
    BY <1>0, <1>2, <2>2 DEF LoadRefused
  <2>3. QED
    BY <2>1, <2>2
<1>3. CASE InitializeConfig \/ InitializeFails \/ Setenv
  BY <1>0, <1>3 DEF InitializeConfig, InitializeFails, Setenv, history
<1>4. CASE StartHealthMonitoring \/ StopHealthMonitoring \/ Round
  BY <1>0, <1>4 DEF StartHealthMonitoring, StopHealthMonitoring, Round, history
<1>5. CASE UNCHANGED vars
  BY <1>0, <1>5 DEF vars, history
<1>6. QED
  BY <1>1, <1>2, <1>3, <1>4, <1>5 DEF Next

\* A configuration for production that is loaded is hardened, as long as the first
\* one ever validated was for production: the argument is about the validator
\* that stays, not about the load.
THEOREM LoadedProductionHardened == Spec => []ProductionHardened
<1>1. Init => HardInv
  BY DEF Init, HardInv
<1>2. HardInv => ProductionHardened
  <2> SUFFICES ASSUME HardInv, Loaded, loadEnv[1].environment = "production",
                      firstValidated = <<"production">>
               PROVE  /\ globalConfig[1].security.tls /\ globalConfig[1].security.auth
                      /\ globalConfig[1].app.logLevel \notin {"debug", "trace"}
    BY DEF ProductionHardened
  <2>1. globalConfig[1] = LoadedConfig(loadEnv[1]) /\ loadEnv # <<>>
    BY DEF Loaded
  <2>2. Valid(LoadedConfig(loadEnv[1]), TRUE)
    BY <2>1 DEF HardInv
  <2>3. LoadedConfig(loadEnv[1]).app.environment = "production"
    BY DEF LoadedConfig
  <2>4. QED
    BY <2>1, <2>2, <2>3, StrictMeansHardened
<1>3. QED
  BY <1>1, <1>2, HardStep, PTL DEF Spec

\* What InitializeConfig read stays what the process serves from, and what was
\* loaded is something LoadConfig accepts.
ReadInv ==
    /\ C = <<>> <=> bootEnv = <<>>
    /\ C = <<>> => environment \in Environments \cup Later
    /\ bootEnv # <<>> =>
          /\ bootEnv[1] \in EnvVars /\ BootAccepted(bootEnv[1])
          /\ C = <<LegacyRead(bootEnv[1])>> /\ Security = <<bootEnv[1].security>>
    /\ loadEnv # <<>> => \E strict \in BOOLEAN : LoadAccepted(loadEnv[1], strict)

LEMMA ReadStep == ReadInv /\ [Next]_vars => ReadInv'
<1> SUFFICES ASSUME ReadInv, [Next]_vars PROVE ReadInv'
  OBVIOUS
<1> USE DEF ReadInv, history
<1>1. CASE InitializeConfig
  <2>1. /\ C' = <<LegacyRead(environment)>> /\ Security' = <<environment.security>>
        /\ bootEnv' = <<environment>> /\ loadEnv' = loadEnv
        /\ BootAccepted(environment)
    BY <1>1 DEF InitializeConfig
  <2>2. environment \in EnvVars
    BY <1>1, ReloadAssumption DEF InitializeConfig
  <2>3. C' # <<>> /\ bootEnv' # <<>> /\ bootEnv'[1] = environment
    BY <2>1
  <2>4. QED
    BY <2>1, <2>2, <2>3
<1>2. CASE Load
  <2>1. /\ loadEnv' = <<environment>>
        /\ LoadAccepted(environment, ValidatorFor(environment) = "strict")
        /\ UNCHANGED <<environment, C, Security, bootEnv>>
    BY <1>2 DEF Load
  <2>2. \E strict \in BOOLEAN : LoadAccepted(loadEnv'[1], strict)
    BY <2>1
  <2>3. QED
    BY <2>1, <2>2
<1>3. CASE Setenv
  BY <1>3 DEF Setenv
<1>4. CASE LoadRefused \/ InitializeFails
  BY <1>4 DEF LoadRefused, InitializeFails
<1>5. CASE StartHealthMonitoring \/ StopHealthMonitoring \/ Round
  BY <1>5 DEF StartHealthMonitoring, StopHealthMonitoring, Round
<1>6. CASE UNCHANGED vars
  BY <1>6 DEF vars
<1>7. QED
  BY <1>1, <1>2, <1>3, <1>4, <1>5, <1>6 DEF Next

\* The alias of the port changes nothing else.
LEMMA AliasKeepsTheRest ==
    ASSUME NEW env \in EnvVars
    PROVE  LoadedConfig(WithAlias(env)) = LoadedConfig(env)
<1> DEFINE new == WithAlias(env)
<1>1. /\ new.address = env.address /\ new.user = env.user /\ new.pass = env.pass
      /\ new.cookie = env.cookie /\ new.rpcTimeout = env.rpcTimeout
      /\ new.zmqAddress = env.zmqAddress /\ new.zmqEnabled = env.zmqEnabled
      /\ new.zmqTimeout = env.zmqTimeout /\ new.interval = env.interval
      /\ new.metricsPort = env.metricsPort /\ new.path = env.path
      /\ new.logLevel = env.logLevel /\ new.environment = env.environment
      /\ new.security = env.security
  BY DEF WithAlias, EnvVars
<1>2. QED
  BY <1>1 DEF LoadedConfig, DurationRead

\* What LoadConfig makes of variables that InitializeConfig also takes is what
\* InitializeConfig makes of them, but for what one of them alone reads.
LEMMA OneMeaning ==
    ASSUME NEW env \in EnvVars, NEW strict \in BOOLEAN,
           BootAccepted(env), LoadAccepted(env, strict)
    PROVE  LoadedConfig(env) =
              [BootConfig(LegacyRead(env), env.security) EXCEPT
                  !.rpc.timeout = env.rpcTimeout,
                  !.zmq.enabled = env.zmqEnabled, !.zmq.timeout = env.zmqTimeout,
                  !.app.environment = env.environment,
                  !.metrics.port = IF env.metricPort \in {<<>>, env.metricsPort} THEN @
                                   ELSE OrElse(env.metricsPort, DefaultPort)]
<1> DEFINE boot == BootConfig(LegacyRead(env), env.security)
           loaded == LoadedConfig(env)
           port == IF env.metricPort \in {<<>>, env.metricsPort} THEN boot.metrics.port
                   ELSE OrElse(env.metricsPort, DefaultPort)
<1>1. SecondsRead(env.interval) * Second = DurationRead(env.interval)
  <2>1. env.interval.text = "unset"
    BY CommonGround DEF EnvVars
  <2>2. QED
    BY <2>1 DEF DurationRead, SecondsRead, DefaultInterval, Second
<1>2. port = OrElse(env.metricsPort, DefaultPort)
  <2>1. CASE env.metricPort \in {<<>>, env.metricsPort}
    <3>1. WithAlias(env).metricPort = env.metricsPort
      BY <2>1 DEF WithAlias, EnvVars
    <3>2. QED
      BY <2>1, <3>1 DEF BootConfig, LegacyRead
  <2>2. QED
    BY <2>1
<1>3. loaded.rpc = [boot.rpc EXCEPT !.timeout = env.rpcTimeout]
  BY DEF LoadedConfig, BootConfig, LegacyRead
<1>4. loaded.zmq = [boot.zmq EXCEPT !.enabled = env.zmqEnabled, !.timeout = env.zmqTimeout]
  <2>1. PICK given : boot.zmq = [enabled |-> given, address |-> env.zmqAddress,
                                 timeout |-> 10 * Second]
    BY Zenon DEF BootConfig, LegacyRead
  <2>2. loaded.zmq = [enabled |-> env.zmqEnabled, address |-> env.zmqAddress,
                      timeout |-> env.zmqTimeout]
    BY DEF LoadedConfig
  <2> HIDE DEF boot, loaded
  <2> DEFINE enabled == [boot.zmq EXCEPT !.enabled = env.zmqEnabled]
  <2>3. enabled = [enabled |-> env.zmqEnabled, address |-> env.zmqAddress,
                   timeout |-> 10 * Second]
    BY <2>1
  <2>4. [boot.zmq EXCEPT !.enabled = env.zmqEnabled, !.timeout = env.zmqTimeout]
           = [enabled EXCEPT !.timeout = env.zmqTimeout]
    BY <2>1
  <2> HIDE DEF enabled
  <2>5. loaded.zmq = [enabled EXCEPT !.timeout = env.zmqTimeout]
    BY <2>2, <2>3
  <2>6. QED
    BY <2>4, <2>5
<1>5. loaded.metrics = [boot.metrics EXCEPT !.port = port]
  <2>1. boot.metrics = [port |-> boot.metrics.port, path |-> env.path,
                        interval |-> DurationRead(env.interval)]
    BY <1>1 DEF BootConfig, LegacyRead
  <2>2. loaded.metrics = [port |-> port, path |-> env.path,
                          interval |-> DurationRead(env.interval)]
    BY <1>2 DEF LoadedConfig
  <2> HIDE DEF boot, loaded, port
  <2>3. QED
    BY <2>1, <2>2
<1>6. loaded.security = boot.security
      /\ loaded.app = [boot.app EXCEPT !.environment = env.environment]
  BY DEF LoadedConfig, BootConfig, LegacyRead
<1>7. /\ loaded = [rpc |-> loaded.rpc, zmq |-> loaded.zmq, metrics |-> loaded.metrics,
                   security |-> loaded.security, app |-> loaded.app]
      /\ boot = [rpc |-> boot.rpc, zmq |-> boot.zmq, metrics |-> boot.metrics,
                 security |-> boot.security, app |-> boot.app]
  BY DEF LoadedConfig, BootConfig
<1> HIDE DEF boot, loaded
<1>8. loaded = [boot EXCEPT !.rpc.timeout = env.rpcTimeout,
                            !.zmq.enabled = env.zmqEnabled, !.zmq.timeout = env.zmqTimeout,
                            !.app.environment = env.environment, !.metrics.port = port]
  BY <1>3, <1>4, <1>5, <1>6, <1>7
<1>9. QED
  BY <1>8 DEF boot, loaded

\* The two readings of the environment never disagree on what both accept, but
\* where the code takes a field from one of them alone.
THEOREM ReadingsAgree == Spec => []LoadAgreesWithBoot
<1>1. Init => ReadInv
  BY DEF Init, ReadInv
<1>2. ReadInv => LoadAgreesWithBoot
  <2> SUFFICES ASSUME ReadInv, Loaded, bootEnv # <<>>,
                      loadEnv[1] \in {bootEnv[1], WithAlias(bootEnv[1])}
               PROVE  LoadAgreesWithBoot
    BY DEF LoadAgreesWithBoot
  <2> DEFINE env == bootEnv[1]
  <2>1. /\ env \in EnvVars /\ BootAccepted(env)
        /\ C[1] = LegacyRead(env) /\ Security[1] = env.security
        /\ globalConfig[1] = LoadedConfig(loadEnv[1])
    BY DEF ReadInv, Loaded
  <2>2. PICK strict \in BOOLEAN : LoadAccepted(loadEnv[1], strict)
    BY DEF ReadInv, Loaded
  <2>3. LoadedConfig(loadEnv[1]) = LoadedConfig(env)
    BY <2>1, AliasKeepsTheRest
  <2>4. LoadAccepted(env, strict)
    BY <2>1, <2>2, <2>3 DEF LoadAccepted, Parses, WithAlias, EnvVars
  <2>5. QED
    BY <2>1, <2>3, <2>4, OneMeaning DEF LoadAgreesWithBoot
<1>3. QED
  BY <1>1, <1>2, ReadStep, PTL DEF Spec
-----------------------------------------------------------------------------
\* The monitors.

Configs == {LoadedConfig(e) : e \in Possible}
           \cup {BootConfig(LegacyRead(e), e.security) : e \in Possible}
Monitor == [config : Configs, running : BOOLEAN, closed : BOOLEAN,
            verdict : {"unknown", "healthy", "unhealthy"}, starts : 0..2]

\* What the operators do to the last monitor of a sequence.
LEMMA UpdateProperties ==
    ASSUME NEW ms \in Seq(Monitor), ms # <<>>, NEW m \in Monitor
    PROVE  /\ Update(ms, m) \in Seq(Monitor) /\ Len(Update(ms, m)) = Len(ms)
           /\ Len(ms) \in 1..Len(ms) /\ ms[Len(ms)] \in Monitor
           /\ \A i \in 1..Len(ms) : Update(ms, m)[i] = IF i = Len(ms) THEN m ELSE ms[i]
<1>1. Len(ms) \in 1..Len(ms)
  BY LenProperties, EmptySeq
<1>2. /\ Update(ms, m) \in Seq(Monitor) /\ Len(Update(ms, m)) = Len(ms)
      /\ \A i \in 1..Len(ms) : Update(ms, m)[i] = IF i = Len(ms) THEN m ELSE ms[i]
  BY <1>1, ExceptSeq DEF Update
<1>3. ms[Len(ms)] \in Monitor
  BY <1>1, ElementOfSeq
<1>4. QED
  BY <1>1, <1>2, <1>3

LEMMA RunningIsMonitor ==
    ASSUME NEW m \in Monitor
    PROVE  Running(m) \in Monitor
<1> DEFINE starts == IF m.starts = 0 THEN 1 ELSE 2
<1>1. Running(m) = [m EXCEPT !.running = TRUE, !.verdict = "unknown", !.starts = starts]
  BY Zenon DEF Running
<1>2. starts \in 0..2
  OBVIOUS
<1> HIDE DEF starts
<1>3. [m EXCEPT !.running = TRUE, !.verdict = "unknown", !.starts = starts] \in Monitor
  BY <1>2 DEF Monitor
<1>4. QED
  BY <1>1, <1>3

LEMMA StartedProperties ==
    ASSUME NEW ms \in Seq(Monitor), ms # <<>>
    PROVE  /\ Started(ms) \in Seq(Monitor) /\ Len(Started(ms)) = Len(ms)
           /\ \A i \in 1..Len(ms) :
                 Started(ms)[i] = IF i = Len(ms) /\ ~ms[i].running THEN Running(ms[i])
                                  ELSE ms[i]
<1>1. Len(ms) \in 1..Len(ms) /\ ms[Len(ms)] \in Monitor
  BY UpdateProperties, LenProperties, EmptySeq, ElementOfSeq
<1>2. Running(ms[Len(ms)]) \in Monitor
  BY <1>1, RunningIsMonitor
<1>3. CASE ~ms[Len(ms)].running
  <2> DEFINE new == Running(ms[Len(ms)])
  <2>1. Started(ms) = Update(ms, new)
    BY <1>3 DEF Started
  <2> HIDE DEF new
  <2>2. /\ Update(ms, new) \in Seq(Monitor) /\ Len(Update(ms, new)) = Len(ms)
        /\ \A i \in 1..Len(ms) : Update(ms, new)[i] = IF i = Len(ms) THEN new ELSE ms[i]
    BY <1>2, UpdateProperties DEF new
  <2>3. QED
    BY <1>1, <1>3, <2>1, <2>2 DEF new
<1>4. CASE ms[Len(ms)].running
  BY <1>1, <1>4 DEF Started
<1>5. QED
  BY <1>3, <1>4

LEMMA StoppedProperties ==
    ASSUME NEW ms \in Seq(Monitor), ms # <<>>
    PROVE  /\ Stopped(ms) \in Seq(Monitor) /\ Len(Stopped(ms)) = Len(ms)
           /\ \A i \in 1..Len(ms) :
                 Stopped(ms)[i] = IF i = Len(ms) /\ ms[i].running
                                  THEN [ms[i] EXCEPT !.closed = TRUE, !.running = FALSE]
                                  ELSE ms[i]
<1>1. Len(ms) \in 1..Len(ms) /\ ms[Len(ms)] \in Monitor
  BY UpdateProperties, LenProperties, EmptySeq, ElementOfSeq
<1>2. [ms[Len(ms)] EXCEPT !.closed = TRUE, !.running = FALSE] \in Monitor
  BY <1>1 DEF Monitor
<1>3. CASE ms[Len(ms)].running
  <2> DEFINE new == [ms[Len(ms)] EXCEPT !.closed = TRUE, !.running = FALSE]
  <2>1. Stopped(ms) = Update(ms, new)
    BY <1>3 DEF Stopped
  <2> HIDE DEF new
  <2>2. /\ Update(ms, new) \in Seq(Monitor) /\ Len(Update(ms, new)) = Len(ms)
        /\ \A i \in 1..Len(ms) : Update(ms, new)[i] = IF i = Len(ms) THEN new ELSE ms[i]
    BY <1>2, UpdateProperties DEF new
  <2>3. QED
    BY <1>1, <1>3, <2>1, <2>2 DEF new
<1>4. CASE ~ms[Len(ms)].running
  BY <1>1, <1>4 DEF Stopped
<1>5. QED
  BY <1>3, <1>4

LEMMA NewMonitorProperties ==
    ASSUME NEW ms \in Seq(Monitor), NEW cfg \in Configs
    PROVE  LET new == Append(ms, NewMonitor(cfg)) IN
           /\ NewMonitor(cfg) \in Monitor
           /\ new \in Seq(Monitor) /\ new # <<>> /\ Len(new) = Len(ms) + 1
           /\ \A i \in 1..Len(ms) : new[i] = ms[i]
           /\ new[Len(new)] = NewMonitor(cfg)
           /\ Stopped(new) = new
<1>1. NewMonitor(cfg) \in Monitor
  BY DEF NewMonitor, Monitor
<1>2. QED
  BY <1>1, AppendProperties DEF Stopped, NewMonitor
\* The environment and the monitors keep their types, and METRIC_PORT is set by
\* InitializeConfig alone.
SeqInv ==
    /\ environment \in Possible
    /\ C = <<>> => environment \in Environments \cup Later
    /\ monitors \in Seq(Monitor) /\ Len(monitors) <= MaxMonitors

LEMMA SeqStep == SeqInv /\ [Next]_vars => SeqInv'
<1> SUFFICES ASSUME SeqInv, [Next]_vars PROVE SeqInv'
  OBVIOUS
<1> USE DEF SeqInv
<1>0. Len(monitors) \in Nat
  BY LenProperties
<1>1. CASE InitializeConfig
  <2>1. /\ environment' = WithAlias(environment) /\ C' # <<>>
        /\ environment \in Environments \cup Later
    BY <1>1 DEF InitializeConfig
  <2>2. environment' \in Possible
    BY <2>1 DEF Possible
  <2>3. BootConfig(LegacyRead(environment), environment.security) \in Configs
    BY DEF Configs
  <2>4. monitors' = Append(monitors, NewMonitor(BootConfig(LegacyRead(environment),
                                                           environment.security)))
        /\ Len(monitors) < MaxMonitors
    BY <1>1 DEF InitializeConfig
  <2>5. QED
    BY <1>0, <2>1, <2>2, <2>3, <2>4, NewMonitorProperties, ReloadAssumption
<1>2. CASE Load
  <2>1. LoadedConfig(environment) \in Configs
    BY DEF Configs
  <2>2. /\ monitors' = Append(monitors, NewMonitor(LoadedConfig(environment)))
        /\ Len(monitors) < MaxMonitors /\ UNCHANGED <<environment, C>>
    BY <1>2, <2>1, NewMonitorProperties DEF Load, AfterLoad, AfterReload
  <2>3. QED
    BY <1>0, <2>1, <2>2, NewMonitorProperties, ReloadAssumption
<1>3. CASE StartHealthMonitoring
  BY <1>3, StartedProperties DEF StartHealthMonitoring
<1>4. CASE StopHealthMonitoring
  BY <1>4, StoppedProperties DEF StopHealthMonitoring
<1>5. CASE Round
  <2>1. monitors # <<>> /\ Current \in Monitor
    BY <1>5, LenProperties, EmptySeq, ElementOfSeq DEF Round, Current
  <2>2. PICK verdict \in {"healthy", "unhealthy"} :
           monitors' = Update(monitors, [Current EXCEPT !.verdict = verdict])
    BY <1>5 DEF Round
  <2>3. [Current EXCEPT !.verdict = verdict] \in Monitor
    BY <2>1 DEF Monitor
  <2>4. QED
    BY <1>5, <2>1, <2>2, <2>3, UpdateProperties DEF Round
<1>6. CASE InitializeFails \/ LoadRefused \/ UNCHANGED vars
  BY <1>6 DEF InitializeFails, LoadRefused, vars
<1>7. CASE Setenv
  BY <1>7 DEF Setenv, Possible
<1>8. QED
  BY <1>1, <1>2, <1>3, <1>4, <1>5, <1>6, <1>7 DEF Next

\* What the monitors of the past and the last one are like: a channel is closed
\* only by a stop that follows a start, and the last one's verdict is about the
\* configuration in force.
MonitorInv ==
    /\ \A i \in 1..Len(monitors) :
          /\ monitors[i].running \/ monitors[i].closed => monitors[i].starts # 0
          /\ monitors[i].running /\ monitors[i].closed => monitors[i].starts = 2
    /\ monitors # <<>> =>
          /\ globalConfig = <<Current.config>>
          /\ Current.verdict = "healthy" => ConfigCheck(Current.config) # "unhealthy"
    /\ ended => (C = <<>> /\ ~BootAccepted(environment))
                 \/ (monitors # <<>> /\ Current.starts = 2)

\* A step that puts a new monitor with cfg last.
LEMMA MonitorAdded ==
    ASSUME SeqInv, MonitorInv, ~ended, ~ended', NEW cfg \in Configs,
           monitors' = Append(monitors, NewMonitor(cfg)), globalConfig' = <<cfg>>
    PROVE  MonitorInv'
<1>1. /\ monitors \in Seq(Monitor) /\ Len(monitors) \in Nat
      /\ monitors = <<>> <=> Len(monitors) = 0
  BY LenProperties, EmptySeq DEF SeqInv
<1>2. /\ monitors' # <<>> /\ Len(monitors') = Len(monitors) + 1
      /\ \A i \in 1..Len(monitors) : monitors'[i] = monitors[i]
      /\ Current' = NewMonitor(cfg)
  BY <1>1, NewMonitorProperties DEF Current
<1>3. ASSUME NEW i \in 1..Len(monitors')
      PROVE  /\ monitors'[i].running \/ monitors'[i].closed => monitors'[i].starts # 0
             /\ monitors'[i].running /\ monitors'[i].closed => monitors'[i].starts = 2
  <2>1. CASE i \in 1..Len(monitors)
    <3>1. /\ monitors[i].running \/ monitors[i].closed => monitors[i].starts # 0
          /\ monitors[i].running /\ monitors[i].closed => monitors[i].starts = 2
      BY <2>1 DEF MonitorInv
    <3>2. monitors'[i] = monitors[i]
      BY <1>2, <2>1
    <3>3. QED
      BY <3>1, <3>2, Zenon
  <2>2. CASE i = Len(monitors')
    <3>1. monitors'[i] = NewMonitor(cfg)
      BY <1>2, <2>2 DEF Current
    <3>2. ~NewMonitor(cfg).running /\ ~NewMonitor(cfg).closed
      BY Zenon DEF NewMonitor
    <3>3. QED
      BY <2>2, <3>1, <3>2, Zenon
  <2>3. QED
    BY <1>1, <1>2, <2>1, <2>2
<1>4. QED
  BY <1>2, <1>3 DEF MonitorInv, NewMonitor
\* A step that changes the last monitor alone: what must hold of it afterwards.
LEMMA LastChanged ==
    ASSUME SeqInv, MonitorInv, monitors # <<>>, NEW m \in Monitor,
           monitors' \in Seq(Monitor), Len(monitors') = Len(monitors),
           \A i \in 1..Len(monitors) :
              monitors'[i] = IF i = Len(monitors) THEN m ELSE monitors[i],
           globalConfig' = globalConfig,
           m.config = Current.config,
           m.running \/ m.closed => m.starts # 0,
           m.running /\ m.closed => m.starts = 2,
           m.verdict = "healthy" => ConfigCheck(m.config) # "unhealthy",
           ended' => m.starts = 2
    PROVE  MonitorInv'
<1>1. /\ Len(monitors) \in 1..Len(monitors) /\ monitors' # <<>>
      /\ Current' = m
  BY LenProperties, EmptySeq DEF SeqInv, Current
<1>2. ASSUME NEW i \in 1..Len(monitors')
      PROVE  /\ monitors'[i].running \/ monitors'[i].closed => monitors'[i].starts # 0
             /\ monitors'[i].running /\ monitors'[i].closed => monitors'[i].starts = 2
  <2>1. CASE i = Len(monitors)
    <3>1. monitors'[i] = m
      BY <2>1
    <3>2. QED
      BY <3>1, Zenon
  <2>2. CASE i # Len(monitors)
    <3>1. monitors'[i] = monitors[i] /\ i \in 1..Len(monitors)
      BY <2>2
    <3>2. /\ monitors[i].running \/ monitors[i].closed => monitors[i].starts # 0
          /\ monitors[i].running /\ monitors[i].closed => monitors[i].starts = 2
      BY <3>1 DEF MonitorInv
    <3>3. QED
      BY <3>1, <3>2, Zenon
  <2>3. QED
    BY <2>1, <2>2
<1>3. globalConfig' = <<Current'.config>>
  BY <1>1 DEF MonitorInv
<1>4. QED
  BY <1>1, <1>2, <1>3 DEF MonitorInv

LEMMA MonitorStep == SeqInv /\ SeqInv' /\ MonitorInv /\ [Next]_vars => MonitorInv'
<1> SUFFICES ASSUME SeqInv, SeqInv', MonitorInv, [Next]_vars PROVE MonitorInv'
  OBVIOUS
<1>0. /\ monitors \in Seq(Monitor)
      /\ monitors # <<>> => Len(monitors) \in 1..Len(monitors) /\ Current \in Monitor
  BY LenProperties, EmptySeq, ElementOfSeq DEF SeqInv, Current
<1>1. CASE ~ended /\ InitializeConfig
  <2>1. BootConfig(LegacyRead(environment), environment.security) \in Configs
    BY DEF Configs, SeqInv
  <2>2. QED
    BY <1>1, <2>1, MonitorAdded DEF InitializeConfig
<1>2. CASE ~ended /\ Load
  <2>1. LoadedConfig(environment) \in Configs
    BY DEF Configs, SeqInv
  <2>2. monitors' = Append(monitors, NewMonitor(LoadedConfig(environment)))
    BY <1>0, <1>2, <2>1, NewMonitorProperties DEF Load, AfterLoad, AfterReload
  <2>3. QED
    BY <1>2, <2>1, <2>2, MonitorAdded DEF Load
<1>3. CASE ~ended /\ StartHealthMonitoring
  <2> DEFINE m == IF Current.running THEN Current ELSE Running(Current)
  <2>1. monitors # <<>> /\ m \in Monitor
    BY <1>0, <1>3, RunningIsMonitor DEF StartHealthMonitoring
  <2>2. /\ monitors' \in Seq(Monitor) /\ Len(monitors') = Len(monitors)
        /\ \A i \in 1..Len(monitors) :
              monitors'[i] = IF i = Len(monitors) THEN m ELSE monitors[i]
    BY <1>0, <1>3, <2>1, StartedProperties DEF StartHealthMonitoring, Current
  <2>3. /\ Current.running \/ Current.closed => Current.starts # 0
        /\ Current.running /\ Current.closed => Current.starts = 2
        /\ Current.verdict = "healthy" => ConfigCheck(Current.config) # "unhealthy"
    BY <1>0, <2>1 DEF MonitorInv, Current
  <2>4. /\ Running(Current).config = Current.config
        /\ Running(Current).closed = Current.closed
        /\ Running(Current).verdict = "unknown"
        /\ Running(Current).starts = IF Current.starts = 0 THEN 1 ELSE 2
    BY <1>0, <2>1 DEF Running, Monitor
  <2>5. /\ m.config = Current.config
        /\ m.running \/ m.closed => m.starts # 0
        /\ m.running /\ m.closed => m.starts = 2
        /\ m.verdict = "healthy" => ConfigCheck(m.config) # "unhealthy"
    BY <2>3, <2>4
  <2>6. ~ended' /\ globalConfig' = globalConfig
    BY <1>3 DEF StartHealthMonitoring, history
  <2> HIDE DEF m
  <2>7. QED
    BY <2>1, <2>2, <2>5, <2>6, LastChanged
<1>4. CASE ~ended /\ StopHealthMonitoring
  <2> DEFINE m == IF Current.running
                  THEN [Current EXCEPT !.closed = TRUE, !.running = FALSE] ELSE Current
  <2>1. monitors # <<>> /\ m \in Monitor
    BY <1>0, <1>4 DEF StopHealthMonitoring, Monitor
  <2>2. /\ monitors' \in Seq(Monitor) /\ Len(monitors') = Len(monitors)
        /\ \A i \in 1..Len(monitors) :
              monitors'[i] = IF i = Len(monitors) THEN m ELSE monitors[i]
    BY <1>0, <1>4, <2>1, StoppedProperties DEF StopHealthMonitoring, Current
  <2>3. /\ Current.running \/ Current.closed => Current.starts # 0
        /\ Current.running /\ Current.closed => Current.starts = 2
        /\ Current.verdict = "healthy" => ConfigCheck(Current.config) # "unhealthy"
    BY <1>0, <2>1 DEF MonitorInv, Current
  <2>4. /\ m.config = Current.config /\ m.verdict = Current.verdict
        /\ m.starts = Current.starts
        /\ Current.running => ~m.running
        /\ ~Current.running => m = Current
    BY <1>0, <2>1 DEF Monitor
  <2>5. ended' => Current.running /\ Current.closed
    BY <1>4 DEF StopHealthMonitoring
  <2>6. globalConfig' = globalConfig
    BY <1>4 DEF StopHealthMonitoring, history
  <2> HIDE DEF m
  <2>7. /\ m.running \/ m.closed => m.starts # 0
        /\ m.running /\ m.closed => m.starts = 2
        /\ m.verdict = "healthy" => ConfigCheck(m.config) # "unhealthy"
        /\ ended' => m.starts = 2
    BY <2>3, <2>4, <2>5
  <2>8. QED
    BY <2>1, <2>2, <2>4, <2>6, <2>7, LastChanged
<1>5. CASE ~ended /\ Round
  <2>1. PICK verdict \in {"healthy", "unhealthy"} :
           /\ ConfigCheck(Current.config) = "unhealthy" => verdict = "unhealthy"
           /\ monitors' = Update(monitors, [Current EXCEPT !.verdict = verdict])
    BY <1>5 DEF Round
  <2> DEFINE m == [Current EXCEPT !.verdict = verdict]
  <2>2. monitors # <<>> /\ m \in Monitor
    BY <1>0, <1>5 DEF Round, Monitor
  <2>3. /\ monitors' \in Seq(Monitor) /\ Len(monitors') = Len(monitors)
        /\ \A i \in 1..Len(monitors) :
              monitors'[i] = IF i = Len(monitors) THEN m ELSE monitors[i]
    BY <1>0, <2>1, <2>2, UpdateProperties
  <2>4. /\ Current.running \/ Current.closed => Current.starts # 0
        /\ Current.running /\ Current.closed => Current.starts = 2
    BY <1>0, <2>2 DEF MonitorInv, Current
  <2>5. /\ m.config = Current.config /\ m.running = Current.running
        /\ m.closed = Current.closed /\ m.starts = Current.starts /\ m.verdict = verdict
    BY <1>0, <2>2 DEF Monitor
  <2>6. ~ended' /\ globalConfig' = globalConfig
    BY <1>5 DEF Round, history
  <2> HIDE DEF m
  <2>7. /\ m.running \/ m.closed => m.starts # 0
        /\ m.running /\ m.closed => m.starts = 2
        /\ m.verdict = "healthy" => ConfigCheck(m.config) # "unhealthy"
    BY <2>1, <2>4, <2>5
  <2>8. QED
    BY <2>2, <2>3, <2>5, <2>6, <2>7, LastChanged
<1>6. CASE ~ended /\ InitializeFails
  <2>1. /\ C' = <<>> /\ ~BootAccepted(environment')
        /\ UNCHANGED <<monitors, globalConfig>>
    BY <1>6 DEF InitializeFails, history
  <2>2. QED
    BY <2>1 DEF MonitorInv, Current
<1>7. CASE ~ended /\ (LoadRefused \/ Setenv)
  <2>1. ~ended' /\ UNCHANGED <<monitors, globalConfig>>
    BY <1>7 DEF LoadRefused, Setenv
  <2>2. QED
    BY <2>1 DEF MonitorInv, Current
<1>8. CASE UNCHANGED vars
  <2>1. UNCHANGED <<monitors, globalConfig, ended, C, environment>>
    BY <1>8 DEF vars, history
  <2>2. QED
    BY <2>1 DEF MonitorInv, Current
<1>9. QED
  BY <1>1, <1>2, <1>3, <1>4, <1>5, <1>6, <1>7, <1>8 DEF Next

LEMMA MonitorsAlways == Spec => [](SeqInv /\ MonitorInv)
<1>1. Init => SeqInv /\ MonitorInv
  BY EmptySeq, ReloadAssumption DEF Init, SeqInv, MonitorInv, Possible
<1>2. QED
  BY <1>1, SeqStep, MonitorStep, PTL DEF Spec

\* A call of StopHealthMonitoring panics only on a monitor that was started twice.
THEOREM PanicNeedsRestart == Spec => []EndsOnlyByBootOrRestart
<1>1. MonitorInv => EndsOnlyByBootOrRestart
  BY DEF MonitorInv, EndsOnlyByBootOrRestart
<1>2. QED
  BY <1>1, MonitorsAlways, PTL

\* The life of a monitor that is not started twice, seen from here: m becomes n by
\* a start of a new monitor, a stop of a running one, or not at all.  These are the
\* steps that MonitorBoard.tla has for its flags.
LivesOnce(m, n) ==
    n.starts < 2 =>
        \/ n.running = m.running /\ n.closed = m.closed
        \/ ~m.running /\ ~m.closed /\ n.running /\ ~n.closed
        \/ m.running /\ ~m.closed /\ ~n.running /\ n.closed
\* Only the monitor that is in reach, and stays so, changes.
OutOfReach(i) == i # Len(monitors') => monitors'[i] = monitors[i]

LEMMA LifeStep ==
    ASSUME SeqInv, MonitorInv, [Next]_vars, NEW i \in 1..Len(monitors)
    PROVE  LivesOnce(monitors[i], monitors'[i]) /\ OutOfReach(i)
<1>0. /\ monitors \in Seq(Monitor) /\ monitors # <<>> /\ monitors[i] \in Monitor
      /\ monitors[i].closed => monitors[i].starts # 0
      /\ monitors[i].running /\ monitors[i].closed => monitors[i].starts = 2
  BY LenProperties, EmptySeq, ElementOfSeq DEF SeqInv, MonitorInv
<1>1. CASE monitors'[i] = monitors[i]
  BY <1>1 DEF LivesOnce, OutOfReach
<1>2. CASE InitializeConfig \/ Load
  <2>1. BootConfig(LegacyRead(environment), environment.security) \in Configs
        /\ LoadedConfig(environment) \in Configs
    BY DEF Configs, SeqInv
  <2>2. PICK cfg \in Configs : monitors' = Append(monitors, NewMonitor(cfg))
    BY <1>0, <1>2, <2>1, NewMonitorProperties
       DEF InitializeConfig, Load, AfterLoad, AfterReload
  <2>3. monitors'[i] = monitors[i]
    BY <1>0, <2>2, NewMonitorProperties
  <2>4. QED
    BY <1>1, <2>3
<1>3. CASE StartHealthMonitoring
  <2>1. /\ monitors'[i] = IF i = Len(monitors) /\ ~monitors[i].running
                          THEN Running(monitors[i]) ELSE monitors[i]
        /\ Len(monitors') = Len(monitors)
    BY <1>0, <1>3, StartedProperties DEF StartHealthMonitoring
  <2>2. /\ Running(monitors[i]).running /\ Running(monitors[i]).closed = monitors[i].closed
        /\ Running(monitors[i]).starts = IF monitors[i].starts = 0 THEN 1 ELSE 2
    BY <1>0 DEF Running, Monitor
  <2>3. CASE i = Len(monitors) /\ ~monitors[i].running
    <3>1. monitors'[i] = Running(monitors[i]) /\ OutOfReach(i)
      BY <2>1, <2>3 DEF OutOfReach
    <3>2. QED
      BY <1>0, <2>2, <2>3, <3>1 DEF LivesOnce, Monitor
  <2>4. QED
    BY <1>1, <2>1, <2>3
<1>4. CASE StopHealthMonitoring
  <2> DEFINE stopped == [monitors[i] EXCEPT !.closed = TRUE, !.running = FALSE]
  <2>1. /\ monitors'[i] = IF i = Len(monitors) /\ monitors[i].running
                          THEN stopped ELSE monitors[i]
        /\ Len(monitors') = Len(monitors)
    BY <1>0, <1>4, StoppedProperties DEF StopHealthMonitoring
  <2>2. ~stopped.running /\ stopped.closed /\ stopped.starts = monitors[i].starts
    BY <1>0 DEF Monitor
  <2> HIDE DEF stopped
  <2>3. CASE i = Len(monitors) /\ monitors[i].running
    <3>1. monitors'[i] = stopped /\ OutOfReach(i)
      BY <2>1, <2>3 DEF OutOfReach
    <3>2. monitors[i].starts < 2 => ~monitors[i].closed
      BY <1>0, <2>3
    <3>3. QED
      BY <2>2, <2>3, <3>1, <3>2, Zenon DEF LivesOnce
  <2>4. QED
    BY <1>1, <2>1, <2>3
<1>5. CASE Round
  <2>1. PICK verdict \in {"healthy", "unhealthy"} :
           monitors' = Update(monitors, [Current EXCEPT !.verdict = verdict])
    BY <1>5 DEF Round
  <2> DEFINE judged == [Current EXCEPT !.verdict = verdict]
  <2>2. Current \in Monitor
    BY <1>0, LenProperties, EmptySeq, ElementOfSeq DEF Current
  <2>3. /\ judged \in Monitor
        /\ judged.running = Current.running /\ judged.closed = Current.closed
    BY <2>2 DEF Monitor
  <2>4. /\ monitors'[i] = IF i = Len(monitors) THEN judged ELSE monitors[i]
        /\ Len(monitors') = Len(monitors)
    BY <1>0, <2>1, <2>3, UpdateProperties
  <2> HIDE DEF judged
  <2>5. CASE i = Len(monitors)
    BY <2>3, <2>4, <2>5 DEF LivesOnce, OutOfReach, Current
  <2>6. QED
    BY <1>1, <2>4, <2>5
<1>6. CASE InitializeFails \/ LoadRefused \/ Setenv \/ UNCHANGED vars
  <2>1. monitors' = monitors
    BY <1>6 DEF InitializeFails, LoadRefused, Setenv, vars
  <2>2. QED
    BY <1>1, <2>1
<1>7. QED
  BY <1>2, <1>3, <1>4, <1>5, <1>6 DEF Next

\* Whatever is loaded, started and stopped in whatever order, a monitor that is not
\* started twice is started once and stopped once at most, in this order: what the
\* theorems about HealthMonitor.tla assume of it (Start, Stop, LoadConfig).
THEOREM OneLifeEach ==
    Spec => [][\A i \in 1..Len(monitors) : LivesOnce(monitors[i], monitors'[i])]_vars
<1>1. SeqInv /\ MonitorInv /\ [Next]_vars =>
         [\A i \in 1..Len(monitors) : LivesOnce(monitors[i], monitors'[i])]_vars
  BY LifeStep
<1>2. QED
  BY <1>1, MonitorsAlways, PTL DEF Spec

\* No call, the load that replaces it included, stops a monitor that is replaced
\* or touches it later: one that was running runs as long as the process does
\* (ReloadConfig stops the new one).
THEOREM ReplacedForGood == Spec => ReplacedLoopsRunOn
<1>1. SeqInv /\ MonitorInv /\ [Next]_vars =>
         [\A i \in 1..Len(monitors) :
             monitors[i].running /\ i # Len(monitors') => monitors'[i].running]_vars
  BY LifeStep DEF OutOfReach
<1>2. QED
  BY <1>1, MonitorsAlways, PTL DEF Spec, ReplacedLoopsRunOn

\* A round of the monitor's checks finds out a production configuration that the
\* validator, lenient by its history, has let in.
THEOREM HealthyIsHardened == Spec => []HealthyMeansHardened
<1>1. SeqInv /\ MonitorInv => HealthyMeansHardened
  <2> SUFFICES ASSUME SeqInv, MonitorInv, IsConfigHealthy, Current.verdict # "unknown",
                      globalConfig[1].app.environment = "production"
               PROVE  globalConfig[1].security.tls /\ globalConfig[1].security.auth
    BY DEF HealthyMeansHardened
  <2>1. monitors # <<>> /\ Current.verdict # "unhealthy"
    BY DEF IsConfigHealthy
  <2>2. Current \in Monitor
    BY <2>1, LenProperties, EmptySeq, ElementOfSeq DEF SeqInv, Current
  <2>3. Current.verdict = "healthy"
    BY <2>1, <2>2 DEF Monitor
  <2>4. Valid(Current.config, TRUE) /\ globalConfig[1] = Current.config
    <3>1. /\ globalConfig = <<Current.config>>
          /\ ConfigCheck(Current.config) # "unhealthy"
      BY <2>1, <2>3 DEF MonitorInv
    <3>2. Valid(Current.config, TRUE)
      BY <3>1, Zenon DEF ConfigCheck
    <3>3. QED
      BY <3>1, <3>2
  <2>5. QED
    BY <2>4, StrictMeansHardened
<1>2. QED
  BY <1>1, MonitorsAlways, PTL
\* Every variable keeps its type: whatever is in force was read from one of the
\* environments, METRIC_PORT set from METRICS_PORT or not.
Read ==
    /\ C \in {<<>>} \cup {<<LegacyRead(e)>> : e \in Possible}
    /\ Security \in {<<>>} \cup {<<e.security>> : e \in Possible}
    /\ globalConfig \in {<<>>} \cup {<<LoadedConfig(e)>> : e \in Possible}
                        \cup {<<BootConfig(LegacyRead(e), e.security)>> : e \in Possible}

LEMMA ReadTyped ==
    ASSUME SeqInv, Read, [Next]_vars
    PROVE  Read' /\ Possible' = Possible
<1>0. Possible' = Possible
  BY DEF Possible, WithAlias
<1>1. UNCHANGED <<C, Security, globalConfig>> => Read'
  BY <1>0 DEF Read
<1>2. CASE InitializeConfig
  <2>1. /\ C' = <<LegacyRead(environment)>> /\ Security' = <<environment.security>>
        /\ globalConfig' = <<BootConfig(LegacyRead(environment), environment.security)>>
    BY <1>2 DEF InitializeConfig
  <2>2. QED
    BY <1>0, <2>1 DEF Read, SeqInv
<1>3. CASE Load
  <2>1. UNCHANGED <<C, Security>> /\ globalConfig' = <<LoadedConfig(environment)>>
    BY <1>3 DEF Load
  <2>2. QED
    BY <1>0, <2>1 DEF Read, SeqInv
<1>4. CASE InitializeFails \/ LoadRefused \/ Setenv
  BY <1>1, <1>4 DEF InitializeFails, LoadRefused, Setenv
<1>5. CASE StartHealthMonitoring \/ StopHealthMonitoring \/ Round
  BY <1>1, <1>5 DEF StartHealthMonitoring, StopHealthMonitoring, Round
<1>6. CASE UNCHANGED vars
  BY <1>1, <1>6 DEF vars
<1>7. QED
  BY <1>0, <1>2, <1>3, <1>4, <1>5, <1>6 DEF Next

LEMMA FlagsTyped ==
    ASSUME ended \in BOOLEAN, validator \in {"nil", "strict", "lenient"}, [Next]_vars
    PROVE  ended' \in BOOLEAN /\ validator' \in {"nil", "strict", "lenient"}
<1>1. CASE LoadRefused
  BY <1>1 DEF LoadRefused, Validates, ValidatorFor
<1>2. CASE Load
  BY <1>2 DEF Load, Validates, ValidatorFor
<1>3. CASE InitializeFails
  <2>1. ended' = TRUE /\ validator' = validator
    BY <1>3 DEF InitializeFails
  <2>2. QED
    BY <2>1, Zenon
<1>4. CASE StopHealthMonitoring
  <2>1. ended' \in BOOLEAN
    BY <1>4, Zenon DEF StopHealthMonitoring
  <2>2. QED
    BY <1>4, <2>1 DEF StopHealthMonitoring
<1>5. CASE InitializeConfig \/ Setenv \/ StartHealthMonitoring \/ Round
  BY <1>5 DEF InitializeConfig, Setenv, StartHealthMonitoring, Round
<1>6. CASE UNCHANGED vars
  BY <1>6 DEF vars
<1>7. QED
  BY <1>1, <1>2, <1>3, <1>4, <1>5, <1>6 DEF Next

THEOREM ReloadTypeCorrect == Spec => []TypeOK
<1> DEFINE Flags == ended \in BOOLEAN /\ validator \in {"nil", "strict", "lenient"}
<1>1. Init => Read /\ Flags
  BY DEF Init, Read
<1>2. SeqInv /\ Read /\ [Next]_vars => Read'
  BY ReadTyped
<1>3. Flags /\ [Next]_vars => Flags'
  BY FlagsTyped
<1>4. SeqInv /\ Read /\ Flags => TypeOK
  <2> SUFFICES ASSUME SeqInv, Read, Flags PROVE TypeOK
    OBVIOUS
  <2>1. \A i \in 1..Len(monitors) :
           /\ monitors[i].running \in BOOLEAN /\ monitors[i].closed \in BOOLEAN
           /\ monitors[i].starts \in 0..2
           /\ monitors[i].verdict \in {"unknown", "healthy", "unhealthy"}
    <3>1. TAKE i \in 1..Len(monitors)
    <3>2. monitors[i] \in Monitor
      BY ElementOfSeq DEF SeqInv
    <3>3. QED
      BY <3>2, Zenon DEF Monitor
  <2>2. environment \in Possible /\ Len(monitors) <= MaxMonitors
    BY DEF SeqInv
  <2>3. QED
    BY <2>1, <2>2, Zenon DEF TypeOK, Read
<1>5. QED
  BY <1>1, <1>2, <1>3, <1>4, MonitorsAlways, PTL DEF Spec
=============================================================================
