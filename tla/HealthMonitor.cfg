CONSTANTS
    Checks = {"rpc_connectivity", "port_availability"}
    Callers = {"a", "b"}
    Calls = {"start", "stop", "status"}
    Loops = {"loop1"}
    Restarted = FALSE
SPECIFICATION FairSpec
INVARIANTS TypeOK NoMapRace NoDoubleClose ReadersSeeWholeChecks VerdictOfRound
PROPERTIES ImplementsBoard MonitorEnds
