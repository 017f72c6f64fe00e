CONSTANTS
    Checks = {"rpc_connectivity", "port_availability"}
    Callers = {"a", "b"}
    Calls = {"start", "stop", "status", "summary"}
    Loops = {"loop1"}
    Restarted = FALSE
SPECIFICATION Spec
INVARIANT NobodyStuck
