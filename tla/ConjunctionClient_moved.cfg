SPECIFICATION Spec
CONSTANTS
    Rules = {"a", "k", "l"}
    From = {"x"}
    To = {"t"}
    Ports = {}
    Antrea = {"a"}
    Priorities = {1, 2}
    MaxCalls = 3
    MaxBroken = 0
    MaxFaults = 1
INVARIANT DeletedAddressesGo
CHECK_DEADLOCK FALSE
