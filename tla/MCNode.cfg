SPECIFICATION SumSpec
CONSTANTS
    Pods = {"p", "q"}
    RemotePods = {"r"}
    Gateway = "g"
    Service = "s"
    Hairpin = "h"
    Ids = {1}
    Rules <- PolicyRules
    Affinity = TRUE
    MaxPackets = 3
    MaxChanges = 2
INVARIANTS
    PolicyHolds
    ConnectionsContinue
    ContainersConsistent
    
    BridgeAsConfigured
CHECK_DEADLOCK FALSE
