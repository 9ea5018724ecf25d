SPECIFICATION SumFairSpec
CONSTANTS
    MaxID = 5
    Keys = {"pod"}
    Values = {"v", "w"}
    RoundModulus = 3
    MaxFlowFaults = 4
    Requests = {"t"}
    MaxTag = 1
    MaxVersion = 6
    MaxTraceFaults = 2
    MaxRequests = 3
    MaxBundleFaults = 1
INVARIANTS
    AllocatorSafe
    AtMostTwoRounds
    CacheMirrorsBridge
    
    
    RunningHoldsTag
    CollectedIsLatest
PROPERTIES
    RestartsAreOver
    
    ChangesGetSynced
    
    
    ClientsTrustServer
    InfosFollow
    FilesGo
CHECK_DEADLOCK FALSE
