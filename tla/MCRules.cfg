SPECIFICATION SumSpec
CONSTANTS
    Priorities <- ThreePolicies
    ZoneOffset <- Spread
    PolicyBottomPriority = 1
    PolicyTopPriority = 12
    zoneOffset = 1
    Rules <- Twins
    PriorityOf <- TwinPriority
    MaxPriority <- TwoRules
    Batches <- AnyBatch
    Failures <- SomeFailures
    Nil = Nil
    Width = 3
    MaxExcepts = 2
INVARIANTS
    OrderPreserved
    PrioritiesConsistent
    
    BridgeHoldsRules
    ExceptionsSubtracted
    
    
PROPERTIES
    ImplementsRuleTable
CHECK_DEADLOCK FALSE
