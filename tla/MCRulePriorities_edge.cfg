SPECIFICATION Spec
CONSTANTS
    Priorities <- ThreePolicies
    ZoneOffset <- Close
    PolicyBottomPriority = 1
    PolicyTopPriority = 9
    zoneOffset = 1
    Rules <- ThreePolicies
    PriorityOf <- RuleOf
    MaxPriority <- TwoRules
    Batches <- NoBatch
    Failures <- NoFailure
    Nil = Nil
INVARIANTS
    OrderPreserved
CHECK_DEADLOCK FALSE
