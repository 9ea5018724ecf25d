SPECIFICATION Spec
CONSTANTS
    Nil = Nil
    Partial = Partial
    P = P
    Q = Q
    A = A
    G = G
    pod = pod
    x = x
    Rules <- TwoPolicies
    Versions <- TwoPolicyVersions
    Enabled = {P}
    GroupMembers <- Members
    AppliedToGroups = {A}
    AddressGroups = {}
    Workers = {w1}
    MaxChanges = 3
    MaxLosses = 0
    MaxFailures = 0
    Ports = {1}
    MaxCNI = 0
INVARIANT RealizedAsServed
CHECK_DEADLOCK FALSE
