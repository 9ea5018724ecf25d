SPECIFICATION SumFairSpec
CONSTANTS
    Nil = Nil
    Partial = Partial
    P = P
    Q = Q
    A = A
    G = G
    pod = pod
    x = x
    Rules <- AnyPeer
    Versions <- AnyPeerVersion
    Enabled = {P}
    GroupMembers <- Members
    AppliedToGroups = {A}
    AddressGroups = {}
    Workers = {w1,w2}
    MaxChanges = 3
    MaxLosses = 1
    MaxFailures = 1
    Ports = {1}
    MaxCNI = 2
    k1 = k1
    n1 = n1
    m1 = m1
PROPERTIES
    AgentSettles
    StoreServes
CHECK_DEADLOCK FALSE
