SPECIFICATION SumSpec
CONSTANTS
    Keys = {k1}
    n1 = n1
    n2 = n2
    w1 = w1
    m1 = m1
    m2 = m2
    Nodes = {n1, n2}
    Items <- MCItems
    Objects <- AllStores
    Watchers = {w1}
    NodeOf <- OnNode
    KeyOf <- Unselective
    IncomingSize = 1
    ChanSize = 1
    MaxWrites = 3
    Nil = Nil
    Partial = Partial
    P = P
    A = A
    G = G
    pod = pod
    addr = addr
INVARIANTS
    WatchIsFaithful
    RealizedAsServed
PROPERTIES
    NeverForgotten
CHECK_DEADLOCK FALSE
