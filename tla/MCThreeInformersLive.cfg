SPECIFICATION FairSpec
CONSTANTS
    Nil = Nil
    n1 = n1
    a1 = a1
    p1 = p1
    p2 = p2
    p3 = p3
    x = x
    ns1 = ns1
    web = web
    blue = blue
    red = red
    Nodes <- MCNodes
    Addrs <- MCAddrs
    Members <- MCMembers
    Kind <- MCKind
    Namespaces <- MCNamespaces
    NsOf <- MCNsOf
    Labels <- MCLabels
    NsLabels <- MCNsLabels
    Policies <- MCPolicies
    PolicyKind <- MCPolicyKind
    SpecsOf <- MCSpecsOf
    Attrs <- MCAttrs
    InitMembers <- MCInitMembers
    InitNamespaces <- MCInitNamespaces
    MaxChanges = 2
    MaxCreations = 2
PROPERTY
    Settles
CHECK_DEADLOCK FALSE
