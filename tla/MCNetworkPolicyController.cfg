SPECIFICATION Spec
CONSTANTS
    Nil = Nil
    n1 = n1
    n2 = n2
    a1 = a1
    p1 = p1
    p2 = p2
    x = x
    y = y
    ns1 = ns1
    ns2 = ns2
    web = web
    db = db
    blue = blue
    red = red
    Nodes <- MCNodes
    Addrs <- MCAddrs
    Members <- MCMembers
    Kind <- MCKind
    Namespaces <- MCNamespaces
    NsOf <- MCNsOf
    Labels <- MCLabels
    NsLabels <- MCNsLabels
    Policies <- MCPolicies
    PolicyKind <- MCPolicyKind
    SpecsOf <- MCSpecsOf
    Attrs <- MCAttrs
    InitMembers <- MCInitMembers
    InitNamespaces <- MCInitNamespaces
    MaxChanges = 3
    MaxCreations = 1
INVARIANTS
    ListedIsMatched
    StoredAsSpecified
    NoDanglingGroup
    HandlersFindTheirPolicy
    SpansReach
    GroupsSettled
CHECK_DEADLOCK FALSE
