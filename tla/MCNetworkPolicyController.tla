------------------------------ MODULE MCNetworkPolicyController ------------------------------
(***************************************************************************)
(* Two ClusterNetworkPolicies that share groups; they are applied to, and   *)
(* have peers among, Pods and ExternalEntities of two Namespaces, some      *)
(* selected through Namespace labels.                                       *)
(***************************************************************************)
EXTENDS NetworkPolicyController, TLC

CONSTANTS n1, n2, a1, p1, p2, x, y, ns1, ns2, web, db, blue, red

MCMembers == {x, y}
MCKind == x :> "pod" @@ y :> "ee"
MCNamespaces == {ns1, ns2}
MCNsOf == x :> ns1 @@ y :> ns2
MCLabels == {web, db}
MCNsLabels == {blue, red}
MCNodes == {n1, n2}
MCAddrs == {a1}
MCPolicies == {p1, p2}
MCPolicyKind == [p \in MCPolicies |-> "cnp"]

Webs == ToGroupSelector(Nil, {web}, Nil, Nil)
Entities == ToGroupSelector(Nil, Nil, Nil, {db})
BluePods == ToGroupSelector(Nil, Nil, {blue}, Nil)
RedEntities == ToGroupSelector(Nil, Nil, {red}, {db})

MCSpecsOf ==
    p1 :> {[appliedTo |-> {Webs}, peers |-> {BluePods}],
           [appliedTo |-> {Webs}, peers |-> {RedEntities, BluePods}]} @@
    p2 :> {[appliedTo |-> {Entities}, peers |-> {RedEntities}]}

At(label, node, addr) == [label |-> label, node |-> node, addr |-> addr]

MCAttrs ==
    x :> {At(web, n1, Nil), At(web, n1, a1), At(db, n2, a1)} @@
    y :> {At(db, n2, a1)}

MCInitMembers == x :> At(web, n1, Nil) @@ y :> At(db, n2, a1)
MCInitNamespaces == ns1 :> blue @@ ns2 :> red
==============================================================================
