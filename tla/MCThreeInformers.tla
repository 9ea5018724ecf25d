------------------------------ MODULE MCThreeInformers ------------------------------
(***************************************************************************)
(* A policy of each kind, handled by three goroutines, that share groups;   *)
(* the ClusterNetworkPolicy is applied to the Pods of the Namespaces with a *)
(* label.                                                                   *)
(***************************************************************************)
EXTENDS NetworkPolicyController, TLC

CONSTANTS n1, a1, p1, p2, p3, x, ns1, web, blue, red

MCMembers == {x}
MCKind == x :> "pod"
MCNamespaces == {ns1}
MCNsOf == x :> ns1
MCLabels == {web}
MCNsLabels == {blue, red}
MCNodes == {n1}
MCAddrs == {a1}
MCPolicies == {p1, p2, p3}
MCPolicyKind == p1 :> "np" @@ p2 :> "anp" @@ p3 :> "cnp"

Webs == ToGroupSelector(ns1, {web}, Nil, Nil)
BlueWebs == ToGroupSelector(Nil, {web}, {blue}, Nil)

MCSpecsOf ==
    p1 :> {[appliedTo |-> {Webs}, peers |-> {BlueWebs}],
           [appliedTo |-> {Webs}, peers |-> {Webs}]} @@
    p2 :> {[appliedTo |-> {Webs}, peers |-> {Webs}]} @@
    p3 :> {[appliedTo |-> {BlueWebs}, peers |-> {BlueWebs}]}

MCAttrs == x :> {[label |-> web, node |-> n1, addr |-> a1]}

MCInitMembers == x :> [label |-> web, node |-> n1, addr |-> a1]
MCInitNamespaces == ns1 :> blue
==============================================================================
