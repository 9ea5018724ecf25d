-------------------------- MODULE MCAgentController --------------------------
(* Small instances of AgentController.                                      *)
EXTENDS AgentController

CONSTANTS P, Q, A, G, pod, x

Rule(policy, addresses) == [policy |-> policy, appliedTo |-> {A}, addresses |-> addresses]

(* Rules that allow any peer.                                               *)
FromAny == Rule(P, {})
OtherRule == Rule(Q, {})

AnyPeer == {FromAny}
AnyPeerVersion == P :> {{FromAny}}

TwoPolicies == {FromAny, OtherRule}
TwoPolicyVersions == (P :> {{FromAny}}) @@ (Q :> {{OtherRule}})

Members == (A :> {pod}) @@ (G :> {x})
=============================================================================
