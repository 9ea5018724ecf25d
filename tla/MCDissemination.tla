-------------------------- MODULE MCDissemination --------------------------
(*****************************************************************************)
(* What the controller hands to the agents: the store with its watchers, and *)
(* the agent controller with a connection that breaks. The components share  *)
(* no state here: a behaviour runs the one that part names, and the others   *)
(* keep their initial values.                                                *)
(*****************************************************************************)
EXTENDS MCRamStore

CONSTANTS Partial, P, A, G, pod, addr

Rule(addresses) == [policy |-> P, appliedTo |-> {A}, addresses |-> addresses]

(* A rule with a peer group, and one that allows any peer.                  *)
FromGroup == Rule({G})
FromAny == Rule({})
AgentRules == {FromGroup, FromAny}

VARIABLES part, \* the component that runs in this behaviour
  server, stream, watch, initObjects, fullSynced, cache, policyMap, dirty,
  delayed, batch, worker, realized, iface, podUpdates, removed, budget

agVars == <<server, stream, watch, initObjects, fullSynced, cache, policyMap,
  dirty, delayed, batch, worker, realized, iface, podUpdates, removed, budget>>

Agent == INSTANCE AgentController WITH
  Rules <- AgentRules, Versions <- (P :> {{FromGroup}, {FromGroup, FromAny}}),
  Enabled <- {P}, GroupMembers <- (A :> {pod}) @@ (G :> {addr}),
  AppliedToGroups <- {A}, AddressGroups <- {G}, Workers <- {w1},
  MaxChanges <- 4, MaxLosses <- 1, MaxFailures <- 0, Ports <- {1}, MaxCNI <- 0

SumInit ==
  /\ part \in {"rs", "ag"}
  /\ Init /\ Agent!Init
  /\ part # "rs" => resource = "NetworkPolicy"

SumNext ==
  \/ /\ part = "rs" /\ Next
     /\ UNCHANGED <<part, agVars>>
  \/ /\ part = "ag" /\ Agent!Next
     /\ UNCHANGED <<part, vars>>

sumVars == <<part, vars, agVars>>

SumSpec == SumInit /\ [][SumNext]_sumVars

----------------------------------------------------------------------------
\* A quiet agent has realized what the antrea-controller serves
\* (ruleCache, Reconcile).
RealizedAsServed == part = "ag" => Agent!RealizedAsServed

\* Reconnecting never makes the agent remove the flows of a policy that has been
\* there all the time (ReplaceNetworkPolicies).
NeverForgotten == Agent!NeverForgotten
============================================================================
