------------------------------ MODULE RuleTable ------------------------------
(***************************************************************************)
(* What the OpenFlow client promises its callers about policy rules: each   *)
(* rule has its own set of match conditions on the bridge, every call       *)
(* changes the conditions of one rule in one step and touches no other      *)
(* rule, and an address is isolated exactly while some rule of a            *)
(* Kubernetes NetworkPolicy applies to it.                                  *)
(***************************************************************************)
CONSTANTS Rules,    \* OpenFlow rule ids
          Matches,  \* match conditions: source, destination, port
          Applied,  \* the conditions on the Pods a rule applies to
          Isolating \* rules of Kubernetes NetworkPolicies

VARIABLES enforced, \* per rule, the conditions it has on the bridge
          isolated  \* the addresses with a default drop flow

tableVars == <<enforced, isolated>>

\* The addresses that rules with these conditions isolate.
IsolatedBy(conds) ==
  {m \in Applied : \E r \in Isolating : m \in conds[r]}

Init ==
  /\ enforced = [r \in Rules |-> {}]
  /\ isolated = {}

\* InstallPolicyRuleFlows, AddPolicyRuleAddress, DeletePolicyRuleAddress and
\* UninstallPolicyRuleFlows: conditions of one rule come, or go.
ChangeOne(old, new) ==
  \E r \in Rules :
    /\ \A q \in Rules \ {r} : new[q] = old[q]
    /\ ~(old[r] \subseteq new[r]) => new[r] \subseteq old[r]

\* BatchInstallPolicyRuleFlows: rules that had no conditions get some.
InstallMany(old, new) == \A r \in Rules : new[r] # old[r] => old[r] = {}

Next ==
  LET old == enforced
      new == enforced'
  IN /\ isolated' = IsolatedBy(new)
     /\ ~ChangeOne(old, new) => InstallMany(old, new)

Spec == Init /\ [][Next]_tableVars
=============================================================================
