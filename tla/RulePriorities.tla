--------------------------- MODULE RulePriorities ---------------------------
(* How the reconciler of the agent uses the priorityAssigner of one OVS     *)
(* table (pkg/agent/controller/networkpolicy/reconciler.go): it registers   *)
(* the Priorities of a policy, moves installed flows to other OpenFlow      *)
(* priorities when that is needed to make room, installs the flows of a     *)
(* rule, and releases Priorities.  Each operation holds the mutex of the    *)
(* table from beginning to end, so it is one action.                        *)
(*                                                                          *)
(* A rule is one OpenFlow rule here; what is kept of its flows is the       *)
(* OpenFlow priority of the action flows.  An update of an installed rule   *)
(* changes its addresses and leaves its action flows alone.                 *)
EXTENDS PriorityAssigner

CONSTANTS
    Rules,        \* rules of Antrea-native policies in the table
    PriorityOf,   \* rule -> Priority
    MaxPriority,  \* zone -> the greatest RulePriority in the policies of the zone
    Batches,      \* sequences of rules that may be reconciled in batch at first
    Failures,     \* calls that may fail: <<"reassign", "add" or "update", rule>>
    Nil

VARIABLES
    assigner,  \* the priorityAssigner
    flows,     \* rule -> OpenFlow priority of its action flows, Nil if none
    last       \* the last operation, with the assigner before it where a property needs it

vars == <<assigner, flows, last>>

ASSUME RulePrioritiesAssumption ==
    /\ PriorityOf \in [Rules -> Priorities]
    /\ PolicyBottomPriority \in 1 .. 65534
    /\ PolicyTopPriority \in PolicyBottomPriority .. 65534
    /\ zoneOffset \in Nat
    /\ Failures \subseteq {"reassign", "add", "update"} \X Rules
    /\ Nil \notin 0 .. 65535

Init ==
    /\ assigner = newPriorityAssigner
    /\ flows = [r \in Rules |-> Nil]
    /\ last = [op |-> "start"]

(* The Priorities of all rules of the policy, registered together.          *)
allPrioritiesInPolicy(rule) ==
    LET zone == PriorityOf[rule][1]
    IN  [i \in 1 .. MaxPriority[zone] + 1 |-> <<zone, i - 1>>]

(* Moves the installed flows from one OpenFlow priority to another.         *)
ReassignFlowPriorities(ofUpdates) ==
    [r \in Rules |-> IF flows[r] \in DOMAIN ofUpdates THEN ofUpdates[flows[r]] ELSE flows[r]]

(* The end of Reconcile: add or update, and Release when it fails.          *)
AddOrUpdate(a, moved, rule) ==
    LET of == GetOFPriority(a, PriorityOf[rule])
        kind == IF flows[rule] = Nil THEN "add" ELSE "update"
    IN  \/ /\ assigner' = a
           /\ flows' = [moved EXCEPT ![rule] = IF kind = "add" THEN of ELSE @]
           /\ last' = [op |-> kind]
        \/ /\ <<kind, rule>> \in Failures
           /\ assigner' = Release(a, of)
           /\ flows' = moved
           /\ last' = [op |-> "failed"]

(* Reconcile and getOFPriority.                                             *)
Reconcile(rule) ==
    IF PriorityOf[rule] \in DOMAIN assigner.priorityMap
    THEN AddOrUpdate(assigner, flows, rule)
    ELSE \E r \in RegisterPriorities(assigner, allPrioritiesInPolicy(rule)) :
            \/ /\ r.err
               /\ assigner' = r.assigner
               /\ last' = [op |-> "failed"]
               /\ UNCHANGED flows
            \/ /\ ~ r.err /\ r.updates # <<>> /\ <<"reassign", rule>> \in Failures
               /\ assigner' \in Reverted(r.assigner, r.new, r.updates)
               /\ last' = [op |-> "revert", before |-> assigner]
               /\ UNCHANGED flows
            \/ /\ ~ r.err
               /\ \E ofUpdates \in priorityUpdatesToOFUpdates(r.updates) :
                     AddOrUpdate(r.assigner, ReassignFlowPriorities(ofUpdates), rule)

(* BatchReconcile, called once for the rules of the initial events.  It     *)
(* registers the Priorities of the rules themselves.                        *)
BatchReconcile(rules) ==
    /\ last.op = "start"
    /\ \E r \in RegisterPriorities(assigner, [i \in DOMAIN rules |-> PriorityOf[rules[i]]]) :
        LET of(rule) == GetOFPriority(r.assigner, PriorityOf[rule])
        IN  \/ /\ r.err
               /\ assigner' = r.assigner
               /\ last' = [op |-> "failed"]
               /\ UNCHANGED flows
            \/ /\ ~ r.err
               /\ assigner' = r.assigner
               /\ flows' = [rule \in Rules |-> IF rule \in Range(rules) THEN of(rule) ELSE Nil]
               /\ last' = [op |-> "batch"]
            \/ /\ ~ r.err /\ \E rule \in Range(rules) : <<"add", rule>> \in Failures
               /\ assigner' = FoldLeft(Release, r.assigner, [i \in DOMAIN rules |-> of(rules[i])])
               /\ last' = [op |-> "failed"]
               /\ UNCHANGED flows

(* Forget: the OpenFlow priority of the rule is released when no other rule *)
(* of the table has it (getStalePriorities).                                *)
Forget(rule) ==
    /\ flows[rule] # Nil
    /\ flows' = [flows EXCEPT ![rule] = Nil]
    /\ assigner' = IF \E r \in Rules \ {rule} : flows[r] = flows[rule] THEN assigner
                   ELSE Release(assigner, flows[rule])
    /\ last' = [op |-> "forget"]

Next ==
    \/ last.op = "start" /\ \E batch \in Batches : BatchReconcile(batch)
    \/ \E rule \in Rules : Reconcile(rule) \/ Forget(rule)

Spec == Init /\ [][Next]_vars
-----------------------------------------------------------------------------
(* Of two installed rules, the one of the more important policy, or the     *)
(* earlier one of a policy, has the higher OpenFlow priority, whatever was  *)
(* inserted, moved and released since each of them was installed.           *)
OrderPreserved ==
    \A r, s \in Rules :
        (flows[r] # Nil /\ flows[s] # Nil /\ Less(PriorityOf[r], PriorityOf[s]))
            => flows[r] < flows[s]

(* An installed rule keeps its Priority registered, at the OpenFlow         *)
(* priority that its flows have: no other Priority can be given that one.   *)
InstalledIsRegistered ==
    \A r \in Rules : flows[r] # Nil => /\ PriorityOf[r] \in DOMAIN assigner.priorityMap
                                       /\ assigner.priorityMap[PriorityOf[r]] = flows[r]

(* priorityMap and ofPriorityMap are inverse to each other, and the sorted  *)
(* list has the Priorities that they map.                                   *)
MapsAgree ==
    /\ assigner.sortedPriorities = DOMAIN assigner.priorityMap
    /\ \A p \in DOMAIN assigner.priorityMap :
          /\ assigner.priorityMap[p] \in DOMAIN assigner.ofPriorityMap
          /\ assigner.ofPriorityMap[assigner.priorityMap[p]] = p
    /\ Cardinality(DOMAIN assigner.ofPriorityMap) = Cardinality(DOMAIN assigner.priorityMap)

(* After a revert the assigner is as it was before the registration.        *)
RevertRestores == last.op = "revert" => assigner = last.before

(* The assigner, the reconciler and the bridge agree on every priority.     *)
PrioritiesConsistent == InstalledIsRegistered /\ MapsAgree /\ RevertRestores
=============================================================================
