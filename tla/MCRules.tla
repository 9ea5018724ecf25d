------------------------------ MODULE MCRules ------------------------------
(*****************************************************************************)
(* From Tiers and rules to flows and back: the Tiers that order the          *)
(* policies, the priorities of the rules, the reconciler for an ingress and  *)
(* for an egress rule with a named port, the exceptions of IP blocks, the    *)
(* conjunctive match flows, and the statistics collected from the flows. The *)
(* components share no state here: a behaviour runs the one that part names, *)
(* and the others are off.                                                   *)
(*****************************************************************************)
EXTENDS MCRulePriorities, IPBlocks

VARIABLES part, \* the component that runs in this behaviour
  rriIfaces, rriOfRules, rriInUse, rriLast, rriWork, rriGoal, rriTorn,
  rriRrFaults,
  rreIfaces, rreOfRules, rreInUse, rreLast, rreWork, rreGoal, rreTorn,
  rreRrFaults,
  ctxs, global, matches, cached, counted, cjFlows, drops, actions, metrics,
  undoing, asked, moved, broken, calls, cjFaults,
  policyOf, counter, sample, cur, stLast, phase, dataCh, stats, existing,
  traffic, twice, missed, changes, stFaults,
  tiers, policies, tierEvents, policyEvents, tierIndexer, policyIndexer,
  internal, initializing, raced, ops, restarts

rriVars == <<rriIfaces, rriOfRules, rriInUse, rriLast, rriWork, rriGoal,
  rriTorn, rriRrFaults>>
rreVars == <<rreIfaces, rreOfRules, rreInUse, rreLast, rreWork, rreGoal,
  rreTorn, rreRrFaults>>
cjVars == <<ctxs, global, matches, cached, counted, cjFlows, drops, actions,
  metrics, undoing, asked, moved, broken, calls, cjFaults>>
stVars == <<policyOf, counter, sample, cur, stLast, phase, dataCh, stats,
  existing, traffic, twice, missed, changes, stFaults>>
tiVars == <<tiers, policies, tierEvents, policyEvents, tierIndexer,
  policyIndexer, internal, initializing, raced, ops, restarts>>

IngressRule == INSTANCE RuleReconciler WITH
  Rules <- {"r"}, Ingress <- {"r"}, Named <- {"r"},
  Members <- {[pod |-> "p", ip |-> 1]}, Pods <- {"l", "m"},
  Svcs <- {"s0", "s80", "s8080"}, DefaultSvc <- "s0",
  SvcOf <- [p |-> "s80", q |-> "s8080", l |-> "s80", m |-> "s8080"],
  Blocks <- [r |-> {}], Ids <- {1, 2, 3}, MaxGen <- 1, MaxFaults <- 1,
  ifaces <- rriIfaces, ofRules <- rriOfRules, inUse <- rriInUse,
  last <- rriLast, work <- rriWork, goal <- rriGoal, torn <- rriTorn,
  rrFaults <- rriRrFaults

EgressRule == INSTANCE RuleReconciler WITH
  Rules <- {"r"}, Ingress <- {}, Named <- {"r"},
  Members <- {[pod |-> "p", ip |-> 1], [pod |-> "q", ip |-> 2]},
  Pods <- {"l"}, Svcs <- {"s0", "s80", "s8080"}, DefaultSvc <- "s0",
  SvcOf <- [p |-> "s80", q |-> "s8080", l |-> "s80", m |-> "s8080"],
  Blocks <- [r |-> {}], Ids <- {1, 2, 3}, MaxGen <- 1, MaxFaults <- 1,
  ifaces <- rreIfaces, ofRules <- rreOfRules, inUse <- rreInUse,
  last <- rreLast, work <- rreWork, goal <- rreGoal, torn <- rreTorn,
  rrFaults <- rreRrFaults

Conjunctions == INSTANCE ConjunctionClient WITH
  Rules <- {"a", "k", "l"}, From <- {"x"}, To <- {"t"}, Ports <- {},
  Antrea <- {"a"}, Priorities <- {1, 2}, MaxCalls <- 3, MaxBroken <- 0,
  MaxFaults <- 1, flows <- cjFlows

Stats == INSTANCE Statistics WITH
  Nodes <- {"n"}, RuleIDs <- {1, 2}, Policies <- {"u"}, ChanCap <- 2,
  MaxTraffic <- 2, MaxChanges <- 2, MaxFaults <- 1, last <- stLast

Tier == INSTANCE Tiers WITH
  SystemTiers <- <<"app", "plat">>,
  SystemPriority <- [app |-> 250, plat |-> 150], UserTiers <- {"x", "y"},
  Priorities <- {10, 20}, Policies <- {"p"}, defaultTierPriority <- 250,
  maxSupportedTiers <- 4, MaxOps <- 3, MaxRestarts <- 1

\* The variables of a component that does not run.
rriOff == /\ rriIfaces = 0 /\ rriOfRules = 0 /\ rriInUse = 0 /\ rriLast = 0
  /\ rriWork = 0 /\ rriGoal = 0 /\ rriTorn = 0 /\ rriRrFaults = 0
rreOff == /\ rreIfaces = 0 /\ rreOfRules = 0 /\ rreInUse = 0 /\ rreLast = 0
  /\ rreWork = 0 /\ rreGoal = 0 /\ rreTorn = 0 /\ rreRrFaults = 0
cjOff == /\ ctxs = 0 /\ global = 0 /\ matches = 0 /\ cached = 0 /\ counted = 0
  /\ cjFlows = 0 /\ drops = 0 /\ actions = 0 /\ metrics = 0 /\ undoing = 0
  /\ asked = 0 /\ moved = 0 /\ broken = 0 /\ calls = 0 /\ cjFaults = 0
ipOff == /\ allow = 0 /\ given = 0 /\ excepts = 0 /\ merged = 0 /\ blocks = 0
  /\ ipStep = "off"
stOff == /\ policyOf = 0 /\ counter = 0 /\ sample = 0 /\ cur = 0 /\ stLast = 0
  /\ phase = 0 /\ dataCh = 0 /\ stats = 0 /\ existing = 0 /\ traffic = 0
  /\ twice = 0 /\ missed = 0 /\ changes = 0 /\ stFaults = 0
tiOff == /\ tiers = 0 /\ policies = 0 /\ tierEvents = 0 /\ policyEvents = 0
  /\ tierIndexer = 0 /\ policyIndexer = 0 /\ internal = 0 /\ initializing = 0
  /\ raced = 0 /\ ops = 0 /\ restarts = 0

SumInit ==
  /\ part \in {"rp", "rri", "rre", "cj", "ip", "st", "ti"}
  /\ Init
  /\ IF part = "rri" THEN IngressRule!Init ELSE rriOff
  /\ IF part = "rre" THEN EgressRule!Init ELSE rreOff
  /\ IF part = "cj" THEN Conjunctions!Init ELSE cjOff
  /\ IF part = "ip" THEN IPInit ELSE ipOff
  /\ IF part = "st" THEN Stats!Init ELSE stOff
  /\ IF part = "ti" THEN Tier!Init ELSE tiOff

SumNext ==
  \/ /\ part = "rp" /\ Next
     /\ UNCHANGED <<part, rriVars, rreVars, cjVars, ipVars, stVars, tiVars>>
  \/ /\ part = "rri" /\ IngressRule!Next
     /\ UNCHANGED <<part, vars, rreVars, cjVars, ipVars, stVars, tiVars>>
  \/ /\ part = "rre" /\ EgressRule!Next
     /\ UNCHANGED <<part, vars, rriVars, cjVars, ipVars, stVars, tiVars>>
  \/ /\ part = "cj" /\ Conjunctions!Next
     /\ UNCHANGED <<part, vars, rriVars, rreVars, ipVars, stVars, tiVars>>
  \/ /\ part = "ip" /\ IPNext
     /\ UNCHANGED <<part, vars, rriVars, rreVars, cjVars, stVars, tiVars>>
  \/ /\ part = "st" /\ Stats!Next
     /\ UNCHANGED <<part, vars, rriVars, rreVars, cjVars, ipVars, tiVars>>
  \/ /\ part = "ti" /\ Tier!Next
     /\ UNCHANGED <<part, vars, rriVars, rreVars, cjVars, ipVars, stVars>>

sumVars == <<part, vars, rriVars, rreVars, cjVars, ipVars, stVars, tiVars>>

SumSpec == SumInit /\ [][SumNext]_sumVars

----------------------------------------------------------------------------

\* A cached rule has exactly the conditions its callers asked for, the contexts
\* are the match flows of the bridge, and a rule that is not cached has no
\* condition on the bridge (InstallPolicyRuleFlows, applyConjunctiveMatchFlows,
\* UninstallPolicyRuleFlows).
BridgeHoldsRules == part = "cj" => Conjunctions!BridgeHoldsRules

\* ConjunctionClient implements RuleTable: every call changes the conditions of
\* its own rule and of no other.
ImplementsRuleTable ==
  /\ part = "cj" => Conjunctions!Table!Init
  /\ [][part = "cj" => Conjunctions!Table!Next]_cjVars


============================================================================
