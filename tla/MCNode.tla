------------------------------ MODULE MCNode ------------------------------
(*****************************************************************************)
(* The data path of a Node and the components that program it: the pipeline, *)
(* the CNI server, the Service proxy and the set-up of the bridge. The       *)
(* components share no state here: a behaviour runs the one that part names, *)
(* and the others are off.                                                   *)
(*****************************************************************************)
EXTENDS Pipeline

(* Rules of Antrea policies, of K8s policies, and of neither.               *)
Rule(pod, peer, antrea, k8s) == [pod |-> pod, peer |-> peer, antrea |-> antrea, k8s |-> k8s]
PolicyRules == {Rule("p", "q", "none", "allow"), Rule("q", "p", "drop", "none"),
                Rule("q", "p", "none", "isolated"), Rule("p", "q", "allow", "none")}

(* Configurations of an agent, and a bridge that an older version set up.   *)
Config(encap, tunnel, gateway) == [encap |-> encap, tunnel |-> tunnel, gateway |-> gateway]
AgentConfigs == {Config(TRUE, "geneve", "gw0"), Config(TRUE, "gre", "gw1"),
                 Config(FALSE, "geneve", "gw0")}
OldBridge == {[name |-> "gw0", ofport |-> "gw", type |-> "internal", csum |-> FALSE],
              [name |-> "tun0", ofport |-> "tun", type |-> "geneve", csum |-> FALSE]}

VARIABLES part, \* the component that runs in this behaviour
  pods, ipam, ipamResults, links, ports, store, podFlows, classifier, l3,
  updates, reqs, busy, starting, added, deleted, cnTorn, reused, calls,
  cnFaults,
  svc, eps, synced, svcChange, epsChange, runReq, sync, serviceMap,
  endpointsMap, serviceInstalled, endpointInstalled, byIP, groupMap, recycled,
  counter, svcFlows, groups, epFlows, borrowed, pxTorn, panicked, pxChanges,
  pxFaults,
  conf, ovsPorts, mtuRequest, ifaces, gwName, tunName, aiStep, runs,
  overlooked, aiFaults

cnVars == <<pods, ipam, ipamResults, links, ports, store, podFlows,
  classifier, l3, updates, reqs, busy, starting, added, deleted, cnTorn,
  reused, calls, cnFaults>>
pxVars == <<svc, eps, synced, svcChange, epsChange, runReq, sync, serviceMap,
  endpointsMap, serviceInstalled, endpointInstalled, byIP, groupMap, recycled,
  counter, svcFlows, groups, epFlows, borrowed, pxTorn, panicked, pxChanges,
  pxFaults>>
aiVars == <<conf, ovsPorts, mtuRequest, ifaces, gwName, tunName, aiStep, runs,
  overlooked, aiFaults>>

CNI == INSTANCE CNIServer WITH
  Containers <- {"c", "d"}, PodOf <- [c |-> "c", d |-> "d"], IPs <- {1, 2},
  OFPorts <- {1, 2}, Requests <- {1, 2}, MaxCalls <- 3, MaxFaults <- 1,
  torn <- cnTorn

Proxy == INSTANCE Proxier WITH
  Services <- {"s", "t"}, IPs <- {"i", "j"}, Ports <- {80},
  Endpoints <- {"e", "f", "g"},
  EndpointsOf <- [s |-> {"e", "f"}, t |-> {"g"}], MaxGroup <- 3,
  MaxChanges <- 4, MaxFaults <- 1, torn <- pxTorn, changes <- pxChanges

Initializer == INSTANCE AgentInitializer WITH
  Configs <- AgentConfigs, OldPorts <- {{}, OldBridge},
  DefaultTunName <- "antrea-tun0", LinkMTU <- 1500, MaxRuns <- 4,
  MaxFaults <- 2

\* The variables of a component that does not run.
cnOff == /\ pods = 0 /\ ipam = 0 /\ ipamResults = 0 /\ links = 0 /\ ports = 0
  /\ store = 0 /\ podFlows = 0 /\ classifier = 0 /\ l3 = 0 /\ updates = 0
  /\ reqs = 0 /\ busy = 0 /\ starting = 0 /\ added = 0 /\ deleted = 0
  /\ cnTorn = 0 /\ reused = 0 /\ calls = 0 /\ cnFaults = 0
pxOff == /\ svc = 0 /\ eps = 0 /\ synced = 0 /\ svcChange = 0 /\ epsChange = 0
  /\ runReq = 0 /\ sync = 0 /\ serviceMap = 0 /\ endpointsMap = 0
  /\ serviceInstalled = 0 /\ endpointInstalled = 0 /\ byIP = 0 /\ groupMap = 0
  /\ recycled = 0 /\ counter = 0 /\ svcFlows = 0 /\ groups = 0 /\ epFlows = 0
  /\ borrowed = 0 /\ pxTorn = 0 /\ panicked = 0 /\ pxChanges = 0
  /\ pxFaults = 0
aiOff == /\ conf = 0 /\ ovsPorts = 0 /\ mtuRequest = 0 /\ ifaces = 0
  /\ gwName = 0 /\ tunName = 0 /\ aiStep = 0 /\ runs = 0 /\ overlooked = 0
  /\ aiFaults = 0

SumInit ==
  /\ part \in {"pl", "cn", "px", "ai"}
  /\ Init
  /\ IF part = "cn" THEN CNI!Init ELSE cnOff
  /\ IF part = "px" THEN Proxy!Init ELSE pxOff
  /\ IF part = "ai" THEN Initializer!Init ELSE aiOff

SumNext ==
  \/ /\ part = "pl" /\ Next
     /\ UNCHANGED <<part, cnVars, pxVars, aiVars>>
  \/ /\ part = "cn" /\ CNI!Next
     /\ UNCHANGED <<part, plVars, pxVars, aiVars>>
  \/ /\ part = "px" /\ Proxy!Next
     /\ UNCHANGED <<part, plVars, cnVars, aiVars>>
  \/ /\ part = "ai" /\ Initializer!Next
     /\ UNCHANGED <<part, plVars, cnVars, pxVars>>

sumVars == <<part, plVars, cnVars, pxVars, aiVars>>

SumSpec == SumInit /\ [][SumNext]_sumVars

----------------------------------------------------------------------------
\* A container CmdAdd reported as added stays connected until CmdDel, and a failed
\* CmdAdd or a successful CmdDel leaves nothing of the container.
ContainersConsistent == part = "cn" => CNI!ContainersConsistent


\* A started agent has the ports its configuration asks for, whatever runs came
\* before (setupOVSBridge).
BridgeAsConfigured == part = "ai" => Initializer!BridgeAsConfigured
============================================================================
