------------------------------ MODULE NodeRoute ------------------------------
(***************************************************************************)
(* The node route controller of the agent: for every other Node it keeps a  *)
(* tunnel port (with IPSec), OpenFlow flows, an entry of the ipset of Pod   *)
(* CIDRs and a Linux route. Four workers take Nodes from a rate-limited     *)
(* queue that never hands the same Node to two of them; the steps of one    *)
(* Node's sync interleave with those of the others and with Node events.    *)
(***************************************************************************)
EXTENDS Integers, FiniteSets

CONSTANTS Nodes,     \* the other Nodes of the cluster
          CIDRs,     \* Pod CIDRs (a set of strings)
          PodCIDRs,  \* the CIDRs each Node may be given: [Nodes -> SUBSET CIDRs]
          RouteKind, \* "gateway" (encap), "direct" (noEncap) or "none", per Node
          MaxFaults  \* bound on failed calls

VARIABLES
  lister,     \* PodCIDR of each Node in the informer's cache
  nodeQueue,  \* the dirty set of the work queue
  job,        \* the sync of each Node: its next step, the PodCIDR it read
  installed,  \* installedNodes
  nodeFlows,  \* nodeFlowCache of the OpenFlow client
  flows,      \* per CIDR, the Node its flow on the bridge leads to
  ipset, routes, nodeRoutes, \* antreaPodIPSet, Linux routes, Client.nodeRoutes
  ports,      \* IPSec tunnel ports in the OVSDB
  tunnels,    \* their interfaces in the interface store, and whether OFPort is known
  phase,      \* start of the controller
  torn,       \* history: what may be left half done for a Node
  nrFaults

kernel == <<flows, ipset, routes, ports>>
nrVars == <<lister, nodeQueue, job, installed, nodeFlows, kernel, nodeRoutes, tunnels, phase,
            torn, nrFaults>>

None   == "none"   \* no such Node, no entry
NoCIDR == "empty"  \* a Node that has not been given a PodCIDR yet
Idle   == [pc |-> "idle", cidr |-> None]
Fails  == nrFaults < MaxFaults /\ nrFaults' = nrFaults + 1

Init ==
  /\ lister = [n \in Nodes |-> None]
  /\ nodeQueue = {}
  /\ job = [n \in Nodes |-> Idle]
  /\ installed = [n \in Nodes |-> None]
  /\ nodeFlows = [n \in Nodes |-> None]
  /\ flows = [c \in CIDRs |-> None]
  /\ ipset = {} /\ routes = [c \in CIDRs |-> None] /\ nodeRoutes = {}
  /\ ports = {} /\ tunnels = [n \in Nodes |-> None]
  /\ phase = "boot"
  /\ torn = [n \in Nodes |-> "no"]
  /\ nrFaults = 0

---------------------------------------------------------------------------
(* Node events, which enqueueNode turns into entries of the queue.          *)

Observe(n, c) ==
  /\ lister' = [lister EXCEPT ![n] = c]
  /\ nodeQueue' = nodeQueue \cup {n}
  /\ UNCHANGED <<job, installed, nodeFlows, kernel, nodeRoutes, tunnels, phase, torn, nrFaults>>

NodeAdded(n)   == lister[n] = None /\ \E c \in PodCIDRs[n] \cup {NoCIDR} : Observe(n, c)
NodeUpdated(n) == lister[n] = NoCIDR /\ \E c \in PodCIDRs[n] : Observe(n, c)
NodeDeleted(n) == lister[n] # None /\ Observe(n, None)
\* The resync of the informer.
NodeResync(n)  == lister[n] # None /\ Observe(n, lister[n])

---------------------------------------------------------------------------
(* Start: what an earlier run of the agent left is found in the kernel and  *)
(* the OVSDB (initInterfaceStore), then reconcile removes what is stale.    *)

\* A crash inside AddRoutes or DeleteRoutes leaves an ipset entry without its
\* route or a route without its entry.
Leftover(n, c) ==
  /\ phase = "boot"
  /\ torn[n] = "no" /\ \A m \in Nodes \ {n} : torn[m] = "no"
  /\ torn' = [torn EXCEPT ![n] = "old"]
  /\ \E set \in {{}, {c}}, kind \in {None, RouteKind[n]} :
       ipset' = set /\ routes' = [routes EXCEPT ![c] = kind]
  /\ \E known \in {None, "port"} :
       /\ tunnels' = [tunnels EXCEPT ![n] = known]
       /\ ports' = IF known = None THEN {} ELSE {n}
  /\ UNCHANGED <<lister, nodeQueue, job, installed, nodeFlows, flows, nodeRoutes, phase,
                 nrFaults>>

\* No trace of these CIDRs in the ipset and the route table.
Spotless(cs) == \A c \in cs : c \notin ipset /\ routes[c] = None

Desired == {lister[n] : n \in Nodes} \cap CIDRs

\* Reconcile: the ipset entries that are not desired with their routes, then
\* the unknown routes on the gateway.
Reconcile ==
  /\ ipset' = ipset \cap Desired
  /\ routes' = [c \in CIDRs |->
       IF c \notin Desired /\ (c \notin ipset => routes[c] = "gateway") THEN None ELSE routes[c]]

\* removeStaleTunnelPorts: the ports of Nodes that are gone; a port with an
\* old configuration is removed like them.
removeStaleTunnelPorts(gone) ==
  /\ {n \in ports : lister[n] = None} \subseteq gone
  /\ ports' = ports \ gone
  /\ tunnels' = [n \in Nodes |-> IF n \in gone THEN None ELSE tunnels[n]]

StartWorkers ==
  /\ phase = "boot"
  /\ phase' = "running"
  /\ UNCHANGED <<lister, nodeQueue, job, installed, nodeFlows, flows, nodeRoutes>>

reconcile ==
  /\ StartWorkers
  /\ Reconcile
  /\ \E gone \in SUBSET ports : removeStaleTunnelPorts(gone)
  /\ torn' = [n \in Nodes |->
       IF n \notin ports' /\ Spotless(PodCIDRs[n])' THEN "no" ELSE torn[n]]
  /\ UNCHANGED nrFaults

\* An error is logged, what was left stays, and the workers start.
reconcileFails ==
  /\ StartWorkers
  /\ Fails
  /\ UNCHANGED <<ipset, routes, ports, tunnels, torn>>

---------------------------------------------------------------------------
(* processNextWorkItem and syncNodeRoute.                                  *)

Step(n, pc) == job' = [job EXCEPT ![n].pc = pc]
Done(n)     == job' = [job EXCEPT ![n] = Idle] /\ UNCHANGED nodeQueue
\* The item comes back after a back-off.
AddRateLimited(n) ==
  job' = [job EXCEPT ![n] = Idle] /\ nodeQueue' = nodeQueue \cup {n}

\* syncNodeRoute up to its first call: the lister is read, and both branches
\* return at once when installedNodes says that there is nothing to do.
syncNodeRoute(n) ==
  /\ phase = "running" /\ n \in nodeQueue /\ job[n] = Idle
  /\ nodeQueue' = nodeQueue \ {n}
  /\ job' = CASE lister[n] = None /\ installed[n] # None ->
                   [job EXCEPT ![n] = [pc |-> "DeleteRoutes", cidr |-> installed[n]]]
              [] lister[n] \in CIDRs /\ installed[n] = None ->
                   [job EXCEPT ![n] = [pc |-> "createTunnel", cidr |-> lister[n]]]
              [] OTHER -> job
  /\ UNCHANGED <<lister, installed, nodeFlows, kernel, nodeRoutes, tunnels, phase, torn, nrFaults>>

\* createIPSecTunnelPort: the port is created unless the store has it, and
\* OVS is asked for its number unless the store has that.
createIPSecTunnelPort(n) ==
  /\ job[n].pc = "createTunnel"
  /\ ports' = IF tunnels[n] = None THEN ports \cup {n} ELSE ports
  /\ \/ /\ tunnels' = [tunnels EXCEPT ![n] = "port"]
        /\ Step(n, "InstallNodeFlows")
        /\ UNCHANGED <<nodeQueue, torn, nrFaults>>
     \/ /\ tunnels[n] # "port" /\ Fails
        /\ tunnels' = [tunnels EXCEPT ![n] = "noport"]
        /\ torn' = [torn EXCEPT ![n] = "add"]
        /\ AddRateLimited(n)
  /\ UNCHANGED <<lister, installed, nodeFlows, flows, ipset, routes, nodeRoutes, phase>>

\* InstallNodeFlows does nothing when the Node is cached.
InstallNodeFlows(n) ==
  /\ job[n].pc = "InstallNodeFlows"
  /\ Step(n, "AddRoutes")
  /\ nodeFlows' = IF nodeFlows[n] = None THEN [nodeFlows EXCEPT ![n] = job[n].cidr] ELSE nodeFlows
  /\ flows' = IF nodeFlows[n] = None THEN [flows EXCEPT ![job[n].cidr] = n] ELSE flows
  /\ UNCHANGED <<lister, nodeQueue, installed, ipset, routes, ports, nodeRoutes, tunnels, phase,
                 torn, nrFaults>>

InstallNodeFlowsFails(n) ==
  /\ job[n].pc = "InstallNodeFlows" /\ nodeFlows[n] = None
  /\ Fails
  /\ AddRateLimited(n)
  /\ torn' = [torn EXCEPT ![n] = "add"]
  /\ UNCHANGED <<lister, installed, nodeFlows, kernel, nodeRoutes, tunnels, phase>>

\* AddRoutes replaces the route; traffic that the host routes gets none. Only
\* then the Node becomes an installed one.
AddRoutes(n) ==
  LET c == job[n].cidr IN
  /\ job[n].pc = "AddRoutes"
  /\ ipset' = ipset \cup {c}
  /\ routes' = [routes EXCEPT ![c] = IF RouteKind[n] = "none" THEN @ ELSE RouteKind[n]]
  /\ nodeRoutes' = IF RouteKind[n] = "none" THEN nodeRoutes ELSE nodeRoutes \cup {c}
  /\ installed' = [installed EXCEPT ![n] = c]
  /\ torn' = [torn EXCEPT ![n] = IF nodeFlows[n] = c /\ Spotless(PodCIDRs[n] \ {c}) THEN "no" ELSE "add"]
  /\ Done(n)
  /\ UNCHANGED <<lister, nodeFlows, flows, ports, tunnels, phase, nrFaults>>


\* Either call of AddRoutes fails.
AddRoutesFails(n) ==
  /\ job[n].pc = "AddRoutes"
  /\ Fails
  /\ \/ UNCHANGED ipset
     \/ RouteKind[n] # "none" /\ ipset' = ipset \cup {job[n].cidr}
  /\ AddRateLimited(n)
  /\ torn' = [torn EXCEPT ![n] = "add"]
  /\ UNCHANGED <<lister, installed, nodeFlows, flows, routes, ports, nodeRoutes, tunnels, phase>>

\* DeleteRoutes removes the route only if this run of the agent added it.
DeleteRoutes(n) ==
  LET c == job[n].cidr IN
  /\ job[n].pc = "DeleteRoutes"
  /\ ipset' = ipset \ {c}
  /\ routes' = IF c \in nodeRoutes THEN [routes EXCEPT ![c] = None] ELSE routes
  /\ nodeRoutes' = nodeRoutes \ {c}
  /\ Step(n, "UninstallNodeFlows")
  /\ UNCHANGED <<lister, nodeQueue, installed, nodeFlows, flows, ports, tunnels, phase, torn,
                 nrFaults>>

DeleteRoutesFails(n) ==
  /\ job[n].pc = "DeleteRoutes"
  /\ Fails
  /\ \/ UNCHANGED ipset
     \/ job[n].cidr \in nodeRoutes /\ ipset' = ipset \ {job[n].cidr}
  /\ AddRateLimited(n)
  /\ torn' = [torn EXCEPT ![n] = IF @ = "no" THEN "delete" ELSE @]
  /\ UNCHANGED <<lister, installed, nodeFlows, flows, routes, ports, nodeRoutes, tunnels, phase>>


\* UninstallNodeFlows, and with it the end of the installed Node.
UninstallNodeFlows(n) ==
  /\ job[n].pc = "UninstallNodeFlows"
  /\ flows' = IF nodeFlows[n] = None THEN flows ELSE [flows EXCEPT ![nodeFlows[n]] = None]
  /\ nodeFlows' = [nodeFlows EXCEPT ![n] = None]
  /\ installed' = [installed EXCEPT ![n] = None]
  /\ Step(n, "DeletePort")
  /\ UNCHANGED <<lister, nodeQueue, ipset, routes, ports, nodeRoutes, tunnels, phase, torn,
                 nrFaults>>

UninstallNodeFlowsFails(n) ==
  /\ job[n].pc = "UninstallNodeFlows" /\ nodeFlows[n] # None
  /\ Fails
  /\ AddRateLimited(n)
  /\ torn' = [torn EXCEPT ![n] = IF @ = "no" THEN "delete" ELSE @]
  /\ UNCHANGED <<lister, installed, nodeFlows, kernel, nodeRoutes, tunnels, phase>>

DeletePort(n) ==
  /\ job[n].pc = "DeletePort"
  /\ ports' = ports \ {n}
  /\ tunnels' = [tunnels EXCEPT ![n] = None]
  /\ torn' = [torn EXCEPT ![n] = IF @ = "delete" THEN "no" ELSE @]
  /\ Done(n)
  /\ UNCHANGED <<lister, installed, nodeFlows, flows, ipset, routes, nodeRoutes, phase, nrFaults>>

\* The error is returned, but the retry will find no installed Node.
DeletePortFails(n) ==
  /\ job[n].pc = "DeletePort"
  /\ Fails
  /\ AddRateLimited(n)
  /\ torn' = [torn EXCEPT ![n] = "add"]
  /\ UNCHANGED <<lister, installed, nodeFlows, kernel, nodeRoutes, tunnels, phase>>

Worker(n) ==
  \/ syncNodeRoute(n)
  \/ createIPSecTunnelPort(n)
  \/ InstallNodeFlows(n) \/ InstallNodeFlowsFails(n)
  \/ AddRoutes(n) \/ AddRoutesFails(n)
  \/ DeleteRoutes(n) \/ DeleteRoutesFails(n)
  \/ UninstallNodeFlows(n) \/ UninstallNodeFlowsFails(n)
  \/ DeletePort(n) \/ DeletePortFails(n)

Next ==
  \/ reconcile
  \/ reconcileFails
  \/ \E n \in Nodes :
       \/ \E c \in PodCIDRs[n] : Leftover(n, c)
       \/ NodeAdded(n)
       \/ NodeUpdated(n)
       \/ NodeDeleted(n)
       \/ NodeResync(n)
       \/ Worker(n)

\* A worker that has taken an item goes on, and a queued item is taken.
Fairness == WF_nrVars(reconcile) /\ \A n \in Nodes : WF_nrVars(Worker(n))

FairSpec == Init /\ [][Next]_nrVars /\ Fairness

---------------------------------------------------------------------------
\* "A node will be in the map after its flows and routes are installed
\* successfully": between two syncs an installed Node has its tunnel, its
\* flows, its ipset entry and the route its traffic needs. Only a deletion
\* that failed halfway, or flows of another CIDR kept from a failed addition,
\* can break it (torn).
InstalledIsConnected ==
  \A n \in Nodes : (installed[n] # None /\ job[n] = Idle /\ torn[n] = "no") =>
    /\ flows[installed[n]] = n /\ nodeFlows[n] = installed[n]
    /\ installed[n] \in ipset
    /\ RouteKind[n] # "none" => routes[installed[n]] = RouteKind[n]
    /\ n \in ports

\* Once the sync of a Node that left has ended, nothing of it is left, even
\* when the removal of its routes or flows failed and was tried again. Only
\* three things can leave something: an addition that failed halfway, a
\* failed removal of the tunnel port, and a Node that left before an agent
\* that found its routes from an earlier run had added it.
GoneLeavesNothing ==
  \A n \in Nodes :
    (phase = "running" /\ lister[n] = None /\ n \notin nodeQueue /\ job[n] = Idle
       /\ torn[n] \in {"no", "delete"}) =>
      /\ nodeFlows[n] = None /\ n \notin ports /\ tunnels[n] = None
      /\ Spotless(PodCIDRs[n]) /\ \A c \in CIDRs : flows[c] # n

\* A start that reconciles removes no route of a Node of the cluster.
ReconcileKeepsDesired ==
  [][phase = "boot" /\ phase' = "running" =>
       \A c \in Desired : (c \in ipset => c \in ipset') /\ routes'[c] = routes[c]]_nrVars

\* A Node that stays with a PodCIDR is connected in the end, and one that
\* stays away is forgotten, whatever calls fail on the way.
FollowsNodes ==
  \A n \in Nodes :
    /\ []<>(lister[n] \in CIDRs => installed[n] # None)
    /\ <>[](lister[n] = None) => <>[](installed[n] = None)


=============================================================================
