-------------------------------- MODULE Proxier --------------------------------
(***************************************************************************)
(* AntreaProxy. Informer handlers accumulate changes of Services and        *)
(* Endpoints in two trackers; syncProxyRules, run by a runner that          *)
(* coalesces requests, takes the changes over and brings the OpenFlow       *)
(* entries up to date: for a Service a flow per address to a group, whose   *)
(* buckets are its Endpoints, and a DNAT flow per Endpoint.                 *)
(* syncProxyRules is one thread, while the handlers run in others; a step   *)
(* of it is the work on one Service or one stale Endpoint.                  *)
(***************************************************************************)
EXTENDS Integers, Sequences, FiniteSets

CONSTANTS Services,   \* Service ports by name
          IPs, Ports, \* ClusterIPs and load balancer ingress IPs; Service ports
          Endpoints,
          EndpointsOf,\* the Endpoints a Service may have
          MaxGroup,   \* bound on the group ids
          MaxChanges, \* bound on changes of Services and Endpoints
          MaxFaults

VARIABLES
  svc, eps,          \* the objects as the informers have them
  synced,            \* which trackers are initialized
  svcChange,         \* serviceChanges: Services with a pending change
  epsChange,         \* endpointsChanges: the Endpoints before the pending change
  runReq,            \* the run channel of the runner
  sync,              \* syncProxyRules: phase and what it still has to visit
  serviceMap, endpointsMap, serviceInstalled, endpointInstalled,
  byIP,              \* serviceStringMap
  groupMap, recycled, counter, \* the GroupCounter
  svcFlows,          \* OpenFlow: the group an address's flow leads to
  groups,            \* OpenFlow: buckets
  epFlows,           \* OpenFlow: Endpoints with a DNAT flow
  borrowed,          \* history: Services that were given a recycled group id
  torn,              \* history: a failed call left something behind
  panicked, changes, pxFaults

inputs  == <<svc, eps, synced, svcChange, epsChange, runReq>>
believed == <<serviceMap, endpointsMap, serviceInstalled, endpointInstalled, byIP>>
ids     == <<groupMap, recycled, counter>>
of      == <<svcFlows, groups, epFlows>>
pxVars  == <<inputs, sync, believed, ids, of, borrowed, torn, panicked, changes, pxFaults>>

NoIP    == "none"
NoSvc   == [ip |-> NoIP, lb |-> NoIP, port |-> 0]
Infos   == [ip : IPs, lb : IPs \cup {NoIP}, port : Ports]
Addresses == IPs \X Ports
None    == [known |-> FALSE, eps |-> {}]
Known(es) == [known |-> TRUE, eps |-> es]
NoGroup == 0
Idle    == [phase |-> "idle", todo |-> {}, stale |-> {}]
Fault   == pxFaults < MaxFaults /\ pxFaults' = pxFaults + 1
AddrsOf(i) == ({i.ip, i.lb} \ {NoIP}) \X {i.port}
ClusterAddr(i) == <<i.ip, i.port>>

Init ==
  /\ svc = [s \in Services |-> NoSvc] /\ eps = [s \in Services |-> {}]
  /\ synced = {} /\ svcChange = {} /\ epsChange = [s \in Services |-> None]
  /\ runReq = FALSE /\ sync = Idle
  /\ serviceMap = svc /\ endpointsMap = eps /\ serviceInstalled = svc
  /\ endpointInstalled = [s \in Services |-> [nil |-> FALSE, eps |-> {}]]
  /\ byIP = [a \in Addresses |-> "none"]
  /\ groupMap = [s \in Services |-> NoGroup] /\ recycled = << >> /\ counter = 0
  /\ svcFlows = [a \in Addresses |-> NoGroup] /\ groups = [g \in 1 .. MaxGroup |-> {}] /\ epFlows = {}
  /\ borrowed = {} /\ torn = FALSE /\ panicked = FALSE /\ changes = 0 /\ pxFaults = 0

---------------------------------------------------------------------------
(* Events. A change that undoes the pending one removes it.                *)

Initialized == synced = {"services", "endpoints"}
Handler == ~panicked /\ UNCHANGED <<sync, believed, ids, of, borrowed, torn, panicked, pxFaults>>
Changing == changes < MaxChanges /\ changes' = changes + 1

OnServiceUpdateDropped(s, i) ==
  /\ Changing /\ Handler
  /\ i # svc[s] /\ NoSvc \in {i, svc[s]} /\ i.lb = NoIP
  /\ \A t \in Services : i.ip # svc[t].ip
  /\ svc' = [svc EXCEPT ![s] = i]
  /\ svcChange' = IF i = serviceMap[s] THEN svcChange \ {s} ELSE svcChange \cup {s}
  /\ runReq' = (runReq \/ (sync = Idle /\ svcChange' # {} /\ Initialized))
  /\ UNCHANGED <<eps, synced, epsChange>>

\* OnServiceUpdate. A Service keeps its ClusterIP; no other has the same IPs.
OnServiceUpdate(s, i) ==
  /\ Changing /\ Handler
  /\ i # svc[s]
  /\ NoSvc \in {i, svc[s]} \/ i.ip = svc[s].ip
  /\ i = NoSvc \/ \A t \in Services : t # s => {i.ip, i.lb} \cap {svc[t].ip, svc[t].lb} \subseteq {NoIP}
  /\ i = NoSvc \/ i.ip # i.lb
  /\ svc' = [svc EXCEPT ![s] = i]
  /\ svcChange' = IF i = serviceMap[s] THEN svcChange \ {s} ELSE svcChange \cup {s}
  /\ runReq' = (runReq \/ (svcChange' # {} /\ Initialized))
  /\ UNCHANGED <<eps, synced, epsChange>>

OnEndpointsUpdate(s, es) ==
  /\ Changing /\ Handler
  /\ es # eps[s]
  /\ eps' = [eps EXCEPT ![s] = es]
  /\ LET prev == IF epsChange[s].known THEN epsChange[s].eps ELSE eps[s]
     IN epsChange' = [epsChange EXCEPT ![s] = IF prev = es THEN None ELSE Known(prev)]
  /\ runReq' = (runReq \/ (Initialized /\ \E t \in Services : epsChange'[t].known))
  /\ UNCHANGED <<svc, synced, svcChange>>

\* OnServiceSynced and OnEndpointsSynced, after the events of the first list.
OnSynced(what) ==
  /\ Handler /\ what \notin synced
  /\ synced' = synced \cup {what}
  /\ runReq' = (runReq \/ synced' = {"services", "endpoints"})
  /\ UNCHANGED <<svc, eps, svcChange, epsChange, changes>>

---------------------------------------------------------------------------
(* The group counter. A recycled id is handed out without being recorded.  *)

Get(s) ==
  CASE groupMap[s] # NoGroup -> [id |-> groupMap[s], map |-> groupMap, rec |-> recycled, cnt |-> counter]
    [] groupMap[s] = NoGroup /\ recycled # << >> ->
         [id |-> recycled[Len(recycled)], map |-> groupMap, rec |-> SubSeq(recycled, 1, Len(recycled) - 1),
          cnt |-> counter]
    [] OTHER -> [id |-> counter + 1, map |-> [groupMap EXCEPT ![s] = counter + 1], rec |-> recycled,
                 cnt |-> counter + 1]

Took(s, got) ==
  borrowed' = IF groupMap[s] = NoGroup /\ recycled # << >> THEN borrowed \cup {s} ELSE borrowed

---------------------------------------------------------------------------
(* syncProxyRules                                                          *)

\* The runner calls it when requested, or after 30 s without a run; before both
\* trackers are initialized it returns at once. The changes are checked out.
syncProxyRules(requested) ==
  /\ ~panicked /\ sync = Idle /\ Initialized
  /\ requested => runReq
  /\ runReq' = FALSE
  /\ endpointsMap' = eps /\ serviceMap' = svc
  /\ svcChange' = {} /\ epsChange' = [s \in Services |-> None]
  /\ sync' = [phase |-> "removeServices",
              todo |-> {s \in Services : serviceInstalled[s] # NoSvc /\ svc[s] = NoSvc},
              stale |-> {<<s, e>> \in Services \X Endpoints : epsChange[s].known /\ e \in epsChange[s].eps \ eps[s]}]
  /\ UNCHANGED <<svc, eps, synced, serviceInstalled, endpointInstalled, byIP, ids, of, borrowed, torn,
                 panicked, changes, pxFaults>>

Visit(s, phase) ==
  /\ ~panicked /\ sync.phase = phase /\ s \in sync.todo
  /\ sync' = [sync EXCEPT !.todo = @ \ {s}]
  /\ UNCHANGED inputs /\ UNCHANGED <<serviceMap, endpointsMap, changes>>

\* The last visit of a phase is followed by the next phase.
NextPhase ==
  /\ ~panicked /\ sync.phase # "idle" /\ sync.todo = {}
  /\ sync' = CASE sync.phase = "removeServices" ->
                    [sync EXCEPT !.phase = "install", !.todo = {s \in Services : serviceMap[s] # NoSvc}]
               [] sync.phase = "install" -> [sync EXCEPT !.phase = "removeEndpoints"]
               [] OTHER -> IF sync.stale = {} THEN Idle ELSE sync
  /\ sync' # sync
  /\ UNCHANGED <<inputs, believed, ids, of, borrowed, torn, panicked, changes, pxFaults>>

GetFor(s) ==
  LET got == Get(s)
  IN /\ got.id <= MaxGroup
     /\ groupMap' = got.map /\ recycled' = got.rec /\ counter' = got.cnt
     /\ Took(s, got)

\* removeStaleServices: the flows, the group, and the flows of Endpoints that
\* the Service still has; the group id is recycled if it was recorded.
Removed(s, addrs, es) ==
  LET got == Get(s)
  IN /\ got.id <= MaxGroup
     /\ svcFlows' = [a \in Addresses |-> IF a \in addrs THEN NoGroup ELSE svcFlows[a]]
     /\ groups' = [groups EXCEPT ![got.id] = {}]
     /\ epFlows' = epFlows \ es
     /\ groupMap' = [got.map EXCEPT ![s] = NoGroup]
     /\ recycled' = IF got.map[s] # NoGroup THEN Append(got.rec, got.id) ELSE got.rec
     /\ counter' = got.cnt
     /\ serviceInstalled' = [serviceInstalled EXCEPT ![s] = NoSvc]
     /\ byIP' = [byIP EXCEPT ![ClusterAddr(serviceInstalled[s])] = "none"]
     /\ borrowed' = borrowed \ {s}

removeStaleService(s) ==
  /\ Visit(s, "removeServices")
  /\ Removed(s, AddrsOf(serviceInstalled[s]), endpointsMap[s])
  /\ UNCHANGED <<endpointInstalled, torn, panicked, pxFaults>>

\* The first call or that for the group fails, and the Service stays in
\* serviceInstalledMap; a failure with an ingress IP or an Endpoint is only
\* logged.
removeStaleServiceFails(s) ==
  LET addrs == AddrsOf(serviceInstalled[s])
  IN /\ Visit(s, "removeServices") /\ Fault /\ torn' = TRUE
     /\ \/ UNCHANGED <<serviceInstalled, byIP, ids, of, borrowed>>
        \/ /\ GetFor(s)
           /\ svcFlows' = [a \in Addresses |-> IF a \in addrs THEN NoGroup ELSE svcFlows[a]]
           /\ UNCHANGED <<serviceInstalled, byIP, groups, epFlows>>
        \/ addrs # {ClusterAddr(serviceInstalled[s])} /\ Removed(s, {ClusterAddr(serviceInstalled[s])}, endpointsMap[s])
        \/ \E e \in endpointsMap[s] : Removed(s, addrs, endpointsMap[s] \ {e})
     /\ UNCHANGED <<endpointInstalled, panicked>>

\* installServices. Nothing is done for a Service without Endpoints, or with
\* the Endpoints and (by Equal) the properties that are installed.
Equal(i, j) == i.port = j.port /\ (i.lb = NoIP) = (j.lb = NoIP)
New(s) == endpointsMap[s] \ endpointInstalled[s].eps
NeedUpdate(s) == ~Equal(serviceInstalled[s], serviceMap[s]) \/ New(s) # {}

skipService(s) ==
  /\ Visit(s, "install") /\ ~endpointInstalled[s].nil
  /\ endpointsMap[s] = {} \/ ~NeedUpdate(s)
  /\ GetFor(s)
  /\ UNCHANGED <<serviceInstalled, endpointInstalled, byIP, of, torn, panicked, pxFaults>>

\* A flow that exists for the address is left as it is (addFlows), and so are
\* the flows of addresses that the Service had and has no longer.
LeavesFlows(s) == ~(AddrsOf(serviceInstalled[s]) \subseteq AddrsOf(serviceMap[s]))

InstallServiceFlows(s, addrs) ==
  /\ svcFlows' = [a \in Addresses |-> IF a \in addrs /\ svcFlows[a] = NoGroup THEN Get(s).id ELSE svcFlows[a]]
  /\ serviceInstalled' = [serviceInstalled EXCEPT ![s] = serviceMap[s]]
  /\ byIP' = [byIP EXCEPT ![ClusterAddr(serviceMap[s])] = s]


installService(s) ==
  /\ Visit(s, "install") /\ ~endpointInstalled[s].nil
  /\ endpointsMap[s] # {} /\ NeedUpdate(s)
  /\ GetFor(s)
  /\ endpointInstalled' = [endpointInstalled EXCEPT ![s].eps = @ \cup endpointsMap[s]]
  /\ epFlows' = epFlows \cup endpointsMap[s]
  /\ groups' = [groups EXCEPT ![Get(s).id] = endpointsMap[s]]
  /\ InstallServiceFlows(s, AddrsOf(serviceMap[s]))
  /\ torn' = (torn \/ LeavesFlows(s))
  /\ UNCHANGED <<panicked, pxFaults>>

\* A call fails: the Endpoints are marked as installed all the same, and the
\* mark is the only thing that would have the update of an installed Service
\* tried again. When the group fails the map of the marks is set to nil. A
\* failure with the flows of an ingress IP is only logged.
installServiceFails(s) ==
  LET marked == [endpointInstalled EXCEPT ![s].eps = @ \cup endpointsMap[s]]
      group  == [groups EXCEPT ![Get(s).id] = endpointsMap[s]]
      kept   == UNCHANGED <<serviceInstalled, byIP, svcFlows>>
                /\ torn' = (torn \/ Equal(serviceInstalled[s], serviceMap[s]))
  IN /\ Visit(s, "install") /\ ~endpointInstalled[s].nil
     /\ endpointsMap[s] # {} /\ NeedUpdate(s) /\ Fault
     /\ GetFor(s)
     /\ \/ endpointInstalled' = marked /\ kept /\ UNCHANGED <<epFlows, groups>>
        \/ /\ epFlows' = epFlows \cup endpointsMap[s]
           /\ \/ /\ endpointInstalled' = [endpointInstalled EXCEPT ![s] = [nil |-> TRUE, eps |-> {}]]
                 /\ kept /\ UNCHANGED groups
              \/ endpointInstalled' = marked /\ kept /\ groups' = group
              \/ /\ serviceMap[s].lb # NoIP /\ torn' = TRUE
                 /\ endpointInstalled' = marked /\ groups' = group
                 /\ InstallServiceFlows(s, {ClusterAddr(serviceMap[s])})
     /\ UNCHANGED panicked

\* Marking an Endpoint in the nil map panics.
installServicePanics(s) ==
  /\ Visit(s, "install") /\ endpointInstalled[s].nil
  /\ panicked' = (endpointsMap[s] # {})
  /\ GetFor(s)
  /\ UNCHANGED <<serviceInstalled, endpointInstalled, byIP, of, torn, pxFaults>>

\* removeStaleEndpoints
removeStaleEndpoint(s, e) ==
  /\ ~panicked /\ sync.phase = "removeEndpoints" /\ <<s, e>> \in sync.stale
  /\ sync' = [sync EXCEPT !.stale = @ \ {<<s, e>>}]
  /\ epFlows' = epFlows \ {e}
  /\ endpointInstalled' = [endpointInstalled EXCEPT ![s] = [nil |-> FALSE, eps |-> @.eps \ {e}]]
  /\ UNCHANGED <<inputs, serviceMap, endpointsMap, serviceInstalled, byIP, ids, svcFlows, groups, borrowed, torn,
                 panicked, changes, pxFaults>>

removeStaleEndpointFails(s, e) ==
  /\ ~panicked /\ sync.phase = "removeEndpoints" /\ <<s, e>> \in sync.stale /\ Fault
  /\ sync' = [sync EXCEPT !.stale = @ \ {<<s, e>>}]
  /\ torn' = TRUE
  /\ UNCHANGED <<inputs, believed, ids, of, borrowed, panicked, changes>>

\* The rest of syncProxyRules, on the goroutine of the runner.
Runner ==
  \/ NextPhase
  \/ \E s \in Services :
       \/ removeStaleService(s) \/ removeStaleServiceFails(s)
       \/ skipService(s) \/ installService(s) \/ installServiceFails(s) \/ installServicePanics(s)
  \/ \E s \in Services, e \in Endpoints : removeStaleEndpoint(s, e) \/ removeStaleEndpointFails(s, e)

Next ==
  \/ \E s \in Services : \E i \in Infos \cup {NoSvc} : OnServiceUpdate(s, i)
  \/ \E s \in Services : \E es \in SUBSET EndpointsOf[s] : OnEndpointsUpdate(s, es)
  \/ \E what \in {"services", "endpoints"} : OnSynced(what)
  \/ \E requested \in BOOLEAN : syncProxyRules(requested)
  \/ Runner

Spec == Init /\ [][Next]_pxVars

\* The runner's loop takes requests and syncProxyRules always comes to its end;
\* the periodic run is not relied upon.
FairSpec == Spec /\ WF_pxVars(syncProxyRules(TRUE)) /\ WF_pxVars(Runner)

---------------------------------------------------------------------------
(* Properties                                                              *)

Settled == sync = Idle /\ ~panicked

\* After syncProxyRules every address of an installed Service leads to a group
\* with all of its Endpoints, each with its flow, and GetServiceByIP names the
\* Service: also when it took over the IP of a deleted Service, and when an
\* attempt to install it had failed. The exceptions are Services that got a
\* recycled group id, and flows that were left behind earlier.
EndpointsServed ==
  Settled /\ ~torn => \A s \in Services :
    serviceMap[s] # NoSvc /\ serviceInstalled[s] = serviceMap[s] /\ s \notin borrowed /\ ~endpointInstalled[s].nil =>
      /\ endpointsMap[s] \subseteq epFlows
      /\ \A a \in AddrsOf(serviceMap[s]) : svcFlows[a] # NoGroup /\ endpointsMap[s] \subseteq groups[svcFlows[a]]
      /\ byIP[ClusterAddr(serviceMap[s])] = s

\* After syncProxyRules no address of a deleted Service has a flow or resolves
\* to a Service, no Endpoint flow is left that no Service asks for, and no two
\* Services send their traffic to the same group.
NothingLeftBehind ==
  Settled /\ ~torn =>
    /\ \A a \in Addresses : svcFlows[a] # NoGroup \/ byIP[a] # "none" =>
         \E s \in Services : a \in AddrsOf(serviceInstalled[s]) /\ serviceMap[s] # NoSvc
    /\ epFlows \subseteq UNION {endpointsMap[s] : s \in Services}
    /\ \A s, t \in Services : s # t =>
         \A a \in AddrsOf(serviceInstalled[s]), b \in AddrsOf(serviceInstalled[t]) : svcFlows[a] # svcFlows[b]

\* A change of a Service or of Endpoints reaches syncProxyRules without waiting
\* for the periodic run: requests to a busy runner are dropped only if another
\* one is waiting.
ChangesGetSynced ==
  []<>(panicked \/ ~Initialized \/ (svcChange = {} /\ \A s \in Services : ~epsChange[s].known))

=============================================================================
