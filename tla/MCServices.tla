---------------------------- MODULE MCServices ----------------------------
(*****************************************************************************)
(* Small instances of the components of the agent and of the controller      *)
(* whose properties need fairness, beside the allocator of flow ids and      *)
(* tags. The components share no state here: a behaviour runs the one that   *)
(* part names, and the others keep their initial values. SumFairSpec is the  *)
(* fairness of each component's FairSpec, asked for only while that          *)
(* component runs.                                                           *)
(*****************************************************************************)
EXTENDS MCIDAllocator, OpenFlowClient, Traceflow, SupportBundle

VARIABLES part, \* the component that runs in this behaviour
  lister, nodeQueue, nrJob, installed, nodeFlows, flows, ipset, routes,
  nodeRoutes, ports, tunnels, phase, nrTorn, nrFaults,
  svc, eps, synced, svcChange, epsChange, runReq, pxSync, serviceMap,
  endpointsMap, serviceInstalled, endpointInstalled, byIP, groupMap, recycled,
  counter, svcFlows, groups, epFlows, borrowed, pxTorn, panicked, changes,
  pxFaults,
  ct, conns, records, poll, pollCycle, export, process, dumped, sent, reborn,
  opens, feFaults,
  certFile, keyFile, serving, rotator, caContent, caQueue, caSync, published,
  agentCA, client, lostUpdate, caFaults,
  nodes, moView, deletes, booting, infos, epoch, cached, step, starts, kept,
  moFaults

nrVars == <<lister, nodeQueue, nrJob, installed, nodeFlows, flows, ipset,
  routes, nodeRoutes, ports, tunnels, phase, nrTorn, nrFaults>>
pxVars == <<svc, eps, synced, svcChange, epsChange, runReq, pxSync,
  serviceMap, endpointsMap, serviceInstalled, endpointInstalled, byIP,
  groupMap, recycled, counter, svcFlows, groups, epFlows, borrowed, pxTorn,
  panicked, changes, pxFaults>>
feVars == <<ct, conns, records, poll, pollCycle, export, process, dumped,
  sent, reborn, opens, feFaults>>
caVars == <<certFile, keyFile, serving, rotator, caContent, caQueue, caSync,
  published, agentCA, client, lostUpdate, caFaults>>
moVars == <<nodes, moView, deletes, booting, infos, epoch, cached, step,
  starts, kept, moFaults>>

Routes == INSTANCE NodeRoute WITH
  Nodes <- {"n1"}, CIDRs <- {"c1", "c2"},
  PodCIDRs <- [n \in {"n1"} |-> {"c1", "c2"}],
  RouteKind <- [n \in {"n1"} |-> "gateway"], MaxFaults <- 3, job <- nrJob,
  torn <- nrTorn

Proxy == INSTANCE Proxier WITH
  Services <- {"s", "t"}, IPs <- {"i", "j"}, Ports <- {80},
  Endpoints <- {"e", "f", "g"},
  EndpointsOf <- [s |-> {"e", "f"}, t |-> {"g"}], MaxGroup <- 3,
  MaxChanges <- 3, MaxFaults <- 1, sync <- pxSync, torn <- pxTorn

Exporter == INSTANCE FlowExporter WITH
  Keys <- {"k"}, Inbound <- {}, ExportFrequency <- 2, MaxTraffic <- 3,
  MaxOpens <- 2, MaxFaults <- 2

Cert == INSTANCE CACert WITH
  Targets <- <<"configmap", "apiservice", "webhook">>, MaxVersion <- 3,
  MaxFaults <- 2, sync <- caSync

Info == INSTANCE Monitor WITH
  Nodes <- {"n"}, Controller <- "c", MaxStarts <- 4, MaxFaults <- 1,
  view <- moView

SumInit ==
  /\ part \in {"id", "of", "nr", "px", "fe", "tf", "ca", "mo", "sb"}
  /\ Init /\ FlowInit /\ Routes!Init /\ Proxy!Init /\ Exporter!Init /\
     TraceInit /\ Cert!Init /\ Info!Init /\ BundleInit
  /\ part # "id" => held = {}

SumNext ==
  \/ /\ part = "id" /\ Next
     /\ UNCHANGED <<part, ofVars, nrVars, pxVars, feVars, tfVars, caVars,
                   moVars, sbVars>>
  \/ /\ part = "of" /\ FlowNext
     /\ UNCHANGED <<part, vars, nrVars, pxVars, feVars, tfVars, caVars,
                   moVars, sbVars>>
  \/ /\ part = "nr" /\ Routes!Next
     /\ UNCHANGED <<part, vars, ofVars, pxVars, feVars, tfVars, caVars,
                   moVars, sbVars>>
  \/ /\ part = "px" /\ Proxy!Next
     /\ UNCHANGED <<part, vars, ofVars, nrVars, feVars, tfVars, caVars,
                   moVars, sbVars>>
  \/ /\ part = "fe" /\ Exporter!Next
     /\ UNCHANGED <<part, vars, ofVars, nrVars, pxVars, tfVars, caVars,
                   moVars, sbVars>>
  \/ /\ part = "tf" /\ TraceNext
     /\ UNCHANGED <<part, vars, ofVars, nrVars, pxVars, feVars, caVars,
                   moVars, sbVars>>
  \/ /\ part = "ca" /\ Cert!Next
     /\ UNCHANGED <<part, vars, ofVars, nrVars, pxVars, feVars, tfVars,
                   moVars, sbVars>>
  \/ /\ part = "mo" /\ Info!Next
     /\ UNCHANGED <<part, vars, ofVars, nrVars, pxVars, feVars, tfVars,
                   caVars, sbVars>>
  \/ /\ part = "sb" /\ BundleNext
     /\ UNCHANGED <<part, vars, ofVars, nrVars, pxVars, feVars, tfVars,
                   caVars, moVars>>

sumVars == <<part, vars, ofVars, nrVars, pxVars, feVars, tfVars, caVars,
  moVars, sbVars>>

SumSpec == SumInit /\ [][SumNext]_sumVars

\* The fairness of each component, while it is the one that runs.
SumFairSpec ==
  /\ SumSpec
  /\ WF_ofVars(part = "of" /\ Initialize)
  /\ WF_ofVars(part = "of" /\ InstallFixedFlows)
  /\ WF_ofVars(part = "of" /\ SwitchConnected)
  /\ WF_ofVars(part = "of" /\ Replayer)
  /\ WF_ofVars(part = "of" /\ Cleaner)
  /\ \A k \in Keys : WF_ofVars(part = "of" /\ (storeFlows(k) \/ dropFlows(k)))
  /\ WF_nrVars(part = "nr" /\ Routes!reconcile)
  /\ WF_nrVars(part = "nr" /\ Routes!Worker("n1"))
  /\ WF_pxVars(part = "px" /\ Proxy!syncProxyRules(TRUE))
  /\ WF_pxVars(part = "px" /\ Proxy!Runner)
  /\ WF_feVars(part = "fe" /\ Exporter!PollPass)
  /\ WF_feVars(part = "fe" /\ Exporter!Signal)
  /\ WF_feVars(part = "fe" /\ Exporter!ExportPass)
  /\ \A t \in Requests : /\ WF_tfVars(part = "tf" /\ TimePasses(t))
                         /\ WF_tfVars(part = "tf" /\ Observe(t))
                         /\ WF_tfVars(part = "tf" /\ Worker(t))
  /\ WF_tfVars(part = "tf" /\ checkTraceflowTimeout)
  /\ WF_caVars(part = "ca" /\ Cert!Rotate)
  /\ WF_caVars(part = "ca" /\ Cert!PollFile)
  /\ WF_caVars(part = "ca" /\ Cert!ReloadServing)
  /\ WF_caVars(part = "ca" /\ Cert!SyncPass)
  /\ WF_caVars(part = "ca" /\ Cert!updateAntreaClient)
  /\ WF_moVars(part = "mo" /\ Info!Events)
  /\ \A n \in {"n", "c"} : WF_moVars(part = "mo" /\ Info!Pass(n))
  /\ \A c \in Collections : WF_sbVars(part = "sb" /\ Step(c))

----------------------------------------------------------------------------
\* DeleteStaleFlows removes the flows of the run before in the end, and
\* FlowRestoreComplete comes: flow-restore-wait does not stay set.
RestartsAreOver == StaleFlowsGo /\ []<>(part = "of" => ~restoreWait)



\* A change of a Service or of Endpoints reaches syncProxyRules without the
\* periodic run of the runner.
ChangesGetSynced == Proxy!ChangesGetSynced



\* Every client comes to trust the certificate the controller serves
\* (syncCACert).
ClientsTrustServer == <>[](part = "ca" => Cert!Trusted)

\* A process that keeps running comes to have its own agent or controller object,
\* and the object of a Node that has gone is deleted (syncAgentCRD,
\* syncControllerCRD, deleteStaleAgentCRD).
InfosFollow == <>[](part = "mo" => Info!Reported) /\ Info!GoneIsForgotten

============================================================================
