------------------------------- MODULE Pipeline -------------------------------
(***************************************************************************)
(* The OpenFlow pipeline of a Node in encap mode, with AntreaProxy and       *)
(* Antrea policies: what the flows of pipeline.go do to a packet, table by   *)
(* table, against conntrack, one Service and the policy rules of the moment. *)
(* An address stands for its host, a MAC and an OpenFlow port for theirs, an  *)
(* id for L4 ports; protocols, ARP, counters and Traceflow are left out. The *)
(* entries change between two packets: OVS runs a packet on one version.     *)
(***************************************************************************)
EXTENDS Integers, FiniteSets

CONSTANTS Pods, RemotePods, Gateway, Service, Hairpin,  \* addresses; Hairpin is hairpinIP
          Rules,          \* policy rules: [pod, peer, antrea, k8s]
          Ids,            \* the L4 ports of a connection
          Affinity,       \* the Service has session affinity
          MaxPackets, MaxChanges

\* The addresses are different, and none is a name the model gives to something else.
ASSUME PipelineAssumption ==
  /\ Pods \cap RemotePods = {}
  /\ {Gateway, Service, Hairpin} \cap (Pods \cup RemotePods) = {}
  /\ Gateway # Service /\ Gateway # Hairpin /\ Service # Hairpin
  /\ {"none", "drop", "tunnel", "vmac"} \cap (Pods \cup RemotePods \cup {Gateway, Service, Hairpin}) = {}

VARIABLES
  pkt,        \* the packet in the pipeline, or NoPacket
  conns,      \* conntrack zone: [id, src, dst, ep, mark, seen]
  egress, ingress,   \* a rule of each direction
  buckets,    \* Endpoints in the group of the Service
  dnats,      \* Endpoints with an endpointDNATFlow
  learned,    \* sessionAffinityTable: the Endpoint learned for a client
  out,        \* history: the last packet that left, with the way it came
  packets, changes

plVars == <<pkt, conns, egress, ingress, buckets, dnats, learned, out, packets, changes>>

None     == "none"
NoPacket == [table |-> None]
Nothing  == [port |-> None]
NoRule   == [pod |-> None, peer |-> None, antrea |-> None, k8s |-> None]
Clients  == Pods
Entries  == <<egress, ingress, buckets, dnats>>

Init ==
  /\ pkt = NoPacket /\ conns = {} /\ out = Nothing
  /\ egress = NoRule /\ ingress = NoRule
  /\ buckets = {} /\ dnats = {} /\ learned = [c \in Clients |-> None]
  /\ packets = 0 /\ changes = 0

---------------------------------------------------------------------------
(* The entries the rest of the agent installs                              *)

ChangeRule ==
  /\ pkt = NoPacket /\ out' = Nothing /\ changes < MaxChanges /\ changes' = changes + 1
  /\ \E r \in Rules : \/ r # egress /\ egress' = r /\ UNCHANGED ingress
                      \/ r # ingress /\ ingress' = r /\ UNCHANGED egress
  /\ UNCHANGED <<pkt, conns, buckets, dnats, learned, packets>>

\* The proxier installs the flows of an Endpoint before the group with it; it
\* removes them without the group when the Service has not changed otherwise.
AddEndpoint(e) ==
  /\ pkt = NoPacket /\ out' = Nothing /\ changes < MaxChanges /\ changes' = changes + 1
  /\ e \notin dnats /\ dnats' = dnats \cup {e} /\ buckets' = dnats \cup {e}
  /\ UNCHANGED <<pkt, conns, egress, ingress, learned, packets>>

RemoveEndpoint(e) ==
  /\ pkt = NoPacket /\ out' = Nothing /\ changes < MaxChanges /\ changes' = changes + 1
  /\ e \in dnats /\ dnats' = dnats \ {e}
  /\ buckets' \in {buckets, dnats \ {e}}
  /\ UNCHANGED <<pkt, conns, egress, ingress, learned, packets>>

---------------------------------------------------------------------------
(* Packets that enter                                                      *)

Packet(id, in, src, dst, dmac) ==
  [id |-> id, table |-> "classifier", in |-> in, src |-> src, dst |-> dst, dmac |-> dmac, from |-> None,
   rewrite |-> FALSE, learn |-> "none", ep |-> None, port |-> None, hairpin |-> FALSE, drop |-> FALSE,
   state |-> None, mark |-> None, resubmits |-> 0, sender |-> src]

\* A Pod sends to another Pod, the Service, a remote Pod, the Node, or answers
\* its own hairpin connection; possibly with an address that is not its own.
\* The Node sends from the gateway; remote Pods send through the tunnel.
Arrivals ==
       {Packet(i, p, s, d, IF d \in Pods THEN d ELSE Gateway) :
          i \in Ids, p \in Pods, s \in Pods, d \in Pods \cup RemotePods \cup {Gateway, Service, Hairpin}}
  \cup {Packet(i, Gateway, Gateway, p, p) : i \in Ids, p \in Pods}
  \cup {Packet(i, "tunnel", r, p, "vmac") : i \in Ids, r \in RemotePods, p \in Pods}

Arrive ==
  /\ pkt = NoPacket /\ packets < MaxPackets /\ packets' = packets + 1
  /\ pkt' \in {a \in Arrivals : /\ a.src # a.dst
                                /\ a.dst = Hairpin => \E c \in conns : c.id = a.id /\ c.src = a.in /\ c.ep = a.in}
  /\ out' = Nothing
  /\ UNCHANGED <<conns, Entries, learned, changes>>

---------------------------------------------------------------------------
(* Moves                                                                   *)

At(t)     == pkt.table = t
Go(p, t)  == /\ pkt' = [p EXCEPT !.table = t]
             /\ UNCHANGED <<Entries, out, packets, changes>>
Leave(p, port) ==
  /\ pkt' = NoPacket /\ out' = [port |-> port, pkt |-> p]
  /\ UNCHANGED <<conns, Entries, learned, packets, changes>>
Drop      == Leave(pkt, "drop")
Same      == UNCHANGED <<conns, learned>>

\* ct(commit): a connection that is not tracked yet is added, with its mark;
\* an existing one takes the mark.
Commit(src, dst, ep, mark) ==
  LET old == {c \in conns : c.id = pkt.id /\ c.src = src /\ c.ep = ep}
  IN IF old = {} THEN conns \cup {[id |-> pkt.id, src |-> src, dst |-> dst, ep |-> ep, mark |-> mark, seen |-> FALSE]}
     ELSE (conns \ old) \cup {[c EXCEPT !.mark = IF mark = None THEN @ ELSE mark] : c \in old}
CommitPkt(mark) == Commit(pkt.src, pkt.dst, pkt.dst, mark)

---------------------------------------------------------------------------
(* Classification and spoof guard                                          *)

\* tunnelClassifierFlow, gatewayClassifierFlow, podClassifierFlow
Classifier ==
  /\ At("classifier") /\ Same
  /\ \/ pkt.in = "tunnel" /\ Go([pkt EXCEPT !.from = "tunnel", !.rewrite = TRUE], "conntrack")
     \/ pkt.in = Gateway  /\ Go([pkt EXCEPT !.from = "gateway"], "spoofGuard")
     \/ pkt.in \in Pods   /\ Go([pkt EXCEPT !.from = "local"], "spoofGuard")

\* podIPSpoofGuardFlow, gatewayIPSpoofGuardFlow
SpoofGuard ==
  /\ At("spoofGuard")
  /\ \/ (pkt.in = Gateway \/ pkt.src = pkt.in) /\ Same /\ Go(pkt, "serviceHairpin")
     \/ pkt.in # Gateway /\ pkt.src # pkt.in /\ Drop

serviceHairpinResponseDNATFlow ==
  /\ At("serviceHairpin") /\ Same
  /\ Go(IF pkt.dst = Hairpin THEN [pkt EXCEPT !.dst = pkt.src, !.hairpin = TRUE] ELSE pkt, "conntrack")

---------------------------------------------------------------------------
(* Connection tracking                                                     *)

\* ct(nat): the state, the mark and the translation of the packet's connection.
\* A connection is established once a reply was seen.
conntrack ==
  /\ At("conntrack") /\ UNCHANGED learned
  /\ LET orig  == {c \in conns : c.id = pkt.id /\ c.src = pkt.src /\ c.dst = pkt.dst}
         reply == {c \in conns : c.id = pkt.id /\ c.ep = pkt.src /\ c.src = pkt.dst}
     IN \/ /\ orig = {} /\ reply = {} /\ UNCHANGED conns
           /\ Go([pkt EXCEPT !.state = "new"], "conntrackState")
        \/ \E c \in orig \ reply :
             /\ UNCHANGED conns
             /\ Go([pkt EXCEPT !.state = IF c.seen THEN "est" ELSE "new", !.mark = c.mark, !.dst = c.ep], "conntrackState")
        \/ \E c \in reply :
             /\ conns' = (conns \ {c}) \cup {[c EXCEPT !.seen = TRUE]}
             /\ Go([pkt EXCEPT !.state = "est", !.mark = c.mark, !.src = c.dst], "conntrackState")

\* connectionTrackFlows, ctRewriteDstMACFlow, serviceLBBypassFlow
conntrackState ==
  /\ At("conntrackState") /\ Same
  /\ \/ /\ pkt.state = "est" /\ pkt.mark = "gateway"
        /\ Go(IF pkt.from = "gateway" THEN pkt ELSE [pkt EXCEPT !.dmac = Gateway], "endpointDNAT")
     \/ pkt.state = "est" /\ pkt.mark = "service" /\ Go([pkt EXCEPT !.rewrite = TRUE], "egressRule")
     \/ (pkt.state = "est" => pkt.mark = None) /\ Go(pkt, "sessionAffinity")

---------------------------------------------------------------------------
(* Services                                                                *)

\* A learned flow of sessionAffinityTable, or serviceNeedLBFlow.
sessionAffinity ==
  /\ At("sessionAffinity") /\ Same
  /\ IF pkt.dst = Service /\ pkt.src \in Clients /\ learned[pkt.src] # None
     THEN Go([pkt EXCEPT !.ep = learned[pkt.src], !.learn = "selected", !.rewrite = TRUE], "serviceLB")
     ELSE Go([pkt EXCEPT !.learn = "needLB"], "serviceLB")

\* serviceLBFlow with a bucket of serviceEndpointGroup, and serviceLearnFlow.
serviceLB ==
  /\ At("serviceLB")
  /\ \/ /\ pkt.dst = Service /\ pkt.learn = "needLB" /\ buckets = {} /\ Drop
     \/ /\ pkt.dst = Service /\ pkt.learn = "needLB"
        /\ \E e \in buckets :
             LET p == [pkt EXCEPT !.ep = e, !.rewrite = TRUE, !.learn = IF Affinity THEN "needLearn" ELSE "selected"]
             IN Same /\ Go(p, IF Affinity THEN "serviceLB" ELSE "endpointDNAT")
     \/ /\ pkt.dst = Service /\ pkt.learn = "needLearn"
        /\ learned' = [learned EXCEPT ![pkt.src] = pkt.ep] /\ UNCHANGED conns
        /\ Go([pkt EXCEPT !.learn = "selected"], "endpointDNAT")
     \/ /\ pkt.dst = Service => pkt.learn = "selected"
        /\ Same /\ Go(pkt, "endpointDNAT")

\* endpointDNATFlow, sessionAffinityReselectFlow
MaxResubmits == 4
endpointDNAT ==
  /\ At("endpointDNAT")
  /\ \/ /\ pkt.learn = "selected" /\ pkt.ep \in dnats
        /\ conns' = Commit(pkt.src, pkt.dst, pkt.ep, "service") /\ UNCHANGED learned
        /\ Go([pkt EXCEPT !.dst = pkt.ep, !.mark = "service"], "antreaEgress")
     \/ /\ pkt.learn = "selected" /\ pkt.ep \notin dnats /\ pkt.resubmits < MaxResubmits
        /\ Same /\ Go([pkt EXCEPT !.learn = "needLB", !.resubmits = @ + 1], "serviceLB")
     \/ pkt.learn = "selected" /\ pkt.ep \notin dnats /\ pkt.resubmits = MaxResubmits /\ Drop
     \/ pkt.learn # "selected" /\ Same /\ Go(pkt, "antreaEgress")

---------------------------------------------------------------------------
(* Policies                                                                *)

\* establishedConnectionFlows; then the action flows of the rules: an allowed
\* packet is committed with the rule's label and skips the tables that follow,
\* a denied one is marked and dropped in the metric table.
AntreaTable(here, rule, local, peer, next, metric) ==
  /\ At(here) /\ UNCHANGED learned
  /\ LET hit == pkt.state = "new" /\ local = rule.pod /\ peer = rule.peer
     IN \/ pkt.state = "est" /\ UNCHANGED conns /\ Go(pkt, metric)
        \/ hit /\ rule.antrea = "allow" /\ conns' = CommitPkt(None) /\ Go(pkt, metric)
        \/ hit /\ rule.antrea = "drop" /\ UNCHANGED conns /\ Go([pkt EXCEPT !.drop = TRUE], metric)
        \/ /\ pkt.state = "new" /\ (hit => rule.antrea = None)
           /\ UNCHANGED conns /\ Go(pkt, next)

\* Rules of K8s policies and, for isolated Pods, defaultDropFlow.
K8sTable(here, rule, local, peer, bypass, metric) ==
  /\ At(here)
  /\ LET hit == local = rule.pod /\ rule.k8s = "allow" /\ peer = rule.peer
     IN \/ (pkt.state = "est" \/ bypass) /\ Same /\ Go(pkt, metric)
        \/ /\ pkt.state = "new" /\ ~bypass /\ hit
           /\ conns' = CommitPkt(None) /\ UNCHANGED learned /\ Go(pkt, metric)
        \/ pkt.state = "new" /\ ~bypass /\ ~hit /\ local = rule.pod /\ rule.k8s # None /\ Drop
        \/ pkt.state = "new" /\ ~bypass /\ (local = rule.pod => rule.k8s = None) /\ Same /\ Go(pkt, metric)

K8sTableLate(here, rule, local, peer, bypass, metric) ==
  K8sTable(here, rule, local, peer, bypass \/ \E c \in conns : c.id = pkt.id /\ c.src = pkt.src /\ c.ep = pkt.dst, metric)

\* dropRuleMetricFlow
Metric(here, next) ==
  /\ At(here)
  /\ \/ pkt.drop /\ Drop
     \/ ~pkt.drop /\ Same /\ Go(pkt, next)

antreaEgress == AntreaTable("antreaEgress", egress, pkt.in, pkt.dst, "egressRule", "egressMetric")
egressRule == K8sTable("egressRule", egress, pkt.in, pkt.dst, FALSE, "egressMetric")
antreaIngress == AntreaTable("antreaIngress", ingress, pkt.port, pkt.src, "ingressRule", "ingressMetric")
\* localProbeFlow lets the Node itself through.
ingressRuleCommitted == K8sTableLate("ingressRule", ingress, pkt.port, pkt.src, pkt.src = Gateway, "ingressMetric")
ingressRule == K8sTable("ingressRule", ingress, pkt.port, pkt.src, pkt.src = Gateway, "ingressMetric")
egressMetric == Metric("egressMetric", "l3Forwarding")
ingressMetric == Metric("ingressMetric", "conntrackCommit")

---------------------------------------------------------------------------
(* Forwarding                                                              *)

\* l3FlowsToPod, l3ToGatewayFlow, l3FwdFlowToRemote
l3Forwarding ==
  /\ At("l3Forwarding") /\ Same
  /\ IF pkt.rewrite /\ pkt.dst \in Pods THEN Go([pkt EXCEPT !.dmac = pkt.dst], "l2ForwardingCalc")
     ELSE IF pkt.dmac = "vmac" /\ pkt.dst = Gateway THEN Go([pkt EXCEPT !.dmac = Gateway], "l2ForwardingCalc")
     ELSE IF pkt.dst \in RemotePods THEN Go([pkt EXCEPT !.dmac = "vmac", !.port = "tunnel"], "conntrackCommit")
     ELSE Go(pkt, "l2ForwardingCalc")

\* l2ForwardCalcFlow
l2ForwardingCalc ==
  /\ At("l2ForwardingCalc") /\ Same
  /\ Go(IF pkt.dmac \in Pods \cup {Gateway} THEN [pkt EXCEPT !.port = pkt.dmac] ELSE pkt, "antreaIngress")

conntrackCommit ==
  /\ At("conntrackCommit") /\ UNCHANGED learned
  /\ \/ pkt.state = "new" /\ pkt.from = "gateway" /\ conns' = CommitPkt("gateway") /\ Go(pkt, "hairpinSNAT")
     \/ pkt.state = "new" /\ pkt.from # "gateway" /\ conns' = CommitPkt(None) /\ Go(pkt, "hairpinSNAT")
     \/ pkt.state = "est" /\ UNCHANGED conns /\ Go(pkt, "hairpinSNAT")

hairpinSNATFlowMark ==
  /\ At("hairpinSNAT") /\ Same
  /\ Go(IF pkt.src = pkt.dst /\ pkt.dst \in dnats \cap Pods THEN [pkt EXCEPT !.hairpin = TRUE] ELSE pkt,
        "l2ForwardingOut")

hairpinSNATFlow ==
  /\ At("hairpinSNAT") /\ Same
  /\ Go(IF pkt.src = pkt.dst /\ pkt.dst \in dnats \cap Pods THEN [pkt EXCEPT !.src = Hairpin, !.hairpin = TRUE] ELSE pkt,
        "l2ForwardingOut")

\* l2ForwardOutputFlow, l2ForwardOutputServiceHairpinFlow; OVS does not output
\* to the input port otherwise.
l2ForwardingOut ==
  /\ At("l2ForwardingOut")
  /\ Leave(pkt, IF pkt.hairpin THEN pkt.in ELSE IF pkt.port \in {None, pkt.in} THEN "drop" ELSE pkt.port)

Next ==
  \/ ChangeRule \/ Arrive
  \/ \E e \in Pods \cup RemotePods : AddEndpoint(e) \/ RemoveEndpoint(e)
  \/ Classifier \/ SpoofGuard \/ serviceHairpinResponseDNATFlow \/ conntrack \/ conntrackState
  \/ sessionAffinity \/ serviceLB \/ endpointDNAT
  \/ antreaEgress \/ egressRule \/ egressMetric \/ l3Forwarding \/ l2ForwardingCalc
  \/ antreaIngress \/ ingressRule \/ ingressMetric \/ conntrackCommit \/ hairpinSNATFlow \/ l2ForwardingOut

Spec == Init /\ [][Next]_plVars

---------------------------------------------------------------------------
(* Properties                                                              *)

\* What a rule means for the traffic of a local Pod with a peer: the Antrea
\* policy decides if it matches; a Pod isolated by a K8s policy may talk only to
\* the peers the policy lists.
Permits(rule, local, peer) ==
  IF local # rule.pod THEN TRUE
  ELSE IF peer = rule.peer /\ rule.antrea # None THEN rule.antrea = "allow"
  ELSE rule.k8s = None \/ (rule.k8s = "allow" /\ peer = rule.peer)

\* No packet leaves against the rules unless its connection was answered before:
\* for a Service the rules see the Endpoint and not the ClusterIP, a first packet
\* that one table committed and a later one dropped does not open the way for the
\* next, and no address is forged. The Node's own traffic, and that of a Pod to
\* itself through the Service, is exempt from the rules of ingress.
PolicyHolds ==
  out.port \notin {None, "drop"} /\ out.pkt.state = "new" =>
    /\ Permits(egress, out.pkt.in, out.pkt.dst)
    /\ out.port \in Pods \ {out.pkt.in} /\ out.pkt.sender # Gateway => Permits(ingress, out.port, out.pkt.sender)
    /\ out.pkt.in \in Pods => out.pkt.sender = out.pkt.in

\* The packets of an answered connection reach the other end whatever the rules
\* are by then ("established connections skip the NetworkPolicy rules"), through
\* every translation: to a Pod, through the tunnel, or to the Node that opened it.
\* A Pod's connection to itself ends with its Endpoint, whose SNAT flow it needs.
EstablishedDelivered ==
  out.port # None /\ out.pkt.state = "est" /\ (out.pkt.in = out.pkt.dst => out.pkt.dst \in dnats) =>
    out.port = (IF out.pkt.dst \in RemotePods THEN "tunnel" ELSE out.pkt.dst)

\* A client sees answers only from the address it sent to, an Endpoint sees the
\* client or, when it is the client itself, hairpinIP.
AnswersTranslated ==
  out.port \in Pods /\ out.pkt.state = "est" =>
    \E c \in conns : /\ c.id = out.pkt.id
                     /\ \/ c.src = out.port /\ out.pkt.src = c.dst
                        \/ c.ep = out.port /\ out.pkt.src = IF c.src = c.ep THEN Hairpin ELSE c.src

\* An Endpoint is selected again at most once, after a stale learned one, as long
\* as every bucket of the group has its DNAT flow; otherwise the tables resubmit
\* to each other until OVS gives up.
ReselectEnds ==
  pkt # NoPacket /\ buckets \subseteq dnats => pkt.resubmits <= 1

\* What was let in gets to where it was let in, translated, and in a bounded
\* number of tables.
ConnectionsContinue == EstablishedDelivered /\ AnswersTranslated /\ ReselectEnds
=============================================================================
