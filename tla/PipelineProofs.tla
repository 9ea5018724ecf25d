---------------------------- MODULE PipelineProofs ----------------------------
(*****************************************************************************)
(* The flows of pipeline.go enforce the policies and carry answered          *)
(* connections, for any Pods, rules, connections and number of packets.  The *)
(* inductive invariant says, table by table, what the flows before it have   *)
(* established of the packet: where it comes from (Origin), what its address *)
(* is (Addressed), which connection it belongs to (Tracked), the rules a new *)
(* packet has passed (Policed), where an answered one is headed (Routed),    *)
(* and how often an Endpoint was chosen for it (Reselected).                 *)
(*****************************************************************************)
EXTENDS Pipeline, TLAPS

Endpoints == Pods \cup RemotePods
Hosts     == Endpoints \cup {Gateway}

\* The tables, by what they do: establish the connection, choose an Endpoint,
\* filter what leaves a Pod, forward, filter what enters a Pod, and send.
Entering  == {"classifier", "spoofGuard", "serviceHairpin", "conntrack"}
Choosing  == {"conntrackState", "sessionAffinity", "serviceLB", "endpointDNAT"}
Egress    == {"antreaEgress", "egressRule", "egressMetric"}
Ingress   == {"antreaIngress", "ingressRule", "ingressMetric"}
Sending   == {"conntrackCommit", "hairpinSNAT", "l2ForwardingOut"}
Late      == Egress \cup {"l3Forwarding", "l2ForwardingCalc"} \cup Ingress \cup Sending
Open      == Late \ {"l2ForwardingOut"}
Tables    == Entering \cup Choosing \cup Late

PacketType ==
  [id : Ids, table : Tables, in : Pods \cup {Gateway, "tunnel"}, src : Hosts \cup {Service, Hairpin},
   dst : Hosts \cup {Service, Hairpin}, dmac : Hosts \cup {"vmac"}, from : {None, "tunnel", "gateway", "local"},
   rewrite : BOOLEAN, learn : {"none", "needLB", "needLearn", "selected"}, ep : Endpoints \cup {None},
   port : Hosts \cup {"tunnel", None}, hairpin : BOOLEAN, drop : BOOLEAN, state : {None, "new", "est"},
   mark : {None, "service", "gateway"}, resubmits : 0..MaxResubmits, sender : Hosts]

ConnType ==
  [id : Ids, src : Hosts, dst : Hosts \cup {Service}, ep : Hosts,
   mark : {None, "service", "gateway"}, seen : BOOLEAN]

Types ==
  /\ pkt = NoPacket \/ pkt \in PacketType
  /\ conns \subseteq ConnType
  /\ buckets \subseteq Endpoints /\ dnats \subseteq Endpoints
  /\ learned \in [Clients -> Endpoints \cup {None}]

Idle == pkt # NoPacket => out = Nothing

\* A connection of conntrack: only the Service is translated, only a Pod's
\* connection has the Service's mark, only the Node's the gateway's.
Sound(c) ==
  /\ c.src # c.dst
  /\ c.src \notin Pods => c.dst \in Pods
  /\ c.mark = "gateway" => c.src = Gateway
  /\ c.mark = "service" => c.ep \in Endpoints /\ c.src \in Pods
  /\ c.ep # c.dst => c.mark = "service" /\ c.dst = Service

Connections == \A c \in conns : Sound(c)

\* Where the packet comes from; spoofGuard leaves no forged address.
Origin ==
  /\ pkt.in = "tunnel" => pkt.sender \in RemotePods
  /\ pkt.in = Gateway <=> pkt.sender = Gateway
  /\ pkt.in \notin Pods => pkt.dst \in Pods
  /\ pkt.table # "classifier" => (pkt.from = "gateway" <=> pkt.in = Gateway)
  /\ pkt.table \notin {"classifier", "spoofGuard"} /\ pkt.in \in Pods => pkt.sender = pkt.in
  /\ pkt.state = None <=> pkt.table \in Entering
  /\ pkt.state # "est" /\ pkt.table # "l2ForwardingOut" => pkt.src = pkt.sender

\* What its address is: hairpinIP only before conntrack, the Service only until
\* endpointDNAT, and an Endpoint was chosen for it in between.
Addressed ==
  /\ pkt.table \in Entering =>
      /\ pkt.hairpin <=> pkt.src = pkt.dst
      /\ pkt.hairpin \/ pkt.dst = Hairpin => pkt.in \in Pods
      /\ pkt.table \in {"classifier", "spoofGuard"} => pkt.src # pkt.dst
      /\ pkt.table = "conntrack" => pkt.dst # Hairpin
      /\ pkt.dst \in Pods /\ pkt.in # "tunnel" /\ ~pkt.hairpin => pkt.dmac = pkt.dst
      /\ pkt.dst = Gateway => pkt.dmac = Gateway
      /\ pkt.rewrite <=> pkt.in = "tunnel" /\ pkt.table # "classifier"
      /\ pkt.learn = "none" /\ ~pkt.drop
  /\ pkt.table \in Choosing /\ pkt.learn \in {"needLearn", "selected"} =>
      pkt.dst = Service /\ pkt.ep \in Endpoints /\ pkt.state = "new"
  /\ pkt.table \in {"conntrackState", "sessionAffinity"} => pkt.learn = "none"
  /\ pkt.table = "endpointDNAT" /\ pkt.learn # "selected" => pkt.dst # Service
  /\ pkt.table \notin Entering => pkt.dst # Hairpin
  /\ pkt.table \in Late => pkt.dst # Service

\* The connection it belongs to: as the client's packet, or as the answer to it.
Known(p)  == \E c \in conns : c.id = p.id /\ c.src = p.src /\ c.ep = p.dst
Answer(p) == \E c \in conns : c.id = p.id /\ c.src = p.dst /\ c.dst = p.src
Tracked ==
  /\ pkt.table \in Entering /\ (pkt.hairpin \/ pkt.dst = Hairpin) =>
       \E c \in conns : c.id = pkt.id /\ c.src = pkt.in /\ c.ep = pkt.in
  /\ pkt.state = "new" /\ pkt.src = pkt.dst => Known(pkt)
  /\ pkt.state = "est" /\ pkt.table # "l2ForwardingOut" =>
       Answer(pkt) \/ (~pkt.hairpin /\ Known(pkt) /\ pkt.src = pkt.sender)
  /\ pkt.state = "est" /\ pkt.table = "l2ForwardingOut" =>
       \/ Answer(pkt)
       \/ pkt.in = pkt.dst /\ pkt.dst \notin dnats /\ ~pkt.hairpin
       \/ \E c \in conns : c.id = pkt.id /\ c.ep = pkt.dst /\ pkt.src = IF c.src = c.ep THEN Hairpin ELSE c.src

\* What a new packet has passed of the rules.
Policed ==
  pkt.state = "new" =>
    /\ pkt.table = "egressRule" /\ pkt.in = egress.pod /\ pkt.dst = egress.peer => egress.antrea = None
    /\ pkt.table = "egressMetric" => pkt.drop \/ Permits(egress, pkt.in, pkt.dst)
    /\ pkt.table \in Late \ Egress => Permits(egress, pkt.in, pkt.dst)
    /\ pkt.table = "ingressRule" /\ pkt.port = ingress.pod /\ pkt.src = ingress.peer => ingress.antrea = None
    /\ pkt.sender # Gateway /\ pkt.port \in Pods =>
         /\ pkt.table = "ingressMetric" => pkt.drop \/ Permits(ingress, pkt.port, pkt.sender)
         /\ pkt.table \in Sending => Permits(ingress, pkt.port, pkt.sender)

\* Where a packet of an answered connection is headed: it has, or will be given,
\* the MAC and the port of its destination.
Routed ==
  pkt.state = "est" =>
    /\ ~pkt.drop /\ pkt.learn \in {"none", "needLB"} /\ pkt.dst # Service
    /\ pkt.hairpin => pkt.in = pkt.dst /\ pkt.dst \in Pods
    /\ pkt.in = pkt.dst /\ ~pkt.hairpin /\ pkt.table # "l2ForwardingOut" => pkt.src = pkt.dst
    /\ pkt.rewrite => pkt.dst \in Endpoints
    /\ pkt.table = "conntrackState" =>
         /\ pkt.mark = "service" => pkt.dst \in Endpoints
         /\ pkt.mark = "gateway" => IF pkt.in = Gateway THEN pkt.dmac = pkt.dst ELSE pkt.dst = Gateway
         /\ pkt.mark = None => pkt.rewrite \/ pkt.hairpin \/ pkt.dst \in RemotePods \/ pkt.dmac = pkt.dst
    /\ pkt.table \in {"sessionAffinity", "serviceLB", "endpointDNAT", "l3Forwarding"} \cup Egress =>
         pkt.rewrite \/ pkt.hairpin \/ pkt.dst \in RemotePods \/ pkt.dmac = pkt.dst
    /\ pkt.table = "l2ForwardingCalc" => pkt.dst \notin RemotePods /\ (pkt.hairpin \/ pkt.dmac = pkt.dst)
    /\ pkt.table \in Ingress => pkt.dst \notin RemotePods /\ (pkt.hairpin \/ pkt.port = pkt.dst)
    /\ pkt.table \in Sending => pkt.hairpin \/ pkt.port = IF pkt.dst \in RemotePods THEN "tunnel" ELSE pkt.dst
    /\ pkt.table = "l2ForwardingOut" /\ pkt.in = pkt.dst /\ pkt.dst \in dnats => pkt.hairpin

\* An Endpoint that was chosen from the group is not chosen again.
Reselected ==
  /\ pkt.learn = "none" => pkt.resubmits = 0
  /\ buckets \subseteq dnats =>
       /\ pkt.resubmits <= 1
       /\ pkt.resubmits = 1 /\ pkt.learn \in {"needLearn", "selected"} => pkt.ep \in dnats

Sent == PolicyHolds /\ EstablishedDelivered /\ AnswersTranslated

PipelineInvariant ==
  /\ Types /\ Idle /\ Connections /\ Sent
  /\ pkt # NoPacket => Origin /\ Addressed /\ Tracked /\ Policed /\ Routed /\ Reselected

---------------------------------------------------------------------------
(* How a packet moves                                                      *)

SameEnds(q, p)   == /\ q.id = p.id /\ q.in = p.in /\ q.src = p.src /\ q.dst = p.dst /\ q.sender = p.sender
                    /\ q.from = p.from /\ q.state = p.state /\ q.hairpin = p.hairpin
SameChoice(q, p) == q.learn = p.learn /\ q.ep = p.ep /\ q.resubmits = p.resubmits
SameLink(q, p)   == /\ q.dmac = p.dmac /\ q.port = p.port /\ q.rewrite = p.rewrite
                    /\ q.mark = p.mark /\ q.drop = p.drop
Alike(q, p)      == SameEnds(q, p) /\ SameChoice(q, p) /\ SameLink(q, p)

\* The addresses are different from each other and from the names.
LEMMA Distinct ==
  /\ \A h \in Hosts : h \notin {Service, Hairpin, None, "drop", "tunnel", "vmac"}
  /\ \A p \in Pods : p # Gateway /\ p \notin RemotePods
  /\ \A r \in RemotePods : r # Gateway
  /\ Gateway \notin {Service, Hairpin, "tunnel"} /\ Service # Hairpin
  /\ Service \notin {None, "drop", "tunnel"} /\ Hairpin \notin {None, "drop", "tunnel"}
BY PipelineAssumption, Zenon DEF Hosts, Endpoints, None

\* Go hands the packet it is given to the next table.
LEMMA Moved ==
  ASSUME NEW p \in PacketType, NEW t \in Tables, Go(p, t)
  PROVE  /\ pkt' \in PacketType /\ pkt'.table = t /\ Alike(pkt', p)
         /\ UNCHANGED <<egress, ingress, buckets, dnats, out>>
<1>1. pkt' \in PacketType /\ pkt'.table = t BY Zenon DEF Go, PacketType
<1>2. Alike(pkt', p) BY Zenon DEF Go, PacketType, Alike, SameEnds, SameChoice, SameLink
<1> QED BY <1>1, <1>2, Zenon DEF Go, Entries

LEMMA InPipeline ==
  ASSUME PipelineInvariant, pkt.table # None
  PROVE  /\ pkt \in PacketType /\ out = Nothing /\ Types /\ Connections
         /\ Origin /\ Addressed /\ Tracked /\ Policed /\ Routed /\ Reselected
BY DEF PipelineInvariant, Types, Idle, NoPacket

\* No connection is forgotten, and all are sound.
Grown ==
  /\ conns' \subseteq ConnType /\ Connections'
  /\ \A c \in conns : \E d \in conns' : d.id = c.id /\ d.src = c.src /\ d.dst = c.dst /\ d.ep = c.ep

LEMMA NotGrown ==
  ASSUME Types, Connections, UNCHANGED conns PROVE Grown
BY Zenon DEF Types, Connections, Grown

LEMMA StillInPipeline ==
  ASSUME out' = Nothing, pkt' \in PacketType, Grown, learned' \in [Clients -> Endpoints \cup {None}],
         Types, UNCHANGED <<buckets, dnats>>,
         Origin', Addressed', Tracked', Policed', Routed', Reselected'
  PROVE  PipelineInvariant'
<1>1. Types' BY Zenon DEF Types, Grown
<1>2. out'.port = None BY Zenon DEF Nothing
<1>3. Idle' /\ Sent'
  BY <1>2, Distinct, Zenon DEF Idle, Sent, PolicyHolds, EstablishedDelivered, AnswersTranslated, Hosts, Endpoints, None
<1> QED BY <1>1, <1>3, Zenon DEF PipelineInvariant, Grown

\* A packet that is dropped was not answered.
LEMMA Dropped ==
  ASSUME PipelineInvariant, pkt.table # None, pkt.state # "est", Drop
  PROVE  PipelineInvariant'
<1>1. /\ pkt' = NoPacket /\ UNCHANGED <<conns, egress, ingress, buckets, dnats, learned>>
      /\ out'.port = "drop" /\ out'.pkt = pkt
  BY Zenon DEF Drop, Leave, Entries
<1>2. Types' /\ Idle' /\ Connections' BY <1>1, Zenon DEF PipelineInvariant, Types, Idle, Connections
<1>3. "drop" \notin Pods BY Distinct, Zenon DEF Hosts, Endpoints
<1>4. Sent' BY <1>1, <1>3, Zenon DEF Sent, PolicyHolds, EstablishedDelivered, AnswersTranslated
<1> QED BY <1>1, <1>2, <1>4, Zenon DEF PipelineInvariant

\* Where a packet comes from and its connection stay as they are when it keeps
\* its addresses and its state.
LEMMA Carried ==
  ASSUME Origin, Tracked, SameEnds(pkt', pkt), Grown,
         pkt.table \in Choosing \cup Late, pkt'.table \in (Choosing \cup Late) \ {"l2ForwardingOut"},
         pkt.table # "l2ForwardingOut"
  PROVE  Origin' /\ Tracked'
<1>1. /\ pkt.table \notin Entering /\ pkt'.table \notin Entering /\ pkt'.table # "l2ForwardingOut"
      /\ pkt.table \notin {"classifier", "spoofGuard"} /\ pkt'.table \notin {"classifier", "spoofGuard"}
  BY Zenon DEF Entering, Choosing, Late, Egress, Ingress, Sending
<1>2. Origin' BY <1>1, Zenon DEF Origin, SameEnds
<1>3. /\ Known(pkt) => Known(pkt)'
      /\ Answer(pkt) => Answer(pkt)'
  BY DEF Known, Answer, Grown, SameEnds
<1>4. Tracked' BY <1>1, <1>3, Zenon DEF Tracked, SameEnds
<1> QED BY <1>2, <1>4, Zenon

\* After the Endpoint is chosen a step has to account for the rules and for the
\* way of an answered packet only.
LEMMA LateStep ==
  ASSUME PipelineInvariant, pkt.table \in Open,
         pkt' \in PacketType, pkt'.table \in Open,
         SameEnds(pkt', pkt), SameChoice(pkt', pkt), Grown,
         UNCHANGED <<buckets, dnats, out, learned>>, Policed', Routed'
  PROVE  PipelineInvariant'
<1>0. pkt.table # None BY Zenon DEF Open, Late, Egress, Ingress, Sending, None
<1>1. /\ pkt \in PacketType /\ out = Nothing /\ Types
      /\ Origin /\ Addressed /\ Tracked /\ Reselected
  BY <1>0, InPipeline, Zenon
<1>2. Origin' /\ Tracked' BY <1>1, Carried, Zenon DEF Open
<1>3. /\ pkt.table \notin Entering \cup Choosing /\ pkt'.table \notin Entering \cup Choosing
      /\ pkt'.table \notin {"conntrackState", "sessionAffinity", "endpointDNAT"}
  BY Zenon DEF Entering, Choosing, Open, Late, Egress, Ingress, Sending
<1>4. Addressed' BY <1>1, <1>3, Zenon DEF Addressed, SameEnds, Open
<1>5. Reselected' BY <1>1, Zenon DEF Reselected, SameChoice
<1>6. learned' \in [Clients -> Endpoints \cup {None}] BY <1>1, Zenon DEF Types
<1> QED BY <1>1, <1>2, <1>4, <1>5, <1>6, StillInPipeline, Zenon

\* The tables that filter, commit or count let the packets of an answered
\* connection through as they are.
LEMMA EstablishedPass ==
  ASSUME PipelineInvariant, pkt.state = "est", NEW t, Go(pkt, t), UNCHANGED <<conns, learned>>,
         \/ pkt.table \in Egress /\ t \in Egress \cup {"l3Forwarding"}
         \/ pkt.table \in Ingress /\ t \in Ingress \cup {"conntrackCommit"}
         \/ pkt.table = "conntrackCommit" /\ t = "hairpinSNAT"
  PROVE  PipelineInvariant'
<1>0. /\ pkt.table # None /\ pkt.table \in Open /\ t \in Open
      /\ t \in Tables
  BY Zenon DEF Open, Late, Egress, Ingress, Sending, Tables, None
<1>1. pkt \in PacketType /\ Types /\ Connections /\ Routed BY <1>0, InPipeline, Zenon
<1>2. /\ pkt' \in PacketType /\ pkt'.table = t /\ Alike(pkt', pkt)
      /\ UNCHANGED <<egress, ingress, buckets, dnats, out>>
  BY <1>0, <1>1, Moved, Zenon
<1>3. Grown BY <1>1, NotGrown, Zenon
<1>4. Policed' BY <1>2, Zenon DEF Policed, Alike, SameEnds
<1>5. Routed' BY <1>1, <1>2 DEF Routed, Alike, SameEnds, SameChoice, SameLink, Egress, Ingress, Sending
<1> QED BY <1>0, <1>2, <1>3, <1>4, <1>5, LateStep, Zenon DEF Alike

\* ct(commit) adds a sound connection or marks the one there is.
LEMMA Committed ==
  ASSUME conns \subseteq ConnType, Connections, pkt.id \in Ids,
         NEW src \in Hosts, NEW dst \in Hosts \cup {Service}, NEW ep \in Hosts,
         NEW mark \in {None, "service", "gateway"}, conns' = Commit(src, dst, ep, mark),
         mark = "gateway" => src = Gateway,
         mark = "service" => ep \in Endpoints /\ src \in Pods,
         (\A c \in conns : ~(c.id = pkt.id /\ c.src = src /\ c.ep = ep)) =>
           /\ src # dst /\ (src \notin Pods => dst \in Pods)
           /\ ep # dst => mark = "service" /\ dst = Service
  PROVE  Grown /\ \E c \in conns' : c.id = pkt.id /\ c.src = src /\ c.ep = ep
<1> DEFINE old == {c \in conns : c.id = pkt.id /\ c.src = src /\ c.ep = ep}
           new == [id |-> pkt.id, src |-> src, dst |-> dst, ep |-> ep, mark |-> mark, seen |-> FALSE]
           Marked(c) == [c EXCEPT !.mark = IF mark = None THEN @ ELSE mark]
<1>1. CASE old = {}
  <2>1. conns' = conns \cup {new} BY <1>1, Zenon DEF Commit
  <2>2. /\ new \in ConnType /\ new.id = pkt.id /\ new.src = src /\ new.dst = dst /\ new.ep = ep
        /\ new.mark = mark
    BY Zenon DEF ConnType
  <2>3. /\ src # dst /\ (src \notin Pods => dst \in Pods)
        /\ ep # dst => mark = "service" /\ dst = Service
    BY <1>1, Zenon
  <2> HIDE DEF new, old
  <2>4. Connections' BY <2>1, <2>2, <2>3, Zenon DEF Connections, Sound
  <2> QED BY <2>1, <2>2, <2>4, Zenon DEF Grown
<1>2. CASE old # {}
  <2>1. conns' = (conns \ old) \cup {Marked(c) : c \in old} BY <1>2, Zenon DEF Commit
  <2>2. \A c \in ConnType :
          /\ Marked(c) \in ConnType /\ Marked(c).id = c.id /\ Marked(c).src = c.src
          /\ Marked(c).dst = c.dst /\ Marked(c).ep = c.ep
          /\ Marked(c).mark = IF mark = None THEN c.mark ELSE mark
    BY Zenon DEF ConnType
  <2>3. \A c \in old : c \in conns /\ c \in ConnType /\ c.id = pkt.id /\ c.src = src /\ c.ep = ep BY Zenon
  <2>4. PICK o \in old : TRUE BY <1>2, Zenon
  <2>4a. \A c \in conns \ old : c \in conns' BY <2>1, Zenon
  <2>4b. \A c \in old : Marked(c) \in conns' BY <2>1, Zenon
  <2>4c. \A d \in conns' : d \in conns \/ \E c \in old : d = Marked(c) BY <2>1, Zenon
  <2> HIDE DEF old, Marked
  <2>5. conns' \subseteq ConnType BY <2>4c, <2>2, <2>3, Zenon
  <2>6. \A c \in conns : \E d \in conns' : d.id = c.id /\ d.src = c.src /\ d.dst = c.dst /\ d.ep = c.ep
    BY <2>4a, <2>4b, <2>2, <2>3, Zenon
  <2>7. Connections'
    <3> SUFFICES ASSUME NEW d \in conns' PROVE Sound(d) BY Zenon DEF Connections
    <3>1. CASE d \in conns BY <3>1, Zenon DEF Connections
    <3>2. ASSUME NEW c \in old, d = Marked(c) PROVE Sound(d)
      BY <3>2, <2>2, <2>3, Distinct DEF Connections, Sound, None
    <3> QED BY <3>1, <3>2, <2>4c, Zenon
  <2>8. \E c \in conns' : c.id = pkt.id /\ c.src = src /\ c.ep = ep BY <2>4, <2>4b, <2>2, <2>3
  <2> QED BY <2>5, <2>6, <2>7, <2>8, Zenon DEF Grown
<1> QED BY <1>1, <1>2, Zenon

\* What a table commits once the rules let a new packet through.
LEMMA PacketCommitted ==
  ASSUME PipelineInvariant, pkt.table \in Open, pkt.state = "new",
         NEW mark \in {None, "gateway"}, mark = "gateway" => pkt.from = "gateway", conns' = CommitPkt(mark)
  PROVE  Grown
<1>0. /\ pkt.table # None /\ pkt.table \notin Entering /\ pkt.table # "l2ForwardingOut"
      /\ pkt.table \notin {"classifier", "spoofGuard"}
  BY Zenon DEF Open, Late, Egress, Ingress, Sending, Entering, None
<1>1. pkt \in PacketType /\ Types /\ Connections /\ Origin /\ Addressed /\ Tracked BY <1>0, InPipeline, Zenon
<1>2. /\ pkt.id \in Ids /\ pkt.sender \in Hosts /\ pkt.dst \in Hosts \cup {Service, Hairpin}
      /\ pkt.in \in Pods \cup {Gateway, "tunnel"}
  BY <1>1, Zenon DEF PacketType
<1>3. pkt.src = pkt.sender /\ pkt.dst \notin {Service, Hairpin} BY <1>0, <1>1, Zenon DEF Origin, Addressed, Open
<1>4. pkt.src \notin Pods => pkt.dst \in Pods BY <1>0, <1>1, <1>3, Zenon DEF Origin
<1>5. pkt.src = pkt.dst => Known(pkt) BY <1>1, Zenon DEF Tracked
<1>6. mark = "gateway" => pkt.src = Gateway BY <1>0, <1>1, <1>3, Zenon DEF Origin
<1> QED BY <1>1, <1>2, <1>3, <1>4, <1>5, <1>6, Committed, Zenon DEF CommitPkt, Known, Types, None

\* A new packet in these tables has only the rules to pass.
LEMMA NewStep ==
  ASSUME PipelineInvariant, pkt.table \in Open, pkt.state = "new",
         pkt' \in PacketType, pkt'.table \in Open, SameEnds(pkt', pkt), SameChoice(pkt', pkt), Grown,
         UNCHANGED <<buckets, dnats, out, learned>>, Policed'
  PROVE  PipelineInvariant'
<1>1. Routed' BY Zenon DEF Routed, SameEnds
<1> QED BY <1>1, LateStep, Zenon

LEMMA NewPass ==
  ASSUME PipelineInvariant, pkt.table \in Open, pkt.state = "new", NEW t \in Open, Go(pkt, t),
         UNCHANGED learned,
         \/ UNCHANGED conns
         \/ conns' = CommitPkt(None)
         \/ conns' = CommitPkt("gateway") /\ pkt.from = "gateway"
  PROVE  /\ pkt'.table = t /\ Alike(pkt', pkt) /\ UNCHANGED <<egress, ingress>>
         /\ Policed' => PipelineInvariant'
<1>1. pkt.table # None /\ t \in Tables BY Zenon DEF Open, Late, Egress, Ingress, Sending, Tables, None
<1>2. pkt \in PacketType /\ Types /\ Connections BY <1>1, InPipeline, Zenon
<1>3. Grown BY <1>2, NotGrown, PacketCommitted, Zenon DEF None
<1>4. /\ pkt' \in PacketType /\ pkt'.table = t /\ Alike(pkt', pkt)
      /\ UNCHANGED <<egress, ingress, buckets, dnats, out>>
  BY <1>1, <1>2, Moved, Zenon
<1> QED BY <1>3, <1>4, NewStep, Zenon DEF Alike

\* A denied packet is marked for the metric table that follows.
LEMMA NewDenied ==
  ASSUME PipelineInvariant, pkt.state = "new", UNCHANGED <<conns, learned>>,
         NEW t, (pkt.table \in Egress /\ t = "egressMetric") \/ (pkt.table \in Ingress /\ t = "ingressMetric"),
         Go([pkt EXCEPT !.drop = TRUE], t)
  PROVE  PipelineInvariant'
<1> DEFINE p == [pkt EXCEPT !.drop = TRUE]
<1>1. pkt.table # None /\ pkt.table \in Open /\ t \in Open /\ t \in Tables
  BY Zenon DEF Open, Late, Egress, Ingress, Sending, Tables, None
<1>2. pkt \in PacketType /\ Types /\ Connections /\ Policed BY <1>1, InPipeline, Zenon
<1>3. p \in PacketType BY <1>2, Zenon DEF PacketType
<1>4. /\ p.drop /\ p.port = pkt.port /\ SameEnds(p, pkt) /\ SameChoice(p, pkt)
  BY <1>2, Zenon DEF PacketType, SameEnds, SameChoice
<1>5. /\ pkt' \in PacketType /\ pkt'.table = t /\ Alike(pkt', p)
      /\ UNCHANGED <<egress, ingress, buckets, dnats, out>>
  BY <1>1, <1>3, Moved, Zenon
<1> HIDE DEF p
<1>6. Grown BY <1>2, NotGrown, Zenon
<1>7. Policed'
  BY <1>2, <1>4, <1>5, Zenon DEF Policed, Alike, SameEnds, SameLink, Open, Late, Egress, Ingress, Sending
<1> QED BY <1>1, <1>4, <1>5, <1>6, <1>7, NewStep, Zenon DEF Alike, SameEnds, SameChoice

---------------------------------------------------------------------------
(* Filtering                                                               *)

LEMMA AntreaEgressKeeps ==
  ASSUME PipelineInvariant, antreaEgress PROVE PipelineInvariant'
<1>1. pkt.table = "antreaEgress" /\ pkt.table # None /\ pkt.table \in Open
  BY Zenon DEF antreaEgress, AntreaTable, At, Open, Late, Egress, Ingress, None
<1>2. UNCHANGED learned /\ "egressMetric" \in Open /\ "egressRule" \in Open
  BY Zenon DEF antreaEgress, AntreaTable, Open, Late, Egress
<1>3. Origin /\ Policed BY <1>1, InPipeline, Zenon
<1>4. CASE pkt.state = "est" /\ UNCHANGED conns /\ Go(pkt, "egressMetric")
  BY <1>1, <1>2, <1>4, EstablishedPass, Zenon DEF Egress
<1>5. ASSUME pkt.state = "new", pkt.in = egress.pod, pkt.dst = egress.peer, egress.antrea = "allow",
             conns' = CommitPkt(None), Go(pkt, "egressMetric")
      PROVE PipelineInvariant'
  <2>1. /\ pkt'.table = "egressMetric" /\ Alike(pkt', pkt) /\ UNCHANGED <<egress, ingress>>
        /\ Policed' => PipelineInvariant'
    BY <1>1, <1>2, <1>5, NewPass, Zenon
  <2> QED BY <1>1, <1>3, <1>5, <2>1, Zenon
      DEF Policed, Permits, Alike, SameEnds, SameLink, Late, Egress, Ingress, Sending, None
<1>6. CASE pkt.state = "new" /\ UNCHANGED conns /\ Go([pkt EXCEPT !.drop = TRUE], "egressMetric")
  BY <1>1, <1>2, <1>6, NewDenied, Zenon DEF Egress
<1>7. ASSUME pkt.state = "new", pkt.in = egress.pod /\ pkt.dst = egress.peer => egress.antrea = None,
             UNCHANGED conns, Go(pkt, "egressRule")
      PROVE PipelineInvariant'
  <2>1. /\ pkt'.table = "egressRule" /\ Alike(pkt', pkt) /\ UNCHANGED <<egress, ingress>>
        /\ Policed' => PipelineInvariant'
    BY <1>1, <1>2, <1>7, NewPass, Zenon
  <2> QED BY <1>1, <1>3, <1>7, <2>1, Zenon
      DEF Policed, Permits, Alike, SameEnds, SameLink, Late, Egress, Ingress, Sending, None
<1> QED BY <1>4, <1>5, <1>6, <1>7, Zenon DEF antreaEgress, AntreaTable

LEMMA AntreaIngressKeeps ==
  ASSUME PipelineInvariant, antreaIngress PROVE PipelineInvariant'
<1>1. pkt.table = "antreaIngress" /\ pkt.table # None /\ pkt.table \in Open
  BY Zenon DEF antreaIngress, AntreaTable, At, Open, Late, Egress, Ingress, None
<1>2. UNCHANGED learned /\ "ingressMetric" \in Open /\ "ingressRule" \in Open
  BY Zenon DEF antreaIngress, AntreaTable, Open, Late, Ingress
<1>3. Origin /\ Policed BY <1>1, InPipeline, Zenon
<1>4. CASE pkt.state = "est" /\ UNCHANGED conns /\ Go(pkt, "ingressMetric")
  BY <1>1, <1>2, <1>4, EstablishedPass, Zenon DEF Ingress
<1>5. ASSUME pkt.state = "new", pkt.port = ingress.pod, pkt.src = ingress.peer, ingress.antrea = "allow",
             conns' = CommitPkt(None), Go(pkt, "ingressMetric")
      PROVE PipelineInvariant'
  <2>1. /\ pkt'.table = "ingressMetric" /\ Alike(pkt', pkt) /\ UNCHANGED <<egress, ingress>>
        /\ Policed' => PipelineInvariant'
    BY <1>1, <1>2, <1>5, NewPass, Zenon
  <2> QED BY <1>1, <1>3, <1>5, <2>1
      DEF Policed, Permits, Alike, SameEnds, SameLink, Late, Egress, Ingress, Sending, None, Origin
<1>6. CASE pkt.state = "new" /\ UNCHANGED conns /\ Go([pkt EXCEPT !.drop = TRUE], "ingressMetric")
  BY <1>1, <1>2, <1>6, NewDenied, Zenon DEF Ingress
<1>7. ASSUME pkt.state = "new", pkt.port = ingress.pod /\ pkt.src = ingress.peer => ingress.antrea = None,
             UNCHANGED conns, Go(pkt, "ingressRule")
      PROVE PipelineInvariant'
  <2>1. /\ pkt'.table = "ingressRule" /\ Alike(pkt', pkt) /\ UNCHANGED <<egress, ingress>>
        /\ Policed' => PipelineInvariant'
    BY <1>1, <1>2, <1>7, NewPass, Zenon
  <2> QED BY <1>1, <1>3, <1>7, <2>1, Zenon
      DEF Policed, Permits, Alike, SameEnds, SameLink, Late, Egress, Ingress, Sending, None
<1> QED BY <1>4, <1>5, <1>6, <1>7, Zenon DEF antreaIngress, AntreaTable

LEMMA EgressRuleKeeps ==
  ASSUME PipelineInvariant, egressRule PROVE PipelineInvariant'
<1>1. pkt.table = "egressRule" /\ pkt.table # None /\ pkt.table \in Open
  BY Zenon DEF egressRule, K8sTable, At, Open, Late, Egress, Ingress, None
<1>2. "egressMetric" \in Open BY Zenon DEF Open, Late, Egress
<1>3. pkt \in PacketType /\ Origin /\ Policed BY <1>1, InPipeline, Zenon
<1>4. CASE pkt.state = "est" /\ Same /\ Go(pkt, "egressMetric")
  BY <1>1, <1>4, EstablishedPass, Zenon DEF Egress, Same
<1>5. ASSUME pkt.state = "new", pkt.in = egress.pod, egress.k8s = "allow", pkt.dst = egress.peer,
             conns' = CommitPkt(None), UNCHANGED learned, Go(pkt, "egressMetric")
      PROVE PipelineInvariant'
  <2>1. /\ pkt'.table = "egressMetric" /\ Alike(pkt', pkt) /\ UNCHANGED <<egress, ingress>>
        /\ Policed' => PipelineInvariant'
    BY <1>1, <1>2, <1>5, NewPass, Zenon
  <2> QED BY <1>1, <1>3, <1>5, <2>1, Zenon
      DEF Policed, Permits, Alike, SameEnds, SameLink, Late, Egress, Ingress, Sending, None
<1>6. CASE pkt.state = "new" /\ Drop BY <1>1, <1>6, Dropped, Zenon
<1>7. ASSUME pkt.state = "new", (pkt.in = egress.pod => egress.k8s = None), Same,
             Go(pkt, "egressMetric")
      PROVE PipelineInvariant'
  <2>1. /\ pkt'.table = "egressMetric" /\ Alike(pkt', pkt) /\ UNCHANGED <<egress, ingress>>
        /\ Policed' => PipelineInvariant'
    BY <1>1, <1>2, <1>7, NewPass, Zenon DEF Same
  <2> QED BY <1>1, <1>3, <1>7, <2>1, Zenon
      DEF Policed, Permits, Alike, SameEnds, SameLink, Late, Egress, Ingress, Sending, None
<1> QED BY <1>4, <1>5, <1>6, <1>7, Zenon DEF egressRule, K8sTable

LEMMA IngressRuleKeeps ==
  ASSUME PipelineInvariant, ingressRule PROVE PipelineInvariant'
<1>1. pkt.table = "ingressRule" /\ pkt.table # None /\ pkt.table \in Open
  BY Zenon DEF ingressRule, K8sTable, At, Open, Late, Egress, Ingress, None
<1>2. "ingressMetric" \in Open BY Zenon DEF Open, Late, Ingress
<1>3. pkt \in PacketType /\ Origin /\ Policed BY <1>1, InPipeline, Zenon
<1>4. CASE pkt.state = "est" /\ Same /\ Go(pkt, "ingressMetric")
  BY <1>1, <1>4, EstablishedPass, Zenon DEF Ingress, Same
<1>5. ASSUME pkt.state = "new", pkt.port = ingress.pod, ingress.k8s = "allow", pkt.src = ingress.peer,
             conns' = CommitPkt(None), UNCHANGED learned, Go(pkt, "ingressMetric")
      PROVE PipelineInvariant'
  <2>1. /\ pkt'.table = "ingressMetric" /\ Alike(pkt', pkt) /\ UNCHANGED <<egress, ingress>>
        /\ Policed' => PipelineInvariant'
    BY <1>1, <1>2, <1>5, NewPass, Zenon
  <2> QED BY <1>1, <1>3, <1>5, <2>1
      DEF Policed, Permits, Alike, SameEnds, SameLink, Late, Egress, Ingress, Sending, None, Origin
<1>6. CASE pkt.state = "new" /\ Drop BY <1>1, <1>6, Dropped, Zenon
<1>7. ASSUME pkt.state = "new", pkt.src = Gateway \/ (pkt.port = ingress.pod => ingress.k8s = None), Same,
             Go(pkt, "ingressMetric")
      PROVE PipelineInvariant'
  <2>1. /\ pkt'.table = "ingressMetric" /\ Alike(pkt', pkt) /\ UNCHANGED <<egress, ingress>>
        /\ Policed' => PipelineInvariant'
    BY <1>1, <1>2, <1>7, NewPass, Zenon DEF Same
  <2> QED BY <1>1, <1>3, <1>7, <2>1, Zenon
      DEF Policed, Permits, Alike, SameEnds, SameLink, Late, Egress, Ingress, Sending, None, Origin
<1>8. pkt.state \in {"est", "new"} BY <1>1, <1>3, Zenon DEF Origin, PacketType, Entering
<1> QED BY <1>4, <1>5, <1>6, <1>7, <1>8, Zenon DEF ingressRule, K8sTable

LEMMA EgressMetricKeeps ==
  ASSUME PipelineInvariant, egressMetric PROVE PipelineInvariant'
<1>1. pkt.table = "egressMetric" /\ pkt.table # None /\ pkt.table \in Open
  BY Zenon DEF egressMetric, Metric, At, Open, Late, Egress, Ingress, None
<1>2. "l3Forwarding" \in Open BY Zenon DEF Open, Late, Sending
<1>3. pkt \in PacketType /\ Origin /\ Policed /\ Routed BY <1>1, InPipeline, Zenon
<1>4. pkt.state \in {"est", "new"} BY <1>1, <1>3, Zenon DEF Origin, PacketType, Entering
<1>5. CASE pkt.drop /\ Drop BY <1>1, <1>3, <1>5, Dropped, Zenon DEF Routed
<1>6. CASE ~pkt.drop /\ Same /\ Go(pkt, "l3Forwarding")
  <2>1. CASE pkt.state = "est" BY <1>1, <1>6, <2>1, EstablishedPass, Zenon DEF Egress, Same
  <2>2. CASE pkt.state = "new"
    <3>1. /\ pkt'.table = "l3Forwarding" /\ Alike(pkt', pkt) /\ UNCHANGED <<egress, ingress>>
          /\ Policed' => PipelineInvariant'
      BY <1>1, <1>2, <1>6, <2>2, NewPass, Zenon DEF Same
    <3> QED BY <1>1, <1>3, <1>6, <2>2, <3>1, Zenon
        DEF Policed, Permits, Alike, SameEnds, SameLink, Late, Egress, Ingress, Sending, None
  <2> QED BY <1>4, <2>1, <2>2, Zenon
<1> QED BY <1>5, <1>6, Zenon DEF egressMetric, Metric

LEMMA IngressMetricKeeps ==
  ASSUME PipelineInvariant, ingressMetric PROVE PipelineInvariant'
<1>1. pkt.table = "ingressMetric" /\ pkt.table # None /\ pkt.table \in Open
  BY Zenon DEF ingressMetric, Metric, At, Open, Late, Egress, Ingress, None
<1>2. "conntrackCommit" \in Open BY Zenon DEF Open, Late, Sending
<1>3. pkt \in PacketType /\ Origin /\ Policed /\ Routed BY <1>1, InPipeline, Zenon
<1>4. pkt.state \in {"est", "new"} BY <1>1, <1>3, Zenon DEF Origin, PacketType, Entering
<1>5. CASE pkt.drop /\ Drop BY <1>1, <1>3, <1>5, Dropped, Zenon DEF Routed
<1>6. CASE ~pkt.drop /\ Same /\ Go(pkt, "conntrackCommit")
  <2>1. CASE pkt.state = "est" BY <1>1, <1>6, <2>1, EstablishedPass, Zenon DEF Ingress, Same
  <2>2. CASE pkt.state = "new"
    <3>1. /\ pkt'.table = "conntrackCommit" /\ Alike(pkt', pkt) /\ UNCHANGED <<egress, ingress>>
          /\ Policed' => PipelineInvariant'
      BY <1>1, <1>2, <1>6, <2>2, NewPass, Zenon DEF Same
    <3> QED BY <1>1, <1>3, <1>6, <2>2, <3>1, Zenon
        DEF Policed, Permits, Alike, SameEnds, SameLink, Late, Egress, Ingress, Sending, None
  <2> QED BY <1>4, <2>1, <2>2, Zenon
<1> QED BY <1>5, <1>6, Zenon DEF ingressMetric, Metric

---------------------------------------------------------------------------
(* Forwarding and sending                                                  *)

LEMMA L3ForwardingKeeps ==
  ASSUME PipelineInvariant, l3Forwarding PROVE PipelineInvariant'
<1>1. /\ pkt.table = "l3Forwarding" /\ UNCHANGED <<conns, learned>>
      /\ pkt.table # None /\ pkt.table \in Open
  BY Zenon DEF l3Forwarding, At, Same, Open, Late, None
<1>2. /\ pkt \in PacketType /\ Types /\ Connections /\ Policed /\ Routed
  BY <1>1, InPipeline, Zenon
<1>3. Grown BY <1>1, <1>2, NotGrown, Zenon
<1>4. pkt.dst \in RemotePods => pkt.dst \notin Pods BY Distinct, Zenon
<1>5. ASSUME NEW mac \in Hosts, Go([pkt EXCEPT !.dmac = mac], "l2ForwardingCalc"), mac = pkt.dst,
             pkt.dst \notin RemotePods
      PROVE PipelineInvariant'
  <2> DEFINE p == [pkt EXCEPT !.dmac = mac]
  <2>1. p \in PacketType BY <1>2, Zenon DEF PacketType
  <2>2. /\ p.dmac = mac /\ SameEnds(p, pkt) /\ SameChoice(p, pkt)
        /\ p.port = pkt.port /\ p.rewrite = pkt.rewrite /\ p.drop = pkt.drop
    BY <1>2, Zenon DEF PacketType, SameEnds, SameChoice
  <2>3. /\ pkt' \in PacketType /\ pkt'.table = "l2ForwardingCalc" /\ Alike(pkt', p)
        /\ UNCHANGED <<egress, ingress, buckets, dnats, out>>
    BY <1>5, <2>1, Moved, Zenon DEF Tables, Late
  <2> HIDE DEF p
  <2>4. Policed' BY <1>1, <1>2, <2>2, <2>3, Zenon DEF Policed, Alike, SameEnds, SameLink, Late, Egress, Sending
  <2>5. Routed' BY <1>1, <1>2, <1>5, <2>2, <2>3
    DEF Routed, Alike, SameEnds, SameChoice, SameLink, Egress, Ingress, Sending
  <2> QED BY <1>1, <1>3, <2>2, <2>3, <2>4, <2>5, LateStep, Zenon DEF Alike, SameEnds, SameChoice, Open, Late
<1>6. ASSUME pkt.dst \in RemotePods, Go([pkt EXCEPT !.dmac = "vmac", !.port = "tunnel"], "conntrackCommit")
      PROVE PipelineInvariant'
  <2> DEFINE p == [pkt EXCEPT !.dmac = "vmac", !.port = "tunnel"]
  <2>1. p \in PacketType BY <1>2, Zenon DEF PacketType
  <2>2. /\ p.port = "tunnel" /\ SameEnds(p, pkt) /\ SameChoice(p, pkt)
        /\ p.rewrite = pkt.rewrite /\ p.drop = pkt.drop
    BY <1>2, Zenon DEF PacketType, SameEnds, SameChoice
  <2>3. /\ pkt' \in PacketType /\ pkt'.table = "conntrackCommit" /\ Alike(pkt', p)
        /\ UNCHANGED <<egress, ingress, buckets, dnats, out>>
    BY <1>6, <2>1, Moved, Zenon DEF Tables, Late, Sending
  <2> HIDE DEF p
  <2>4. "tunnel" \notin Pods BY Distinct, Zenon DEF Hosts, Endpoints
  <2>5. Policed' BY <1>1, <1>2, <2>2, <2>3, <2>4 DEF Policed, Alike, SameEnds, SameLink, Late, Egress
  <2>6. Routed' BY <1>1, <1>2, <1>6, <2>2, <2>3
    DEF Routed, Alike, SameEnds, SameChoice, SameLink, Egress, Ingress, Sending
  <2> QED BY <1>1, <1>3, <2>2, <2>3, <2>5, <2>6, LateStep, Zenon DEF Alike, SameEnds, SameChoice, Open, Late, Sending
<1>7. ASSUME ~(pkt.rewrite /\ pkt.dst \in Pods), pkt.dst \notin RemotePods, Go(pkt, "l2ForwardingCalc")
      PROVE PipelineInvariant'
  <2>1. /\ pkt' \in PacketType /\ pkt'.table = "l2ForwardingCalc" /\ Alike(pkt', pkt)
        /\ UNCHANGED <<egress, ingress, buckets, dnats, out>>
    BY <1>2, <1>7, Moved, Zenon DEF Tables, Late
  <2>2. Policed' BY <1>1, <1>2, <2>1, Zenon DEF Policed, Alike, SameEnds, SameLink, Late, Egress, Sending
  <2>3. Routed' BY <1>1, <1>2, <1>7, <2>1
    DEF Routed, Alike, SameEnds, SameChoice, SameLink, Egress, Ingress, Sending, Endpoints
  <2> QED BY <1>1, <1>3, <2>1, <2>2, <2>3, LateStep, Zenon DEF Alike, Open, Late
<1>8. CASE pkt.rewrite /\ pkt.dst \in Pods
  BY <1>4, <1>5, <1>8, Zenon DEF l3Forwarding, Hosts, Endpoints
<1>9. CASE ~(pkt.rewrite /\ pkt.dst \in Pods) /\ pkt.dmac = "vmac" /\ pkt.dst = Gateway
  <2>1. Gateway \in Hosts /\ Gateway \notin RemotePods BY Distinct, Zenon DEF Hosts
  <2> QED BY <1>5, <1>9, <2>1, Zenon DEF l3Forwarding
<1>10. CASE ~(pkt.rewrite /\ pkt.dst \in Pods) /\ ~(pkt.dmac = "vmac" /\ pkt.dst = Gateway)
  BY <1>6, <1>7, <1>10, Zenon DEF l3Forwarding
<1> QED BY <1>8, <1>9, <1>10, Zenon

LEMMA L2CalcKeeps ==
  ASSUME PipelineInvariant, l2ForwardingCalc PROVE PipelineInvariant'
<1>1. /\ pkt.table = "l2ForwardingCalc" /\ UNCHANGED <<conns, learned>>
      /\ pkt.table # None /\ pkt.table \in Open
  BY Zenon DEF l2ForwardingCalc, At, Same, Open, Late, None
<1>2. /\ pkt \in PacketType /\ Types /\ Connections /\ Addressed /\ Policed /\ Routed
  BY <1>1, InPipeline, Zenon
<1>3. Grown BY <1>1, <1>2, NotGrown, Zenon
<1>4. CASE pkt.dmac \in Pods \cup {Gateway}
  <2> DEFINE p == [pkt EXCEPT !.port = pkt.dmac]
  <2>1. Go(p, "antreaIngress") BY <1>4, Zenon DEF l2ForwardingCalc
  <2>2. pkt.dmac \in Hosts BY <1>4, Zenon DEF Hosts, Endpoints
  <2>3. p \in PacketType BY <1>2, <2>2, Zenon DEF PacketType
  <2>4. /\ p.port = pkt.dmac /\ SameEnds(p, pkt) /\ SameChoice(p, pkt)
        /\ p.rewrite = pkt.rewrite /\ p.drop = pkt.drop
    BY <1>2, Zenon DEF PacketType, SameEnds, SameChoice
  <2>5. /\ pkt' \in PacketType /\ pkt'.table = "antreaIngress" /\ Alike(pkt', p)
        /\ UNCHANGED <<egress, ingress, buckets, dnats, out>>
    BY <2>1, <2>3, Moved, Zenon DEF Tables, Late, Ingress
  <2> HIDE DEF p
  <2>6. Policed' BY <1>1, <1>2, <2>4, <2>5, Zenon DEF Policed, Alike, SameEnds, SameLink, Late, Egress, Ingress, Sending
  <2>7. Routed' BY <1>1, <1>2, <2>4, <2>5
    DEF Routed, Alike, SameEnds, SameChoice, SameLink, Egress, Ingress, Sending
  <2> QED BY <1>1, <1>3, <2>4, <2>5, <2>6, <2>7, LateStep, Zenon DEF Alike, SameEnds, SameChoice, Open, Late, Ingress
<1>5. CASE pkt.dmac \notin Pods \cup {Gateway}
  <2>1. Go(pkt, "antreaIngress") BY <1>5, Zenon DEF l2ForwardingCalc
  <2>2. /\ pkt' \in PacketType /\ pkt'.table = "antreaIngress" /\ Alike(pkt', pkt)
        /\ UNCHANGED <<egress, ingress, buckets, dnats, out>>
    BY <1>2, <2>1, Moved, Zenon DEF Tables, Late, Ingress
  <2>3. Policed' BY <1>1, <1>2, <2>2, Zenon DEF Policed, Alike, SameEnds, SameLink, Late, Egress, Ingress, Sending
  <2>4. pkt.dst \in Hosts
    <3>1. pkt.dst \notin {Service, Hairpin} BY <1>1, <1>2, Zenon DEF Addressed, Entering, Late
    <3> QED BY <1>2, <3>1, Zenon DEF PacketType
  <2>5. pkt.state = "est" => pkt.hairpin BY <1>1, <1>2, <1>5, <2>4, Zenon DEF Routed, Hosts, Endpoints
  <2>6. Routed' BY <1>1, <1>2, <2>2, <2>5
    DEF Routed, Alike, SameEnds, SameChoice, SameLink, Egress, Ingress, Sending
  <2> QED BY <1>1, <1>3, <2>2, <2>3, <2>6, LateStep, Zenon DEF Alike, Open, Late, Ingress
<1> QED BY <1>4, <1>5, Zenon

LEMMA ConntrackCommitKeeps ==
  ASSUME PipelineInvariant, conntrackCommit PROVE PipelineInvariant'
<1>1. /\ pkt.table = "conntrackCommit" /\ UNCHANGED learned
      /\ pkt.table # None /\ pkt.table \in Open /\ "hairpinSNAT" \in Open
  BY Zenon DEF conntrackCommit, At, Open, Late, Sending, None
<1>2. Policed BY <1>1, InPipeline, Zenon
<1>3. ASSUME pkt.state = "new", conns' = CommitPkt(None) \/ (conns' = CommitPkt("gateway") /\ pkt.from = "gateway"),
             Go(pkt, "hairpinSNAT")
      PROVE PipelineInvariant'
  <2>1. /\ pkt'.table = "hairpinSNAT" /\ Alike(pkt', pkt) /\ UNCHANGED <<egress, ingress>>
        /\ Policed' => PipelineInvariant'
    BY <1>1, <1>3, NewPass, Zenon
  <2> QED BY <1>1, <1>2, <1>3, <2>1, Zenon DEF Policed, Alike, SameEnds, SameLink, Late, Egress, Ingress, Sending
<1>4. CASE pkt.state = "est" /\ UNCHANGED conns /\ Go(pkt, "hairpinSNAT")
  BY <1>1, <1>4, EstablishedPass, Zenon
<1> QED BY <1>3, <1>4, Zenon DEF conntrackCommit

LEMMA HairpinSNATKeeps ==
  ASSUME PipelineInvariant, hairpinSNATFlow PROVE PipelineInvariant'
<1>1. /\ pkt.table = "hairpinSNAT" /\ UNCHANGED <<conns, learned>>
      /\ pkt.table # None /\ "l2ForwardingOut" \in Tables
  BY Zenon DEF hairpinSNATFlow, At, Same, Late, Sending, Tables, None
<1>2. /\ pkt \in PacketType /\ out = Nothing /\ Types /\ Connections
      /\ Origin /\ Addressed /\ Tracked /\ Policed /\ Routed /\ Reselected
  BY <1>1, InPipeline, Zenon
<1>3. Grown BY <1>1, <1>2, NotGrown, Zenon
<1>4. learned' \in [Clients -> Endpoints \cup {None}] BY <1>1, <1>2, Zenon DEF Types
<1>5. /\ pkt.state # None /\ (pkt.in \in Pods => pkt.sender = pkt.in)
      /\ pkt.in = Gateway <=> pkt.sender = Gateway
      /\ pkt.in = "tunnel" => pkt.sender \in RemotePods
      /\ pkt.in \notin Pods => pkt.dst \in Pods
      /\ pkt.dst \notin {Hairpin, Service}
  BY <1>1, <1>2, Zenon DEF Origin, Addressed, Entering, Late, Sending
<1>6. pkt.in \in Pods \cup {Gateway, "tunnel"} BY <1>2, Zenon DEF PacketType
<1>7. ASSUME pkt.src = pkt.dst, pkt.dst \in dnats \cap Pods,
             Go([pkt EXCEPT !.src = Hairpin, !.hairpin = TRUE], "l2ForwardingOut")
      PROVE PipelineInvariant'
  <2> DEFINE p == [pkt EXCEPT !.src = Hairpin, !.hairpin = TRUE]
  <2>1. p \in PacketType BY <1>2, Zenon DEF PacketType
  <2>2. /\ p.id = pkt.id /\ p.in = pkt.in /\ p.src = Hairpin /\ p.dst = pkt.dst /\ p.sender = pkt.sender
        /\ p.from = pkt.from /\ p.state = pkt.state /\ p.hairpin /\ SameChoice(p, pkt) /\ SameLink(p, pkt)
    BY <1>2, Zenon DEF PacketType, SameChoice, SameLink
  <2>3. /\ pkt' \in PacketType /\ pkt'.table = "l2ForwardingOut" /\ Alike(pkt', p)
        /\ UNCHANGED <<egress, ingress, buckets, dnats, out>>
    BY <1>1, <1>7, <2>1, Moved, Zenon
  <2> HIDE DEF p
  <2> USE DEF Alike, SameEnds, SameChoice, SameLink
  <2>4. Origin' BY <1>1, <1>2, <2>2, <2>3 DEF Origin, Entering
  <2>5. Addressed' BY <1>5, <2>2, <2>3, Zenon DEF Addressed, Entering, Choosing
  <2>6. Policed' BY <1>1, <1>2, <2>2, <2>3 DEF Policed, Late, Egress, Sending
  <2>7. Reselected' BY <1>2, <2>2, <2>3, Zenon DEF Reselected
  <2>8. ASSUME pkt.state = "est"
        PROVE /\ pkt.in = pkt.dst
              /\ \E c \in conns : c.id = pkt.id /\ c.ep = pkt.dst /\ c.src = c.ep
    <3>1. ~Answer(pkt) BY <1>2, <1>7, Zenon DEF Answer, Connections, Sound
    <3>2. Known(pkt) /\ pkt.src = pkt.sender BY <1>1, <1>2, <2>8, <3>1, Zenon DEF Tracked
    <3>3. pkt.in = pkt.dst BY <1>5, <1>6, <1>7, <3>2, Distinct, Zenon
    <3> QED BY <1>7, <3>2, <3>3, Zenon DEF Known
  <2>9. Routed' BY <1>1, <1>2, <1>7, <2>2, <2>3, <2>8 DEF Routed, Egress, Ingress, Sending
  <2>10. Tracked' BY <1>1, <1>5, <2>2, <2>3, <2>8 DEF Tracked, Entering
  <2> QED BY <1>2, <1>3, <1>4, <2>3, <2>4, <2>5, <2>6, <2>7, <2>9, <2>10, StillInPipeline, Zenon
<1>8. ASSUME ~(pkt.src = pkt.dst /\ pkt.dst \in dnats \cap Pods), Go(pkt, "l2ForwardingOut")
      PROVE PipelineInvariant'
  <2>1. /\ pkt' \in PacketType /\ pkt'.table = "l2ForwardingOut" /\ Alike(pkt', pkt)
        /\ UNCHANGED <<egress, ingress, buckets, dnats, out>>
    BY <1>1, <1>2, <1>8, Moved, Zenon
  <2> USE DEF Alike, SameEnds, SameChoice, SameLink
  <2>2. Origin' BY <1>1, <1>2, <2>1, Zenon DEF Origin, Entering
  <2>3. Addressed' BY <1>5, <2>1, Zenon DEF Addressed, Entering, Choosing
  <2>4. Policed' BY <1>1, <1>2, <2>1, Zenon DEF Policed, Late, Egress, Sending
  <2>5. Reselected' BY <1>2, <2>1, Zenon DEF Reselected
  <2>6. pkt.in = pkt.dst => pkt.in \in Pods BY <1>5, Zenon
  <2>7. Routed' BY <1>1, <1>2, <1>8, <2>1, <2>6, Zenon DEF Routed, Egress, Ingress, Sending
  <2>8. ASSUME pkt.state = "est", ~pkt.hairpin, Known(pkt), pkt.src = pkt.sender
        PROVE \/ pkt.in = pkt.dst /\ pkt.dst \notin dnats
              \/ \E c \in conns : /\ c.id = pkt.id /\ c.ep = pkt.dst
                                  /\ pkt.src = IF c.src = c.ep THEN Hairpin ELSE c.src
    <3>1. pkt.src = pkt.dst => pkt.in = pkt.dst BY <1>5, <1>6, <2>8, Distinct, Zenon
    <3>2. pkt.src = pkt.dst => pkt.dst \notin dnats BY <1>8, <2>6, <3>1, Zenon
    <3> QED BY <2>8, <3>1, <3>2, Zenon DEF Known
  <2>9. Tracked'
    <3>1. Answer(pkt) => Answer(pkt)' BY <1>1, <2>1, Zenon DEF Answer
    <3>2. Known(pkt) => Known(pkt)' BY <1>1, <2>1, Zenon DEF Known
    <3> QED BY <1>1, <1>2, <2>1, <2>8, <3>1, <3>2, Zenon DEF Tracked, Entering
  <2> QED BY <1>2, <1>3, <1>4, <2>1, <2>2, <2>3, <2>4, <2>5, <2>7, <2>9, StillInPipeline, Zenon
<1> QED BY <1>7, <1>8, Zenon DEF hairpinSNATFlow

LEMMA L2OutKeeps ==
  ASSUME PipelineInvariant, l2ForwardingOut PROVE PipelineInvariant'
<1>1. /\ pkt.table = "l2ForwardingOut" /\ pkt.table # None
      /\ pkt' = NoPacket /\ UNCHANGED <<conns, egress, ingress, buckets, dnats, learned>>
      /\ out'.pkt = pkt
      /\ out'.port = IF pkt.hairpin THEN pkt.in ELSE IF pkt.port \in {None, pkt.in} THEN "drop" ELSE pkt.port
  BY Zenon DEF l2ForwardingOut, At, Leave, Entries, None
<1>2. pkt \in PacketType /\ Types /\ Connections /\ Origin /\ Addressed /\ Tracked /\ Policed /\ Routed
  BY <1>1, InPipeline, Zenon
<1>3. Types' /\ Idle' /\ Connections' BY <1>1, <1>2, Zenon DEF Types, Idle, Connections
<1>4. /\ pkt.in \in Pods \cup {Gateway, "tunnel"} /\ pkt.dst \in Hosts \cup {Service, Hairpin}
  BY <1>2, Zenon DEF PacketType
<1>5. PolicyHolds'
  BY <1>1, <1>2, Zenon DEF PolicyHolds, Policed, Origin, Late, Egress, Sending
<1>6. ASSUME pkt.state = "est"
      PROVE /\ pkt.hairpin => pkt.in = pkt.dst /\ pkt.dst \in Pods
            /\ ~pkt.hairpin => pkt.port = IF pkt.dst \in RemotePods THEN "tunnel" ELSE pkt.dst
            /\ pkt.in = pkt.dst /\ pkt.dst \in dnats => pkt.hairpin
            /\ pkt.dst \in Hosts /\ (pkt.in \notin Pods => pkt.dst \in Pods)
  <2>1. pkt.dst \notin {Service, Hairpin} BY <1>1, <1>2, Zenon DEF Addressed, Entering, Late, Sending
  <2> QED BY <1>1, <1>2, <1>4, <1>6, <2>1, Zenon DEF Routed, Sending, Origin
<1>7. EstablishedDelivered'
  <2> SUFFICES ASSUME pkt.state = "est", pkt.in = pkt.dst => pkt.dst \in dnats
      PROVE out'.port = IF pkt.dst \in RemotePods THEN "tunnel" ELSE pkt.dst
    BY <1>1, Zenon DEF EstablishedDelivered
  <2>1. CASE pkt.hairpin BY <1>1, <1>6, <2>1, Distinct, Zenon
  <2>2. CASE ~pkt.hairpin
    <3>1. pkt.port # None BY <1>6, <2>2, Distinct, Zenon DEF None
    <3>2. pkt.port # pkt.in BY <1>4, <1>6, <2>2, Distinct, Zenon DEF Hosts, Endpoints
    <3> QED BY <1>1, <1>6, <2>2, <3>1, <3>2, Zenon
  <2> QED BY <2>1, <2>2, Zenon
<1>8. AnswersTranslated'
  <2> SUFFICES ASSUME out'.port \in Pods, pkt.state = "est"
      PROVE \E c \in conns : /\ c.id = pkt.id
                             /\ \/ c.src = out'.port /\ pkt.src = c.dst
                                \/ c.ep = out'.port /\ pkt.src = IF c.src = c.ep THEN Hairpin ELSE c.src
    BY <1>1, Zenon DEF AnswersTranslated
  <2>1. out'.port \notin {"drop", "tunnel"} BY Distinct, Zenon DEF Hosts, Endpoints
  <2>2. out'.port = pkt.dst /\ (pkt.in = pkt.dst => pkt.hairpin) BY <1>1, <1>6, <2>1, Zenon
  <2> QED BY <1>1, <1>2, <2>2 DEF Tracked, Answer
<1> QED BY <1>1, <1>3, <1>5, <1>7, <1>8, Zenon DEF PipelineInvariant, Sent


---------------------------------------------------------------------------
(* Choosing an Endpoint                                                    *)

\* No rule was looked at yet; the connection and the origin of the packet do not change.
LEMMA ChoosingStep ==
  ASSUME PipelineInvariant, pkt.table \in Choosing, pkt' \in PacketType, SameEnds(pkt', pkt),
         \/ pkt'.table \in Choosing \cup {"antreaEgress"}
         \/ pkt'.table = "egressRule" /\ pkt.state = "est",
         UNCHANGED <<conns, buckets, dnats, out>>, learned' \in [Clients -> Endpoints \cup {None}],
         Addressed', Routed', Reselected'
  PROVE  PipelineInvariant'
<1>1. /\ pkt.table # None /\ pkt.table \in Choosing \cup Late /\ pkt.table # "l2ForwardingOut"
      /\ pkt'.table \in (Choosing \cup Late) \ {"l2ForwardingOut"}
  BY Zenon DEF Choosing, Late, Egress, Sending, None
<1>2. out = Nothing /\ Types /\ Connections /\ Origin /\ Tracked BY <1>1, InPipeline, Zenon
<1>3. Grown BY <1>2, NotGrown, Zenon
<1>4. Origin' /\ Tracked' BY <1>1, <1>2, <1>3, Carried, Zenon
<1>5. Policed' BY Zenon DEF Policed, SameEnds, Choosing, Late, Egress, Ingress, Sending
<1> QED BY <1>2, <1>3, <1>4, <1>5, StillInPipeline, Zenon

LEMMA ConntrackStateKeeps ==
  ASSUME PipelineInvariant, conntrackState PROVE PipelineInvariant'
<1>1. /\ pkt.table = "conntrackState" /\ pkt.table # None /\ pkt.table \in Choosing
      /\ UNCHANGED <<conns, learned>>
  BY Zenon DEF conntrackState, At, Same, Choosing, None
<1>2. /\ pkt \in PacketType /\ Types /\ Origin /\ Addressed /\ Routed /\ Reselected
  BY <1>1, InPipeline, Zenon
<1>3. learned' \in [Clients -> Endpoints \cup {None}] BY <1>1, <1>2, Zenon DEF Types
<1>4. pkt.learn = "none" /\ pkt.dst # Hairpin BY <1>1, <1>2, Zenon DEF Addressed, Entering
<1>5. ASSUME NEW t, Go(pkt, t),
             \/ t = "endpointDNAT" /\ pkt.state = "est" /\ pkt.mark = "gateway" /\ pkt.from = "gateway"
             \/ t = "sessionAffinity" /\ (pkt.state = "est" => pkt.mark = None)
      PROVE PipelineInvariant'
  <2>1. t \in Tables /\ t \in Choosing \cup {"antreaEgress"} BY <1>5, Zenon DEF Tables, Choosing
  <2>2. /\ pkt' \in PacketType /\ pkt'.table = t /\ Alike(pkt', pkt)
        /\ UNCHANGED <<egress, ingress, buckets, dnats, out>>
    BY <1>2, <1>5, <2>1, Moved, Zenon
  <2>3. Addressed' BY <1>1, <1>2, <1>4, <1>5, <2>2, Zenon DEF Addressed, Routed, Entering, Choosing, Late, Egress, Ingress, Sending, Alike, SameEnds, SameChoice, SameLink
  <2>4. Routed' BY <1>1, <1>2, <1>5, <2>2, Zenon DEF Routed, Origin, Egress, Ingress, Sending, Alike, SameEnds, SameChoice, SameLink
  <2>5. Reselected' BY <1>2, <2>2, Zenon DEF Reselected, Alike, SameEnds, SameChoice, SameLink
  <2> QED BY <1>1, <1>3, <2>1, <2>2, <2>3, <2>4, <2>5, ChoosingStep, Zenon DEF Alike, SameEnds
<1>6. ASSUME pkt.state = "est", pkt.mark = "gateway", pkt.from # "gateway",
             Go([pkt EXCEPT !.dmac = Gateway], "endpointDNAT")
      PROVE PipelineInvariant'
  <2> DEFINE p == [pkt EXCEPT !.dmac = Gateway]
  <2>1. p \in PacketType BY <1>2 DEF PacketType, Hosts
  <2>2. /\ SameEnds(p, pkt) /\ SameChoice(p, pkt) /\ p.dmac = Gateway
        /\ p.rewrite = pkt.rewrite /\ p.mark = pkt.mark /\ p.drop = pkt.drop
    BY <1>2, Zenon DEF PacketType, SameEnds, SameChoice, SameLink
  <2>3. /\ pkt' \in PacketType /\ pkt'.table = "endpointDNAT" /\ Alike(pkt', p)
        /\ UNCHANGED <<egress, ingress, buckets, dnats, out>>
    BY <1>6, <2>1, Moved, Zenon DEF Tables, Choosing
  <2> HIDE DEF p
  <2>4. Addressed' BY <1>1, <1>2, <1>4, <1>6, <2>2, <2>3 DEF Addressed, Routed, Entering, Late, Egress, Ingress, Sending, Alike, SameEnds, SameChoice, SameLink
  <2>5. Routed' BY <1>1, <1>2, <1>6, <2>2, <2>3 DEF Routed, Origin, Egress, Ingress, Sending, Alike, SameEnds, SameChoice, SameLink
  <2>6. Reselected' BY <1>2, <2>2, <2>3, Zenon DEF Reselected, Alike, SameEnds, SameChoice, SameLink
  <2> QED BY <1>1, <1>3, <2>2, <2>3, <2>4, <2>5, <2>6, ChoosingStep, Zenon DEF Choosing, Alike, SameEnds
<1>7. ASSUME pkt.state = "est", pkt.mark = "service", Go([pkt EXCEPT !.rewrite = TRUE], "egressRule")
      PROVE PipelineInvariant'
  <2> DEFINE p == [pkt EXCEPT !.rewrite = TRUE]
  <2>1. p \in PacketType BY <1>2, Zenon DEF PacketType
  <2>2. /\ SameEnds(p, pkt) /\ SameChoice(p, pkt) /\ p.rewrite
        /\ p.dmac = pkt.dmac /\ p.mark = pkt.mark /\ p.drop = pkt.drop
    BY <1>2, Zenon DEF PacketType, SameEnds, SameChoice, SameLink
  <2>3. /\ pkt' \in PacketType /\ pkt'.table = "egressRule" /\ Alike(pkt', p)
        /\ UNCHANGED <<egress, ingress, buckets, dnats, out>>
    BY <1>7, <2>1, Moved, Zenon DEF Tables, Late, Egress
  <2> HIDE DEF p
  <2>4. Addressed' BY <1>2, <1>4, <1>7, <2>2, <2>3 DEF Addressed, Routed, Entering, Choosing, Alike, SameEnds, SameChoice, SameLink
  <2>5. Routed' BY <1>1, <1>2, <1>7, <2>2, <2>3 DEF Routed, Origin, Egress, Ingress, Sending, Alike, SameEnds, SameChoice, SameLink
  <2>6. Reselected' BY <1>2, <2>2, <2>3, Zenon DEF Reselected, Alike, SameEnds, SameChoice, SameLink
  <2> QED BY <1>1, <1>3, <1>7, <2>2, <2>3, <2>4, <2>5, <2>6, ChoosingStep, Zenon DEF Alike, SameEnds
<1> QED BY <1>5, <1>6, <1>7, Zenon DEF conntrackState

LEMMA SessionAffinityKeeps ==
  ASSUME PipelineInvariant, sessionAffinity PROVE PipelineInvariant'
<1>1. /\ pkt.table = "sessionAffinity" /\ pkt.table # None /\ pkt.table \in Choosing
      /\ UNCHANGED <<conns, learned>>
  BY Zenon DEF sessionAffinity, At, Same, Choosing, None
<1>2. /\ pkt \in PacketType /\ Types /\ Origin /\ Addressed /\ Routed /\ Reselected
  BY <1>1, InPipeline, Zenon
<1>3. learned \in [Clients -> Endpoints \cup {None}] BY <1>2, Zenon DEF Types
<1>4. /\ pkt.learn = "none" /\ pkt.dst # Hairpin /\ pkt.resubmits = 0
  BY <1>1, <1>2, Zenon DEF Addressed, Entering, Reselected
<1>5. pkt.dst = Service => pkt.state = "new"
  <2>1. pkt.state \in {"new", "est"} BY <1>1, <1>2, Zenon DEF Origin, PacketType, Entering
  <2> QED BY <1>2, <2>1, Zenon DEF Routed
<1>6. ASSUME pkt.dst = Service, pkt.src \in Clients, learned[pkt.src] # None,
             Go([pkt EXCEPT !.ep = learned[pkt.src], !.learn = "selected", !.rewrite = TRUE], "serviceLB")
      PROVE PipelineInvariant'
  <2> DEFINE p == [pkt EXCEPT !.ep = learned[pkt.src], !.learn = "selected", !.rewrite = TRUE]
  <2>1. learned[pkt.src] \in Endpoints BY <1>3, <1>6, Zenon
  <2>2. p \in PacketType BY <1>2, <2>1, Zenon DEF PacketType
  <2>3. /\ SameEnds(p, pkt) /\ p.learn = "selected" /\ p.ep = learned[pkt.src] /\ p.resubmits = pkt.resubmits
    BY <1>2, Zenon DEF PacketType, SameEnds, SameChoice, SameLink
  <2>4. /\ pkt' \in PacketType /\ pkt'.table = "serviceLB" /\ Alike(pkt', p)
        /\ UNCHANGED <<egress, ingress, buckets, dnats, out>>
    BY <1>6, <2>2, Moved, Zenon DEF Tables, Choosing
  <2> HIDE DEF p
  <2>5. Addressed' BY <1>4, <1>5, <1>6, <2>1, <2>3, <2>4, Zenon DEF Addressed, Entering, Late, Egress, Ingress, Sending, Alike, SameEnds, SameChoice, SameLink
  <2>6. Routed' BY <1>5, <1>6, <2>3, <2>4, Zenon DEF Routed, Alike, SameEnds, SameChoice, SameLink
  <2>7. Reselected' BY <1>4, <2>3, <2>4 DEF Reselected, Alike, SameEnds, SameChoice, SameLink
  <2> QED BY <1>1, <1>3, <2>3, <2>4, <2>5, <2>6, <2>7, ChoosingStep, Zenon DEF Choosing, Alike, SameEnds
<1>7. ASSUME Go([pkt EXCEPT !.learn = "needLB"], "serviceLB")
      PROVE PipelineInvariant'
  <2> DEFINE p == [pkt EXCEPT !.learn = "needLB"]
  <2>1. p \in PacketType BY <1>2, Zenon DEF PacketType
  <2>2. /\ SameEnds(p, pkt) /\ SameLink(p, pkt) /\ p.learn = "needLB" /\ p.resubmits = pkt.resubmits
    BY <1>2, Zenon DEF PacketType, SameEnds, SameChoice, SameLink
  <2>3. /\ pkt' \in PacketType /\ pkt'.table = "serviceLB" /\ Alike(pkt', p)
        /\ UNCHANGED <<egress, ingress, buckets, dnats, out>>
    BY <1>7, <2>1, Moved, Zenon DEF Tables, Choosing
  <2> HIDE DEF p
  <2>4. Addressed' BY <1>4, <2>2, <2>3, Zenon DEF Addressed, Entering, Late, Egress, Ingress, Sending, Alike, SameEnds, SameChoice, SameLink
  <2>5. Routed' BY <1>1, <1>2, <2>2, <2>3 DEF Routed, Egress, Ingress, Sending, Alike, SameEnds, SameChoice, SameLink
  <2>6. Reselected' BY <1>4, <2>2, <2>3 DEF Reselected, Alike, SameEnds, SameChoice, SameLink
  <2> QED BY <1>1, <1>3, <2>2, <2>3, <2>4, <2>5, <2>6, ChoosingStep, Zenon DEF Choosing, Alike, SameEnds
<1> QED BY <1>6, <1>7, Zenon DEF sessionAffinity

LEMMA ServiceLBKeeps ==
  ASSUME PipelineInvariant, serviceLB PROVE PipelineInvariant'
<1>1. pkt.table = "serviceLB" /\ pkt.table # None /\ pkt.table \in Choosing
  BY Zenon DEF serviceLB, At, Choosing, None
<1>2. /\ pkt \in PacketType /\ Types /\ Origin /\ Addressed /\ Routed /\ Reselected
  BY <1>1, InPipeline, Zenon
<1>3. learned \in [Clients -> Endpoints \cup {None}] /\ buckets \subseteq Endpoints BY <1>2, Zenon DEF Types
<1>4. pkt.dst # Hairpin BY <1>1, <1>2, Zenon DEF Addressed, Entering
<1>5. pkt.dst = Service => pkt.state = "new"
  <2>1. pkt.state \in {"new", "est"} BY <1>1, <1>2, Zenon DEF Origin, PacketType, Entering
  <2> QED BY <1>2, <2>1, Zenon DEF Routed
<1>6. CASE pkt.dst = Service /\ Drop BY <1>1, <1>5, <1>6, Dropped, Zenon
<1>7. ASSUME pkt.dst = Service, NEW e \in buckets, Same, NEW l, NEW t,
             (l = "needLearn" /\ t = "serviceLB") \/ (l = "selected" /\ t = "endpointDNAT"),
             Go([pkt EXCEPT !.ep = e, !.rewrite = TRUE, !.learn = l], t)
      PROVE PipelineInvariant'
  <2> DEFINE p == [pkt EXCEPT !.ep = e, !.rewrite = TRUE, !.learn = l]
  <2>1. e \in Endpoints /\ l \in {"needLearn", "selected"} /\ t \in Tables BY <1>3, <1>7, Zenon DEF Tables, Choosing
  <2>2. p \in PacketType BY <1>2, <2>1, Zenon DEF PacketType
  <2>3. /\ SameEnds(p, pkt) /\ p.learn = l /\ p.ep = e /\ p.resubmits = pkt.resubmits
    BY <1>2, Zenon DEF PacketType, SameEnds, SameChoice, SameLink
  <2>4. /\ pkt' \in PacketType /\ pkt'.table = t /\ Alike(pkt', p)
        /\ UNCHANGED <<egress, ingress, buckets, dnats, out>>
    BY <1>7, <2>1, <2>2, Moved, Zenon
  <2> HIDE DEF p
  <2>5. Addressed' BY <1>4, <1>5, <1>7, <2>1, <2>3, <2>4, Zenon
    DEF Addressed, Entering, Late, Egress, Ingress, Sending, Alike, SameEnds, SameChoice, SameLink
  <2>6. Routed' BY <1>5, <1>7, <2>3, <2>4, Zenon DEF Routed, Alike, SameEnds
  <2>7. Reselected' BY <1>2, <1>7, <2>1, <2>3, <2>4, Zenon DEF Reselected, Alike, SameChoice
  <2> QED BY <1>1, <1>3, <1>7, <2>3, <2>4, <2>5, <2>6, <2>7, ChoosingStep, Zenon DEF Choosing, Alike, SameEnds, Same
<1>8. ASSUME pkt.learn = "needLearn", learned' = [learned EXCEPT ![pkt.src] = pkt.ep], UNCHANGED conns,
             Go([pkt EXCEPT !.learn = "selected"], "endpointDNAT")
      PROVE PipelineInvariant'
  <2> DEFINE p == [pkt EXCEPT !.learn = "selected"]
  <2>1. p \in PacketType BY <1>2, Zenon DEF PacketType
  <2>2. /\ SameEnds(p, pkt) /\ p.learn = "selected" /\ p.ep = pkt.ep /\ p.resubmits = pkt.resubmits
    BY <1>2, Zenon DEF PacketType, SameEnds, SameChoice, SameLink
  <2>3. /\ pkt' \in PacketType /\ pkt'.table = "endpointDNAT" /\ Alike(pkt', p)
        /\ UNCHANGED <<egress, ingress, buckets, dnats, out>>
    BY <1>8, <2>1, Moved, Zenon DEF Tables, Choosing
  <2> HIDE DEF p
  <2>4. pkt.dst = Service /\ pkt.ep \in Endpoints BY <1>1, <1>2, <1>8, Zenon DEF Addressed
  <2>5. learned' \in [Clients -> Endpoints \cup {None}] BY <1>3, <1>8, <2>4, Zenon
  <2>6. Addressed' BY <1>4, <1>5, <2>2, <2>3, <2>4, Zenon
    DEF Addressed, Entering, Late, Egress, Ingress, Sending, Alike, SameEnds, SameChoice, SameLink
  <2>7. Routed' BY <1>5, <2>2, <2>3, <2>4, Zenon DEF Routed, Alike, SameEnds
  <2>8. Reselected' BY <1>2, <1>8, <2>2, <2>3, Zenon DEF Reselected, Alike, SameChoice
  <2> QED BY <1>1, <1>8, <2>2, <2>3, <2>5, <2>6, <2>7, <2>8, ChoosingStep, Zenon DEF Choosing, Alike, SameEnds
<1>9. ASSUME pkt.dst = Service => pkt.learn = "selected", Same, Go(pkt, "endpointDNAT")
      PROVE PipelineInvariant'
  <2>1. /\ pkt' \in PacketType /\ pkt'.table = "endpointDNAT" /\ Alike(pkt', pkt)
        /\ UNCHANGED <<egress, ingress, buckets, dnats, out>>
    BY <1>2, <1>9, Moved, Zenon DEF Tables, Choosing
  <2>2. Addressed' BY <1>1, <1>2, <1>4, <1>9, <2>1, Zenon
    DEF Addressed, Entering, Choosing, Late, Egress, Ingress, Sending, Alike, SameEnds, SameChoice, SameLink
  <2>3. Routed' BY <1>1, <1>2, <2>1, Zenon
    DEF Routed, Egress, Ingress, Sending, Alike, SameEnds, SameChoice, SameLink
  <2>4. Reselected' BY <1>2, <2>1, Zenon DEF Reselected, Alike, SameChoice
  <2> QED BY <1>1, <1>3, <1>9, <2>1, <2>2, <2>3, <2>4, ChoosingStep, Zenon DEF Choosing, Alike, SameEnds, Same
<1>10. ASSUME pkt.dst = Service, NEW e \in buckets, Same,
              Go([pkt EXCEPT !.ep = e, !.rewrite = TRUE, !.learn = IF Affinity THEN "needLearn" ELSE "selected"],
                 IF Affinity THEN "serviceLB" ELSE "endpointDNAT")
       PROVE PipelineInvariant'
  <2>1. CASE Affinity BY <1>7, <1>10, <2>1, Zenon
  <2>2. CASE ~Affinity BY <1>7, <1>10, <2>2, Zenon
  <2> QED BY <2>1, <2>2, Zenon
<1> QED BY <1>6, <1>8, <1>9, <1>10, Zenon DEF serviceLB

LEMMA EndpointDNATKeeps ==
  ASSUME PipelineInvariant, endpointDNAT PROVE PipelineInvariant'
<1>1. /\ pkt.table = "endpointDNAT" /\ pkt.table # None /\ pkt.table \in Choosing
      /\ "antreaEgress" \in Tables
  BY Zenon DEF endpointDNAT, At, Choosing, Tables, Late, Egress, None
<1>2. /\ pkt \in PacketType /\ out = Nothing /\ Types /\ Connections
      /\ Origin /\ Addressed /\ Tracked /\ Routed /\ Reselected
  BY <1>1, InPipeline, Zenon
<1>3. learned \in [Clients -> Endpoints \cup {None}] /\ dnats \subseteq Endpoints BY <1>2, Zenon DEF Types
<1>4. pkt.dst # Hairpin BY <1>1, <1>2, Zenon DEF Addressed, Entering
<1>5. pkt.learn = "selected" => pkt.dst = Service /\ pkt.ep \in Endpoints /\ pkt.state = "new"
  BY <1>1, <1>2, Zenon DEF Addressed
<1>6. ASSUME pkt.learn = "selected", pkt.ep \in dnats, UNCHANGED learned,
             conns' = Commit(pkt.src, pkt.dst, pkt.ep, "service"),
             Go([pkt EXCEPT !.dst = pkt.ep, !.mark = "service"], "antreaEgress")
      PROVE PipelineInvariant'
  <2> DEFINE p == [pkt EXCEPT !.dst = pkt.ep, !.mark = "service"]
  <2>1. /\ pkt.ep \in Hosts /\ pkt.id \in Ids /\ pkt.dst = Service /\ pkt.state = "new"
        /\ pkt.ep \in Endpoints
    BY <1>2, <1>5, <1>6, Zenon DEF PacketType, Hosts
  <2>2. /\ pkt.in \in Pods /\ pkt.sender = pkt.in /\ pkt.src = pkt.sender
        /\ pkt.in = Gateway <=> pkt.sender = Gateway
        /\ pkt.from = "gateway" <=> pkt.in = Gateway
        /\ pkt.in # "tunnel"
    <3>1. Service \notin Pods /\ "tunnel" \notin Pods BY Distinct, Zenon DEF Hosts, Endpoints
    <3> QED BY <1>1, <1>2, <2>1, <3>1, Zenon DEF Origin
  <2>3. p \in PacketType BY <1>2, <2>1, Zenon DEF PacketType
  <2>4. /\ p.id = pkt.id /\ p.in = pkt.in /\ p.src = pkt.src /\ p.dst = pkt.ep /\ p.sender = pkt.sender
        /\ p.from = pkt.from /\ p.state = pkt.state /\ SameChoice(p, pkt)
    BY <1>2, Zenon DEF PacketType, SameChoice
  <2>5. /\ pkt' \in PacketType /\ pkt'.table = "antreaEgress" /\ Alike(pkt', p)
        /\ UNCHANGED <<egress, ingress, buckets, dnats, out>>
    BY <1>1, <1>6, <2>3, Moved, Zenon
  <2> HIDE DEF p
  <2>6. Grown /\ \E c \in conns' : c.id = pkt.id /\ c.src = pkt.src /\ c.ep = pkt.ep
    <3>1. pkt.src \in Hosts /\ pkt.src # Service BY <2>2, Distinct, Zenon DEF Hosts, Endpoints
    <3> QED BY <1>2, <1>6, <2>1, <2>2, <3>1, Committed DEF Types, None
  <2>7. Origin' BY <2>1, <2>2, <2>4, <2>5, Zenon DEF Origin, Entering, Alike, SameEnds, None
  <2>8. pkt.ep \notin {Service, Hairpin} BY <2>1, Distinct, Zenon
  <2>9. Addressed' BY <2>4, <2>5, <2>8, Zenon DEF Addressed, Entering, Choosing, Alike, SameEnds
  <2>10. Tracked' BY <2>1, <2>4, <2>5, <2>6, Zenon DEF Tracked, Known, Entering, Alike, SameEnds
  <2>11. Policed' BY <2>5, Zenon DEF Policed, Late, Egress, Ingress, Sending
  <2>12. Routed' BY <2>1, <2>4, <2>5, Zenon DEF Routed, Alike, SameEnds
  <2>13. Reselected' BY <1>2, <2>4, <2>5, Zenon DEF Reselected, Alike, SameChoice
  <2> QED BY <1>2, <1>3, <1>6, <2>5, <2>6, <2>7, <2>9, <2>10, <2>11, <2>12, <2>13, StillInPipeline, Zenon
<1>7. ASSUME pkt.learn = "selected", pkt.ep \notin dnats, pkt.resubmits < MaxResubmits, Same,
             Go([pkt EXCEPT !.learn = "needLB", !.resubmits = @ + 1], "serviceLB")
      PROVE PipelineInvariant'
  <2> DEFINE p == [pkt EXCEPT !.learn = "needLB", !.resubmits = @ + 1]
  <2>1. pkt.resubmits \in 0..MaxResubmits /\ pkt.resubmits + 1 \in 0..MaxResubmits
    BY <1>2, <1>7 DEF PacketType, MaxResubmits
  <2>2. p \in PacketType BY <1>2, <2>1, Zenon DEF PacketType
  <2>3. SameEnds(p, pkt) /\ p.learn = "needLB" /\ p.resubmits = pkt.resubmits + 1
    BY <1>2, Zenon DEF PacketType, SameEnds
  <2>4. /\ pkt' \in PacketType /\ pkt'.table = "serviceLB" /\ Alike(pkt', p)
        /\ UNCHANGED <<egress, ingress, buckets, dnats, out>>
    BY <1>7, <2>2, Moved, Zenon DEF Tables, Choosing
  <2> HIDE DEF p
  <2>5. Addressed' BY <1>4, <1>5, <1>7, <2>3, <2>4, Zenon
    DEF Addressed, Entering, Late, Egress, Ingress, Sending, Alike, SameEnds, SameChoice
  <2>6. Routed' BY <1>5, <1>7, <2>3, <2>4, Zenon DEF Routed, Alike, SameEnds
  <2>7. buckets \subseteq dnats => pkt.resubmits = 0 BY <1>2, <1>7, <2>1 DEF Reselected
  <2>8. Reselected' BY <2>3, <2>4, <2>7 DEF Reselected, Alike, SameChoice
  <2> QED BY <1>1, <1>3, <1>7, <2>3, <2>4, <2>5, <2>6, <2>8, ChoosingStep, Zenon DEF Choosing, Alike, SameEnds, Same
<1>8. CASE pkt.learn = "selected" /\ Drop BY <1>1, <1>5, <1>8, Dropped, Zenon
<1>9. ASSUME pkt.learn # "selected", Same, Go(pkt, "antreaEgress")
      PROVE PipelineInvariant'
  <2>1. /\ pkt' \in PacketType /\ pkt'.table = "antreaEgress" /\ Alike(pkt', pkt)
        /\ UNCHANGED <<egress, ingress, buckets, dnats, out>>
    BY <1>1, <1>2, <1>9, Moved, Zenon
  <2>2. Addressed' BY <1>1, <1>2, <1>4, <1>9, <2>1, Zenon DEF Addressed, Entering, Choosing, Alike, SameEnds
  <2>3. Routed' BY <1>1, <1>2, <2>1, Zenon
    DEF Routed, Egress, Ingress, Sending, Alike, SameEnds, SameChoice, SameLink
  <2>4. Reselected' BY <1>2, <2>1, Zenon DEF Reselected, Alike, SameChoice
  <2> QED BY <1>1, <1>3, <1>9, <2>1, <2>2, <2>3, <2>4, ChoosingStep, Zenon DEF Alike, SameEnds, Same
<1> QED BY <1>6, <1>7, <1>8, <1>9, Zenon DEF endpointDNAT

---------------------------------------------------------------------------
(* Entering                                                                *)

\* Before conntrack a packet has no state: no rule and no route applies to it.
LEMMA EnteringStep ==
  ASSUME out = Nothing, Types, Connections, Reselected, pkt' \in PacketType, pkt'.table \in Entering,
         UNCHANGED <<conns, learned, buckets, dnats, out>>, SameChoice(pkt', pkt),
         Origin', Addressed',
         pkt'.hairpin \/ pkt'.dst = Hairpin =>
           \E c \in conns : c.id = pkt'.id /\ c.src = pkt'.in /\ c.ep = pkt'.in
  PROVE  PipelineInvariant'
<1>1. pkt'.state = None BY Zenon DEF Origin
<1>2. Tracked' BY <1>1, Zenon DEF Tracked, Entering, None
<1>3. Policed' /\ Routed' BY <1>1, Zenon DEF Policed, Routed, None
<1>4. Reselected' BY Zenon DEF Reselected, SameChoice
<1>5. Grown /\ learned' \in [Clients -> Endpoints \cup {None}] BY NotGrown, Zenon DEF Types
<1> QED BY <1>2, <1>3, <1>4, <1>5, StillInPipeline, Zenon

LEMMA ClassifierKeeps ==
  ASSUME PipelineInvariant, Classifier PROVE PipelineInvariant'
<1>1. /\ pkt.table = "classifier" /\ pkt.table # None /\ UNCHANGED <<conns, learned>>
      /\ pkt.table \in Entering
  BY Zenon DEF Classifier, At, Same, Entering, None
<1>2. /\ pkt \in PacketType /\ out = Nothing /\ Types /\ Connections
      /\ Origin /\ Addressed /\ Tracked /\ Reselected
  BY <1>1, InPipeline, Zenon
<1>3. \A x \in Pods : x # Gateway /\ x # "tunnel" BY Distinct, Zenon DEF Hosts, Endpoints
<1>4. ASSUME NEW f, NEW r \in BOOLEAN, NEW t, Go([pkt EXCEPT !.from = f, !.rewrite = r], t),
             \/ f = "tunnel" /\ r = TRUE /\ t = "conntrack" /\ pkt.in = "tunnel"
             \/ f = "gateway" /\ r = pkt.rewrite /\ t = "spoofGuard" /\ pkt.in = Gateway
             \/ f = "local" /\ r = pkt.rewrite /\ t = "spoofGuard" /\ pkt.in \in Pods
      PROVE PipelineInvariant'
  <2> DEFINE p == [pkt EXCEPT !.from = f, !.rewrite = r]
  <2>1. f \in {"tunnel", "gateway", "local"} /\ t \in Tables /\ t \in Entering BY <1>4, Zenon DEF Tables, Entering
  <2>2. p \in PacketType BY <1>2, <2>1, ZenonT(40) DEF PacketType
  <2>3. /\ p.id = pkt.id /\ p.in = pkt.in /\ p.src = pkt.src /\ p.dst = pkt.dst /\ p.sender = pkt.sender
        /\ p.from = f /\ p.rewrite = r /\ p.state = pkt.state /\ p.hairpin = pkt.hairpin
        /\ p.dmac = pkt.dmac /\ p.drop = pkt.drop /\ SameChoice(p, pkt)
    BY <1>2, Zenon DEF PacketType, SameChoice
  <2>4. /\ pkt' \in PacketType /\ pkt'.table = t /\ Alike(pkt', p)
        /\ UNCHANGED <<egress, ingress, buckets, dnats, out>>
    BY <1>4, <2>1, <2>2, Moved, Zenon
  <2> HIDE DEF p
  <2>5. pkt.in = "tunnel" => pkt.sender # Gateway /\ pkt.in # Gateway /\ pkt.dst # Hairpin
    BY <1>2, Distinct, Zenon DEF Origin, Hosts, Endpoints
  <2>6. Origin' BY <1>1, <1>2, <1>3, <1>4, <2>3, <2>4, <2>5 DEF Origin, Alike, SameEnds, Entering
  <2>7. Addressed' BY <1>1, <1>2, <1>3, <1>4, <2>3, <2>4, <2>5, Distinct
    DEF Addressed, Alike, SameEnds, SameChoice, SameLink, Entering, Choosing, Late, Egress, Ingress, Sending
  <2> QED BY <1>1, <1>2, <2>1, <2>3, <2>4, <2>6, <2>7, EnteringStep, Zenon
      DEF Tracked, Alike, SameEnds, SameChoice
<1>5. pkt.rewrite \in BOOLEAN BY <1>2, Zenon DEF PacketType
<1>6. \A f : [pkt EXCEPT !.from = f, !.rewrite = pkt.rewrite] = [pkt EXCEPT !.from = f]
  BY <1>2, Zenon DEF PacketType
<1> QED BY <1>4, <1>5, <1>6, Zenon DEF Classifier

LEMMA SpoofGuardKeeps ==
  ASSUME PipelineInvariant, SpoofGuard PROVE PipelineInvariant'
<1>1. pkt.table = "spoofGuard" /\ pkt.table # None BY Zenon DEF SpoofGuard, At, None
<1>2. /\ pkt \in PacketType /\ out = Nothing /\ Types /\ Connections
      /\ Origin /\ Addressed /\ Tracked /\ Reselected
  BY <1>1, InPipeline, Zenon
<1>3. pkt.state = None BY <1>1, <1>2, Zenon DEF Origin, Entering
<1>4. ASSUME pkt.in = Gateway \/ pkt.src = pkt.in, Same, Go(pkt, "serviceHairpin")
      PROVE PipelineInvariant'
  <2>1. /\ pkt' \in PacketType /\ pkt'.table = "serviceHairpin" /\ Alike(pkt', pkt)
        /\ UNCHANGED <<egress, ingress, buckets, dnats, out>>
    BY <1>2, <1>4, Moved, Zenon DEF Tables, Entering
  <2>2. pkt.in \in Pods => pkt.in # Gateway BY Distinct, Zenon
  <2>3. Origin' BY <1>1, <1>2, <1>3, <1>4, <2>1, <2>2, Zenon DEF Origin, Alike, SameEnds, Entering, None
  <2>4. Addressed' BY <1>1, <1>2, <2>1, Zenon
    DEF Addressed, Alike, SameEnds, SameChoice, SameLink, Entering, Choosing, Late, Egress, Ingress, Sending
  <2> QED BY <1>1, <1>2, <1>4, <2>1, <2>3, <2>4, EnteringStep, Zenon
      DEF Tracked, Alike, SameEnds, Same, Entering
<1>5. CASE Drop BY <1>1, <1>3, <1>5, Dropped, Zenon DEF None
<1> QED BY <1>4, <1>5, Zenon DEF SpoofGuard

LEMMA HairpinResponseKeeps ==
  ASSUME PipelineInvariant, serviceHairpinResponseDNATFlow PROVE PipelineInvariant'
<1>1. pkt.table = "serviceHairpin" /\ pkt.table # None /\ UNCHANGED <<conns, learned>>
  BY Zenon DEF serviceHairpinResponseDNATFlow, At, Same, None
<1>2. /\ pkt \in PacketType /\ out = Nothing /\ Types /\ Connections
      /\ Origin /\ Addressed /\ Tracked /\ Reselected
  BY <1>1, InPipeline, Zenon
<1>3. CASE pkt.dst = Hairpin
  <2> DEFINE p == [pkt EXCEPT !.dst = pkt.src, !.hairpin = TRUE]
  <2>1. Go(p, "conntrack") BY <1>3, Zenon DEF serviceHairpinResponseDNATFlow
  <2>2. p \in PacketType BY <1>2, Zenon DEF PacketType
  <2>3. /\ p.id = pkt.id /\ p.in = pkt.in /\ p.src = pkt.src /\ p.dst = pkt.src /\ p.sender = pkt.sender
        /\ p.from = pkt.from /\ p.state = pkt.state /\ p.hairpin /\ SameChoice(p, pkt) /\ SameLink(p, pkt)
    BY <1>2, Zenon DEF PacketType, SameChoice, SameLink
  <2>4. /\ pkt' \in PacketType /\ pkt'.table = "conntrack" /\ Alike(pkt', p)
        /\ UNCHANGED <<egress, ingress, buckets, dnats, out>>
    BY <2>1, <2>2, Moved, Zenon DEF Tables, Entering
  <2> HIDE DEF p
  <2>5. /\ pkt.in \in Pods /\ pkt.src = pkt.in /\ pkt.sender = pkt.in /\ pkt.state = None
    BY <1>1, <1>2, <1>3, Zenon DEF Origin, Addressed, Entering, None
  <2>6. pkt.in # Gateway /\ pkt.in # "tunnel" /\ pkt.src # Hairpin
    BY <2>5, Distinct, Zenon DEF Hosts, Endpoints
  <2>7. Origin' BY <1>1, <1>2, <2>3, <2>4, <2>5 DEF Origin, Alike, SameEnds, Entering
  <2>8. Addressed' BY <1>1, <1>2, <2>3, <2>4, <2>5, <2>6
    DEF Addressed, Alike, SameEnds, SameChoice, SameLink, Entering, Choosing, Late, Egress, Ingress, Sending
  <2> QED BY <1>1, <1>2, <1>3, <2>3, <2>4, <2>7, <2>8, EnteringStep, ZenonT(40)
      DEF Tracked, Alike, SameEnds, SameChoice, Entering
<1>4. CASE pkt.dst # Hairpin
  <2>1. Go(pkt, "conntrack") BY <1>4, Zenon DEF serviceHairpinResponseDNATFlow
  <2>2. /\ pkt' \in PacketType /\ pkt'.table = "conntrack" /\ Alike(pkt', pkt)
        /\ UNCHANGED <<egress, ingress, buckets, dnats, out>>
    BY <1>2, <2>1, Moved, Zenon DEF Tables, Entering
  <2>3. Origin' BY <1>1, <1>2, <2>2, Zenon DEF Origin, Alike, SameEnds, Entering
  <2>4. Addressed' BY <1>1, <1>2, <1>4, <2>2
    DEF Addressed, Alike, SameEnds, SameChoice, SameLink, Entering, Choosing, Late, Egress, Ingress, Sending
  <2> QED BY <1>1, <1>2, <2>2, <2>3, <2>4, EnteringStep, Zenon DEF Tracked, Alike, SameEnds, Entering
<1> QED BY <1>3, <1>4, Zenon

\* The packet takes the state, the mark and the translation of its connection.
LEMMA Translated ==
  ASSUME NEW a \in Hosts \cup {Service, Hairpin}, NEW s \in {"new", "est"}, NEW m \in {None, "service", "gateway"}
  PROVE  /\ \A q \in PacketType : [q EXCEPT !.dst = a] \in PacketType
         /\ \A q \in PacketType : [q EXCEPT !.src = a] \in PacketType
         /\ \A q \in PacketType : [q EXCEPT !.mark = m] \in PacketType
         /\ \A q \in PacketType : [q EXCEPT !.state = s] \in PacketType
BY DEF PacketType

\* What ct leaves in conntrackState, in terms of the packet after it.
LEMMA OriginOn ==
  ASSUME pkt'.table = "conntrackState", pkt'.state \in {"new", "est"},
         pkt'.in = "tunnel" => pkt'.sender \in RemotePods, pkt'.in = Gateway <=> pkt'.sender = Gateway,
         pkt'.in \notin Pods => pkt'.dst \in Pods, pkt'.from = "gateway" <=> pkt'.in = Gateway,
         pkt'.in \in Pods => pkt'.sender = pkt'.in, pkt'.state # "est" => pkt'.src = pkt'.sender
  PROVE Origin'
<1>1. pkt'.state # None /\ pkt'.table \notin Entering BY DEF None, Entering
<1> QED BY <1>1, Zenon DEF Origin

LEMMA TrackedOn ==
  ASSUME pkt'.table = "conntrackState", pkt'.state = "new" /\ pkt'.src = pkt'.dst => Known(pkt)',
         pkt'.state = "est" => Answer(pkt)' \/ (~pkt'.hairpin /\ Known(pkt)' /\ pkt'.src = pkt'.sender)
  PROVE Tracked'
<1>1. pkt'.table \notin Entering /\ pkt'.table # "l2ForwardingOut" BY DEF Entering
<1> QED BY <1>1, Zenon DEF Tracked

\* What Routed asks of a packet that the conntrack table sends on.
LEMMA RoutedOn ==
  ASSUME pkt'.table = "conntrackState", ~pkt'.drop, pkt'.learn = "none", pkt'.dst # Service,
         pkt'.hairpin => pkt'.in = pkt'.dst /\ pkt'.dst \in Pods,
         pkt'.in = pkt'.dst /\ ~pkt'.hairpin => pkt'.src = pkt'.dst,
         pkt'.rewrite => pkt'.dst \in Endpoints,
         pkt'.mark = "service" => pkt'.dst \in Endpoints,
         pkt'.mark = "gateway" => IF pkt'.in = Gateway THEN pkt'.dmac = pkt'.dst ELSE pkt'.dst = Gateway,
         pkt'.mark = None => pkt'.rewrite \/ pkt'.hairpin \/ pkt'.dst \in RemotePods \/ pkt'.dmac = pkt'.dst
  PROVE  Routed'
BY Zenon DEF Routed, Egress, Ingress, Sending

LEMMA ConntrackKeeps ==
  ASSUME PipelineInvariant, conntrack PROVE PipelineInvariant'
<1> DEFINE orig  == {c \in conns : c.id = pkt.id /\ c.src = pkt.src /\ c.dst = pkt.dst}
           reply == {c \in conns : c.id = pkt.id /\ c.ep = pkt.src /\ c.src = pkt.dst}
<1>1. pkt.table = "conntrack" /\ pkt.table # None /\ UNCHANGED learned /\ "conntrackState" \in Tables
  BY Zenon DEF conntrack, At, Tables, Choosing, None
<1>2. /\ pkt \in PacketType /\ out = Nothing /\ Types /\ Connections
      /\ Origin /\ Addressed /\ Tracked /\ Reselected
  BY <1>1, InPipeline, Zenon
<1>3. learned' \in [Clients -> Endpoints \cup {None}] BY <1>1, <1>2, Zenon DEF Types
<1>4. /\ pkt.src = pkt.sender /\ pkt.dst # Hairpin /\ pkt.learn = "none" /\ ~pkt.drop
      /\ pkt.in = Gateway <=> pkt.sender = Gateway
      /\ pkt.in = "tunnel" => pkt.sender \in RemotePods
      /\ pkt.in \in Pods => pkt.sender = pkt.in
      /\ pkt.in \notin Pods => pkt.dst \in Pods
      /\ pkt.from = "gateway" <=> pkt.in = Gateway
      /\ pkt.hairpin <=> pkt.src = pkt.dst
      /\ pkt.rewrite <=> pkt.in = "tunnel"
      /\ pkt.dst \in Pods /\ pkt.in # "tunnel" /\ ~pkt.hairpin => pkt.dmac = pkt.dst
      /\ pkt.dst = Gateway => pkt.dmac = Gateway
  BY <1>1, <1>2, Zenon DEF Origin, Addressed, Entering, None
<1>5. pkt.hairpin => /\ pkt.in \in Pods
                     /\ \E c \in conns : c.id = pkt.id /\ c.src = pkt.in /\ c.ep = pkt.in
  BY <1>1, <1>2, Zenon DEF Addressed, Tracked, Entering
<1>6. pkt.in \in Pods \cup {Gateway, "tunnel"} /\ pkt.sender \in Hosts BY <1>2, Zenon DEF PacketType
<1>7. ASSUME orig = {}, reply = {}, UNCHANGED conns, Go([pkt EXCEPT !.state = "new"], "conntrackState")
      PROVE PipelineInvariant'
  <2> DEFINE p == [pkt EXCEPT !.state = "new"]
  <2>1. p \in PacketType BY <1>2, Zenon DEF PacketType
  <2>2. /\ p.id = pkt.id /\ p.in = pkt.in /\ p.src = pkt.src /\ p.dst = pkt.dst /\ p.sender = pkt.sender
        /\ p.from = pkt.from /\ p.state = "new" /\ SameChoice(p, pkt)
    BY <1>2, Zenon DEF PacketType, SameChoice
  <2>3. /\ pkt' \in PacketType /\ pkt'.table = "conntrackState" /\ Alike(pkt', p)
        /\ UNCHANGED <<egress, ingress, buckets, dnats, out>>
    BY <1>1, <1>7, <2>1, Moved, Zenon
  <2>4. pkt.src # pkt.dst BY <1>4, <1>5, <1>7, Zenon
  <2> HIDE DEF p, orig, reply
  <2>5. Origin'
    <3>1. /\ pkt'.in = pkt.in /\ pkt'.src = pkt.src /\ pkt'.dst = pkt.dst /\ pkt'.sender = pkt.sender
          /\ pkt'.from = pkt.from /\ pkt'.state = "new"
      BY <2>2, <2>3, Zenon DEF Alike, SameEnds
    <3> QED BY <1>4, <2>3, <3>1, OriginOn, Zenon
  <2>6. Addressed' BY <1>4, <2>2, <2>3, Zenon
    DEF Addressed, Entering, Late, Egress, Ingress, Sending, Alike, SameEnds, SameChoice
  <2>7. Tracked' BY <2>2, <2>3, <2>4, Zenon DEF Tracked, Entering, Alike, SameEnds
  <2>8. Policed' /\ Routed' BY <2>2, <2>3, Zenon DEF Policed, Routed, Late, Egress, Ingress, Sending, Alike, SameEnds
  <2>9. Reselected' BY <1>2, <2>2, <2>3, Zenon DEF Reselected, Alike, SameChoice
  <2> QED BY <1>2, <1>3, <1>7, <2>3, <2>5, <2>6, <2>7, <2>8, <2>9, NotGrown, StillInPipeline, Zenon
<1>8. ASSUME NEW c \in orig \ reply, NEW st \in {"new", "est"}, UNCHANGED conns,
             Go([pkt EXCEPT !.state = st, !.mark = c.mark, !.dst = c.ep], "conntrackState")
      PROVE PipelineInvariant'
  <2> DEFINE p == [pkt EXCEPT !.state = st, !.mark = c.mark, !.dst = c.ep]
  <2>1. /\ c \in ConnType /\ Sound(c) /\ c.id = pkt.id /\ c.src = pkt.src /\ c.dst = pkt.dst /\ c \in conns
    BY <1>2, Zenon DEF Types, Connections
  <2>2. c.ep \in Hosts /\ c.mark \in {None, "service", "gateway"} BY <2>1, Zenon DEF ConnType
  <2>3. p \in PacketType BY <1>2, <2>2, Translated, Zenon
  <2>4. /\ p.id = pkt.id /\ p.in = pkt.in /\ p.src = pkt.src /\ p.dst = c.ep /\ p.sender = pkt.sender
        /\ p.from = pkt.from /\ p.state = st /\ p.hairpin = pkt.hairpin /\ SameChoice(p, pkt)
        /\ p.dmac = pkt.dmac /\ p.rewrite = pkt.rewrite /\ p.mark = c.mark /\ p.drop = pkt.drop
    BY <1>2, Zenon DEF PacketType, SameChoice
  <2>5. Go(p, "conntrackState") BY <1>8, Zenon
  <2> HIDE DEF p, orig, reply
  <2>6. /\ pkt' \in PacketType /\ pkt'.table = "conntrackState" /\ Alike(pkt', p)
        /\ UNCHANGED <<egress, ingress, buckets, dnats, out>>
    BY <1>1, <2>3, <2>5, Moved, Zenon
  <2>7. ~pkt.hairpin /\ pkt.src # pkt.dst BY <1>4, <2>1, Zenon DEF Sound
  <2>8. pkt.in \notin Pods => c.ep \in Pods
    <3>1. Service \notin Pods BY Distinct, Zenon DEF Hosts, Endpoints
    <3> QED BY <1>4, <2>1, <3>1, Zenon DEF Sound
  <2>9. Origin'
    <3>1. /\ pkt'.in = pkt.in /\ pkt'.src = pkt.src /\ pkt'.dst = c.ep /\ pkt'.sender = pkt.sender
          /\ pkt'.from = pkt.from /\ pkt'.state = st
      BY <2>4, <2>6, Zenon DEF Alike, SameEnds
    <3> QED BY <1>4, <1>8, <2>6, <2>8, <3>1, OriginOn, Zenon
  <2>10. c.ep \notin {Service, Hairpin} BY <2>2, Distinct, Zenon
  <2>11. Addressed' BY <1>4, <2>4, <2>6, <2>10, Zenon
    DEF Addressed, Entering, Late, Egress, Ingress, Sending, Alike, SameEnds, SameChoice
  <2>12. Known(pkt)' BY <1>8, <2>1, <2>4, <2>6, Zenon DEF Known, Alike, SameEnds
  <2>13. Tracked'
    <3>1. pkt'.src = pkt.src /\ pkt'.sender = pkt.sender /\ pkt'.hairpin = pkt.hairpin
      BY <2>4, <2>6, Zenon DEF Alike, SameEnds
    <3> QED BY <1>4, <2>6, <2>7, <2>12, <3>1, TrackedOn, Zenon
  <2>14. Policed' BY <2>6, Zenon DEF Policed, Late, Egress, Ingress, Sending
  <2>15. Routed'
    <3>1. pkt.in = c.ep => pkt.src = c.ep BY <1>4, <1>6, <2>8, Zenon
    <3>2. pkt.rewrite => c.ep \in Endpoints BY <1>4, <2>8, Distinct, Zenon DEF Hosts, Endpoints
    <3>3. c.mark = "service" => c.ep \in Endpoints BY <2>1, Zenon DEF Sound
    <3>4. c.mark = "gateway" => pkt.in = Gateway /\ pkt.dmac = c.ep
      <4>1. Service \notin Pods /\ Gateway \notin Pods /\ Gateway # "tunnel" BY Distinct, Zenon DEF Hosts, Endpoints
      <4> QED BY <1>4, <2>1, <2>7, <4>1, Zenon DEF Sound
    <3>5. c.mark = None => pkt.rewrite \/ c.ep \in RemotePods \/ pkt.dmac = c.ep
      BY <1>4, <2>1, <2>2, <2>7, Zenon DEF Sound, Hosts, Endpoints, None
    <3>6. /\ pkt'.in = pkt.in /\ pkt'.src = pkt.src /\ pkt'.dst = c.ep /\ pkt'.hairpin = pkt.hairpin
          /\ pkt'.learn = pkt.learn /\ pkt'.dmac = pkt.dmac /\ pkt'.rewrite = pkt.rewrite
          /\ pkt'.mark = c.mark /\ pkt'.drop = pkt.drop
      BY <2>4, <2>6, Zenon DEF Alike, SameEnds, SameChoice, SameLink
    <3> QED BY <1>4, <2>6, <2>7, <2>10, <3>1, <3>2, <3>3, <3>4, <3>5, <3>6, RoutedOn, Zenon
  <2>16. Reselected' BY <1>2, <2>4, <2>6, Zenon DEF Reselected, Alike, SameChoice
  <2> QED BY <1>2, <1>3, <1>8, <2>6, <2>9, <2>11, <2>13, <2>14, <2>15, <2>16, NotGrown, StillInPipeline, Zenon
<1>9. ASSUME NEW c \in reply, conns' = (conns \ {c}) \cup {[c EXCEPT !.seen = TRUE]},
             Go([pkt EXCEPT !.state = "est", !.mark = c.mark, !.src = c.dst], "conntrackState")
      PROVE PipelineInvariant'
  <2> DEFINE p == [pkt EXCEPT !.state = "est", !.mark = c.mark, !.src = c.dst]
             d == [c EXCEPT !.seen = TRUE]
  <2>1. c \in ConnType /\ Sound(c) /\ c.id = pkt.id /\ c.ep = pkt.src /\ c.src = pkt.dst /\ c \in conns
    BY <1>2, Zenon DEF Types, Connections
  <2>2. c.dst \in Hosts \cup {Service} /\ c.mark \in {None, "service", "gateway"} /\ c.src \in Hosts
    BY <2>1, Zenon DEF ConnType
  <2>3. /\ d \in ConnType /\ d.id = c.id /\ d.src = c.src /\ d.dst = c.dst /\ d.ep = c.ep /\ d.mark = c.mark
    BY <2>1, Zenon DEF ConnType
  <2>4. d \in conns' /\ (\A e \in conns' : e \in conns \/ e = d) /\ (\A e \in conns : e = c \/ e \in conns')
    BY <1>9, Zenon
  <2>5. p \in PacketType BY <1>2, <2>2, Translated, Zenon
  <2>6. /\ p.id = pkt.id /\ p.in = pkt.in /\ p.src = c.dst /\ p.dst = pkt.dst /\ p.sender = pkt.sender
        /\ p.from = pkt.from /\ p.state = "est" /\ p.hairpin = pkt.hairpin /\ SameChoice(p, pkt)
        /\ p.dmac = pkt.dmac /\ p.rewrite = pkt.rewrite /\ p.mark = c.mark /\ p.drop = pkt.drop
    BY <1>2, Zenon DEF PacketType, SameChoice
  <2>7. Go(p, "conntrackState") BY <1>9, Zenon
  <2> HIDE DEF p, d, orig, reply
  <2>8. /\ pkt' \in PacketType /\ pkt'.table = "conntrackState" /\ Alike(pkt', p)
        /\ UNCHANGED <<egress, ingress, buckets, dnats, out>>
    BY <1>1, <2>5, <2>7, Moved, Zenon
  <2>9. Connections' BY <1>2, <2>1, <2>3, <2>4, Zenon DEF Connections, Sound
  <2>10. Grown BY <1>2, <2>3, <2>4, <2>9, Zenon DEF Grown, Types
  <2>11. Origin'
    <3>1. /\ pkt'.in = pkt.in /\ pkt'.dst = pkt.dst /\ pkt'.sender = pkt.sender
          /\ pkt'.from = pkt.from /\ pkt'.state = "est"
      BY <2>6, <2>8, Zenon DEF Alike, SameEnds
    <3> QED BY <1>4, <2>8, <3>1, OriginOn, Zenon
  <2>12. pkt.dst \notin {Service, Hairpin} BY <2>1, <2>2, Distinct, Zenon
  <2>13. Addressed' BY <1>4, <2>6, <2>8, <2>12, Zenon
    DEF Addressed, Entering, Late, Egress, Ingress, Sending, Alike, SameEnds, SameChoice
  <2>14. Answer(pkt)' BY <2>1, <2>3, <2>4, <2>6, <2>8 DEF Answer, Alike, SameEnds
  <2>15. Tracked' BY <2>6, <2>8, <2>14, TrackedOn, Zenon DEF Alike, SameEnds
  <2>16. Policed' BY <2>8, Zenon DEF Policed, Late, Egress, Ingress, Sending
  <2>17. Routed'
    <3>1. pkt.hairpin => pkt.in = pkt.dst /\ pkt.dst \in Pods BY <1>4, <1>5, Zenon
    <3>2. pkt.in = pkt.dst => pkt.hairpin BY <1>4, <1>6, Zenon
    <3>3. pkt.rewrite => pkt.dst \in Endpoints BY <1>4, Distinct, Zenon DEF Hosts, Endpoints
    <3>4. c.mark = "service" => pkt.dst \in Endpoints BY <2>1, Zenon DEF Sound, Endpoints
    <3>5. c.mark = "gateway" => pkt.in # Gateway /\ pkt.dst = Gateway
      <4>1. Gateway \notin Pods BY Distinct, Zenon
      <4> QED BY <1>4, <2>1, <4>1, Zenon DEF Sound
    <3>6. pkt.rewrite \/ pkt.hairpin \/ pkt.dst \in RemotePods \/ pkt.dmac = pkt.dst
      BY <1>4, <2>1, <2>2, Zenon DEF Hosts, Endpoints
    <3>7. /\ pkt'.in = pkt.in /\ pkt'.dst = pkt.dst /\ pkt'.hairpin = pkt.hairpin
          /\ pkt'.learn = pkt.learn /\ pkt'.dmac = pkt.dmac /\ pkt'.rewrite = pkt.rewrite
          /\ pkt'.mark = c.mark /\ pkt'.drop = pkt.drop
      BY <2>6, <2>8, Zenon DEF Alike, SameEnds, SameChoice, SameLink
    <3> QED BY <1>4, <2>8, <2>12, <3>1, <3>2, <3>3, <3>4, <3>5, <3>6, <3>7, RoutedOn, Zenon
  <2>18. Reselected' BY <1>2, <2>6, <2>8, Zenon DEF Reselected, Alike, SameChoice
  <2> QED BY <1>2, <1>3, <2>8, <2>10, <2>11, <2>13, <2>15, <2>16, <2>17, <2>18, StillInPipeline, Zenon
<1>10. ASSUME NEW c \in orig \ reply, UNCHANGED conns,
              Go([pkt EXCEPT !.state = IF c.seen THEN "est" ELSE "new", !.mark = c.mark, !.dst = c.ep],
                 "conntrackState")
       PROVE PipelineInvariant'
  <2>1. CASE c.seen BY <1>8, <1>10, <2>1, Zenon
  <2>2. CASE ~c.seen BY <1>8, <1>10, <2>2, Zenon
  <2> QED BY <2>1, <2>2, Zenon
<1> QED BY <1>7, <1>9, <1>10, Zenon DEF conntrack

\* What a packet is when it enters the bridge, by the port it comes in at.
Entered(p) ==
  \E id \in Ids, in \in Pods \cup {Gateway, "tunnel"}, src \in Hosts,
     dst \in Hosts \cup {Service, Hairpin}, dmac \in Hosts \cup {"vmac"} :
        /\ p = Packet(id, in, src, dst, dmac)
        /\ in = "tunnel" => src \in RemotePods
        /\ in = Gateway <=> src = Gateway
        /\ in \notin Pods => dst \in Pods
        /\ in # "tunnel" /\ dst \in Pods => dmac = dst
        /\ dst = Gateway => dmac = Gateway

LEMMA ArriveKeeps ==
  ASSUME PipelineInvariant, Arrive PROVE PipelineInvariant'
<1>1. /\ UNCHANGED <<conns, egress, ingress, buckets, dnats, learned>> /\ out' = Nothing
      /\ Types /\ Connections
      /\ pkt'.src # pkt'.dst
      /\ pkt'.dst = Hairpin => \E c \in conns : c.id = pkt'.id /\ c.src = pkt'.in /\ c.ep = pkt'.in
  BY Zenon DEF Arrive, Entries, PipelineInvariant
<1>2. Entered(pkt')
  <2>1. pkt' \in Arrivals BY Zenon DEF Arrive
  <2>2. CASE \E i \in Ids, p \in Pods : pkt' = Packet(i, Gateway, Gateway, p, p)
    BY <2>2, Distinct, Zenon DEF Entered, Hosts, Endpoints
  <2>3. CASE \E i \in Ids, r \in RemotePods, p \in Pods : pkt' = Packet(i, "tunnel", r, p, "vmac")
    BY <2>3, Distinct, Zenon DEF Entered, Hosts, Endpoints
  <2>4. ASSUME NEW i \in Ids, NEW p \in Pods, NEW s \in Pods,
               NEW d \in Pods \cup RemotePods \cup {Gateway, Service, Hairpin},
               pkt' = Packet(i, p, s, d, IF d \in Pods THEN d ELSE Gateway)
        PROVE Entered(pkt')
    <3>1. /\ d \in Hosts \cup {Service, Hairpin} /\ s \in Hosts /\ Gateway \in Hosts
          /\ p # "tunnel" /\ p # Gateway /\ s # Gateway /\ (d = Gateway => d \notin Pods)
      BY Distinct, Zenon DEF Hosts, Endpoints
    <3>2. CASE d \in Pods
      <4>1. d \in Hosts BY <3>2, Zenon DEF Hosts, Endpoints
      <4> QED BY <2>4, <3>1, <3>2, <4>1, Zenon DEF Entered
    <3>3. CASE d \notin Pods BY <2>4, <3>1, <3>3, Zenon DEF Entered
    <3> QED BY <3>2, <3>3, Zenon
  <2> QED BY <2>1, <2>2, <2>3, <2>4 DEF Arrivals
<1>3. PICK id \in Ids, in \in Pods \cup {Gateway, "tunnel"}, src \in Hosts,
           dst \in Hosts \cup {Service, Hairpin}, dmac \in Hosts \cup {"vmac"} :
        /\ pkt' = Packet(id, in, src, dst, dmac)
        /\ in = "tunnel" => src \in RemotePods
        /\ in = Gateway <=> src = Gateway
        /\ in \notin Pods => dst \in Pods
        /\ in # "tunnel" /\ dst \in Pods => dmac = dst
        /\ dst = Gateway => dmac = Gateway
  BY <1>2, Zenon DEF Entered
<1>4. /\ pkt'.id = id /\ pkt'.table = "classifier" /\ pkt'.in = in /\ pkt'.src = src /\ pkt'.dst = dst
      /\ pkt'.dmac = dmac /\ pkt'.from = None /\ pkt'.rewrite = FALSE /\ pkt'.learn = "none" /\ pkt'.ep = None
      /\ pkt'.hairpin = FALSE /\ pkt'.drop = FALSE /\ pkt'.state = None
      /\ pkt'.resubmits = 0 /\ pkt'.sender = src
  BY <1>3, Zenon DEF Packet
<1>5. Packet(id, in, src, dst, dmac) \in PacketType
  BY DEF Packet, PacketType, Tables, Entering, MaxResubmits, None
<1>6. pkt' \in PacketType BY <1>3, <1>5, Zenon
<1>7. Origin' BY <1>3, <1>4, Zenon DEF Origin, Entering, None
<1>8. dst = Hairpin => in \in Pods BY <1>3, Distinct, Zenon DEF Hosts, Endpoints
<1>9. Addressed' BY <1>1, <1>3, <1>4, <1>8, Zenon
  DEF Addressed, Entering, Choosing, Late, Egress, Ingress, Sending
<1>10. Tracked' BY <1>1, <1>4, Zenon DEF Tracked, Entering, None
<1>11. Policed' /\ Routed' BY <1>4, Zenon DEF Policed, Routed, None
<1>12. Reselected' BY <1>4 DEF Reselected
<1>13. Grown /\ learned' \in [Clients -> Endpoints \cup {None}] BY <1>1, NotGrown, Zenon DEF Types
<1> QED BY <1>1, <1>6, <1>7, <1>9, <1>10, <1>11, <1>12, <1>13, StillInPipeline, Zenon

---------------------------------------------------------------------------
(* The invariant                                                           *)

\* The entries change when no packet is in the pipeline.
LEMMA EntriesKeep ==
  ASSUME PipelineInvariant, ChangeRule \/ \E e \in Endpoints : AddEndpoint(e) \/ RemoveEndpoint(e)
  PROVE  PipelineInvariant'
<1>1. pkt = NoPacket /\ pkt' = NoPacket /\ UNCHANGED <<conns, learned>> /\ out' = Nothing
  BY Zenon DEF ChangeRule, AddEndpoint, RemoveEndpoint
<1>2. buckets' \subseteq Endpoints /\ dnats' \subseteq Endpoints
  BY Zenon DEF ChangeRule, AddEndpoint, RemoveEndpoint, PipelineInvariant, Types
<1>3. Types' BY <1>1, <1>2, Zenon DEF PipelineInvariant, Types
<1>4. Idle' /\ Connections' BY <1>1, Zenon DEF PipelineInvariant, Idle, Connections
<1>5. out'.port = None /\ None \notin Pods BY <1>1, Distinct, Zenon DEF Nothing, Hosts, Endpoints
<1>6. Sent' BY <1>5, Zenon DEF Sent, PolicyHolds, EstablishedDelivered, AnswersTranslated
<1> QED BY <1>1, <1>3, <1>4, <1>6, Zenon DEF PipelineInvariant

LEMMA PipelineInitially == ASSUME Init PROVE PipelineInvariant
<1>1. Types /\ Idle /\ Connections BY Zenon DEF Init, Types, Idle, Connections
<1>2. out.port = None /\ None \notin Pods BY Distinct, Zenon DEF Init, Nothing, Hosts, Endpoints
<1>3. Sent BY <1>2, Zenon DEF Sent, PolicyHolds, EstablishedDelivered, AnswersTranslated
<1> QED BY <1>1, <1>3, Zenon DEF Init, PipelineInvariant

LEMMA TablesKeepInvariant ==
  ASSUME PipelineInvariant, [Next]_plVars PROVE PipelineInvariant'
<1>1. CASE Next
  BY <1>1, EntriesKeep, ArriveKeeps, ClassifierKeeps, SpoofGuardKeeps, HairpinResponseKeeps, ConntrackKeeps,
     ConntrackStateKeeps, SessionAffinityKeeps, ServiceLBKeeps, EndpointDNATKeeps, AntreaEgressKeeps,
     EgressRuleKeeps, EgressMetricKeeps, L3ForwardingKeeps, L2CalcKeeps, AntreaIngressKeeps, IngressRuleKeeps,
     IngressMetricKeeps, ConntrackCommitKeeps, HairpinSNATKeeps, L2OutKeeps, Zenon
  DEF Next, Endpoints
<1>2. CASE UNCHANGED plVars
  <2> USE <1>2 DEF plVars
  <2>1. Types' /\ Idle' /\ Connections' BY Zenon DEF PipelineInvariant, Types, Idle, Connections
  <2>2. Sent' BY Zenon DEF PipelineInvariant, Sent, PolicyHolds, EstablishedDelivered, AnswersTranslated
  <2>3. (pkt # NoPacket => Origin /\ Policed)' BY Zenon DEF PipelineInvariant, Origin, Policed
  <2>4. (pkt # NoPacket => Addressed /\ Routed)' BY Zenon DEF PipelineInvariant, Addressed, Routed
  <2>5. (pkt # NoPacket => Tracked)' BY Zenon DEF PipelineInvariant, Tracked, Known, Answer
  <2>6. (pkt # NoPacket => Reselected)' BY Zenon DEF PipelineInvariant, Reselected
  <2> QED BY <2>1, <2>2, <2>3, <2>4, <2>5, <2>6, Zenon DEF PipelineInvariant
<1> QED BY <1>1, <1>2, Zenon

\* The policy tables, with the tables before them that undo translations and
\* forged addresses, let no new packet leave the bridge against the rules: not
\* through a Service, not after a packet that was committed and then dropped.
THEOREM PolicyEnforced == Spec => []PolicyHolds
<1>1. PipelineInvariant => PolicyHolds BY Zenon DEF PipelineInvariant, Sent
<1> QED BY <1>1, PipelineInitially, TablesKeepInvariant, PTL DEF Spec

\* The flows for established connections (establishedConnectionFlows,
\* ctRewriteDstMACFlow, the hairpin flows) take the packets of an answered
\* connection to its other end, translated back, whatever the rules became; and
\* sessionAffinityReselectFlow resubmits a packet at most once.
THEOREM ConnectionsSurvive == Spec => []ConnectionsContinue
<1>1. PipelineInvariant => ConnectionsContinue
  BY Zenon DEF PipelineInvariant, Sent, ConnectionsContinue, ReselectEnds, Reselected
<1> QED BY <1>1, PipelineInitially, TablesKeepInvariant, PTL DEF Spec
=============================================================================
