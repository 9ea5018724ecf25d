------------------------------ MODULE CNIServer ------------------------------
(***************************************************************************)
(* The CNI server of the agent and its interface store. CmdAdd gives a      *)
(* container an IP address, a veth pair, an OVS port and the flows of the   *)
(* port; CmdDel takes them away; both serialize on the container, not on    *)
(* the Node. A failed CmdAdd is rolled back with CmdDel, after the lock on  *)
(* the container was released. The store and the caches are in memory and   *)
(* rebuilt from OVSDB when the agent restarts.                              *)
(* IP addresses and OpenFlow port numbers are reused, and two flows of a    *)
(* Pod match on nothing else: one on the port, one on the IP address.       *)
(***************************************************************************)
EXTENDS Integers, FiniteSets

CONSTANTS Containers, PodOf,  \* sandbox containers and their Pods
          IPs, OFPorts,       \* the Node's addresses and port numbers
          Requests,           \* calls in flight at the same time
          MaxCalls, MaxFaults

VARIABLES
  pods,        \* Pods of this Node at the API server
  ipam,        \* host-local: the container's addresses, on disk
  ipamResults, \* the address remembered for a container
  links,       \* containers with a veth pair
  ports,       \* OVSDB: the container's port, with external ids
  store,       \* interfaceStore
  podFlows,    \* podFlowCache: the address and port a container's flows match on
  classifier,  \* OpenFlow: whose flow matches on the port number
  l3,          \* OpenFlow: whose flow matches on the address
  updates,     \* podUpdates is holding a Pod (channel of one place)
  reqs,        \* requests being served
  busy,        \* busyContainerKeys
  starting,    \* interfaces reconcile has to visit; Up: serving
  added, deleted, \* history: containers added successfully; asked to be deleted
  torn,        \* history: containers with a leftover of a crash or of a swallowed error
  reused,      \* history: addresses given away while a port or flows still had them
  calls, cnFaults

disk    == <<ipam, links, ports>>
memory  == <<ipamResults, store, podFlows>>
bridge  == <<classifier, l3>>
past    == <<added, deleted, torn, reused>>
cnVars  == <<pods, disk, memory, bridge, updates, reqs, busy, starting, past, calls, cnFaults>>

NoIP    == 0
NoPort  == [ip |-> NoIP, of |-> 0]
Nobody  == "nobody"
Up      == {Nobody}
NoReq   == [c |-> Nobody, cmd |-> "none", pc |-> "none"]
Fault   == cnFaults < MaxFaults /\ cnFaults' = cnFaults + 1
FreeIPs == IPs \ UNION {ipam[c] : c \in Containers}
FreeOFPorts == OFPorts \ {ports[c].of : c \in Containers}

Init ==
  /\ pods = {PodOf[c] : c \in Containers}
  /\ ipam = [c \in Containers |-> {}] /\ ipamResults = [c \in Containers |-> NoIP]
  /\ links = {} /\ ports = [c \in Containers |-> NoPort]
  /\ store = ports /\ podFlows = ports
  /\ classifier = [p \in OFPorts |-> Nobody] /\ l3 = [i \in IPs |-> Nobody]
  /\ updates = FALSE /\ reqs = [r \in Requests |-> NoReq] /\ busy = {} /\ starting = Up
  /\ added = {} /\ deleted = {} /\ torn = {} /\ reused = {} /\ calls = 0 /\ cnFaults = 0

---------------------------------------------------------------------------
(* Requests. The runtime adds a container once, and may delete it at any   *)
(* time, more than once, also while CmdAdd is being served.                *)

Ask(r, cmd, c) ==
  /\ reqs[r] = NoReq /\ starting = Up /\ calls < MaxCalls /\ calls' = calls + 1
  /\ cmd = "add" => c \notin added \cup deleted /\ \A q \in Requests : reqs[q].c # c
  /\ cmd = "del" => \A q \in Requests : reqs[q].c = c => reqs[q].cmd # "del"
  /\ reqs' = [reqs EXCEPT ![r] = [c |-> c, cmd |-> cmd, pc |-> "lock"]]
  /\ deleted' = IF cmd = "del" THEN deleted \cup {c} ELSE deleted
  /\ UNCHANGED <<pods, disk, memory, bridge, updates, busy, starting, added, torn, reused, cnFaults>>

PodDeleted(p) ==
  /\ p \in pods /\ pods' = pods \ {p}
  /\ UNCHANGED <<disk, memory, bridge, updates, reqs, busy, starting, past, calls, cnFaults>>

\* lockContainer waits for the container to be free.
lockContainer(r) ==
  LET c == reqs[r].c
  IN /\ reqs[r].pc = "lock" /\ c \notin busy
     /\ busy' = busy \cup {c}
     /\ reqs' = [reqs EXCEPT ![r].pc = IF reqs[r].cmd = "add" THEN "ipamAdd" ELSE "ipamDel"]
     /\ UNCHANGED <<pods, disk, memory, bridge, updates, starting, past, calls, cnFaults>>

At(r, pc) == reqs[r].pc = pc
Goto(r, pc) == reqs' = [reqs EXCEPT ![r].pc = pc] /\ UNCHANGED busy
unlockContainer(r) == busy' = busy \ {reqs[r].c}
Return(r) == unlockContainer(r) /\ reqs' = [reqs EXCEPT ![r] = NoReq]
\* CmdAdd fails: the lock is released before the rollback asks for it.
RollBack(r) == unlockContainer(r) /\ reqs' = [reqs EXCEPT ![r].cmd = "rollback", ![r].pc = "lock"]
Same == UNCHANGED <<pods, starting, calls>>

---------------------------------------------------------------------------
(* CmdAdd                                                                  *)

\* An address that was remembered is used again; otherwise IPAM is asked.
ExecIPAMAdd(r) ==
  LET c == reqs[r].c
  IN /\ At(r, "ipamAdd") /\ Goto(r, "link")
     /\ \/ /\ ipamResults[c] # NoIP /\ UNCHANGED <<ipam, ipamResults, reused>>
        \/ /\ ipamResults[c] = NoIP
           /\ \E i \in FreeIPs :
                /\ ipam' = [ipam EXCEPT ![c] = @ \cup {i}]
                /\ ipamResults' = [ipamResults EXCEPT ![c] = i]
                /\ reused' = IF \E d \in Containers : i \in {podFlows[d].ip, ports[d].ip} THEN reused \cup {i} ELSE reused
     /\ Same /\ UNCHANGED <<links, ports, store, podFlows, bridge, updates, added, deleted, torn, cnFaults>>

\* The driver fails, or has no address left; it takes back what it gave.
ExecIPAMAddFails(r) ==
  /\ At(r, "ipamAdd") /\ ipamResults[reqs[r].c] = NoIP
  /\ FreeIPs # {} => Fault
  /\ FreeIPs = {} => UNCHANGED cnFaults
  /\ RollBack(r)
  /\ ipam' = [ipam EXCEPT ![reqs[r].c] = {}]
  /\ Same /\ UNCHANGED <<links, ports, memory, bridge, updates, past>>

configureContainerLink(r) ==
  /\ At(r, "link") /\ Goto(r, "port")
  /\ links' = links \cup {reqs[r].c}
  /\ Same /\ UNCHANGED <<ipam, ports, memory, bridge, updates, past, cnFaults>>

\* A link that was created before the failure is left.
configureContainerLinkFails(r) ==
  LET c == reqs[r].c
  IN /\ At(r, "link") /\ RollBack(r) /\ Fault
     /\ \E left \in BOOLEAN :
          /\ links' = IF left THEN links \cup {c} ELSE links
          /\ torn' = IF left THEN torn \cup {c} ELSE torn
     /\ Same /\ UNCHANGED <<ipam, ports, memory, bridge, updates, added, deleted, reused>>

\* The port is created unless the store has the container already.
createOVSPort(r) ==
  LET c == reqs[r].c
  IN /\ At(r, "port")
     /\ \/ /\ store[c] # NoPort /\ Goto(r, "notify") /\ UNCHANGED ports
        \/ /\ store[c] = NoPort /\ ports[c] = NoPort /\ Goto(r, "flows")
           /\ FreeOFPorts # {}
           /\ ports' = [ports EXCEPT ![c] = [ip |-> ipamResults[c], of |-> CHOOSE p \in FreeOFPorts : TRUE]]
     /\ Same /\ UNCHANGED <<ipam, links, memory, bridge, updates, past, cnFaults>>

\* Also when a port of the name exists. The link is removed again.
createOVSPortFails(r) ==
  /\ At(r, "port") /\ store[reqs[r].c] = NoPort /\ RollBack(r)
  /\ ports[reqs[r].c] = NoPort => Fault
  /\ ports[reqs[r].c] # NoPort => UNCHANGED cnFaults
  /\ links' = links \ {reqs[r].c}
  /\ Same /\ UNCHANGED <<ipam, ports, memory, bridge, updates, past>>

\* InstallPodFlows, of a container without flows; a flow with the same match is
\* replaced. Then the interface is put in the store.
Install(c) ==
  /\ podFlows' = [podFlows EXCEPT ![c] = ports[c]]
  /\ classifier' = [classifier EXCEPT ![ports[c].of] = c]
  /\ l3' = [l3 EXCEPT ![ports[c].ip] = c]

connectInterfaceToOVS(r) ==
  LET c == reqs[r].c
  IN /\ At(r, "flows") /\ Goto(r, "notify")
     /\ Install(c)
     /\ store' = [store EXCEPT ![c] = ports[c]]
     /\ Same /\ UNCHANGED <<disk, ipamResults, updates, past, cnFaults>>

\* GetOFPort or InstallPodFlows fails: the port is deleted, which may fail
\* unnoticed, and the link is removed.
connectInterfaceToOVSFails(r) ==
  LET c == reqs[r].c
  IN /\ At(r, "flows") /\ RollBack(r) /\ Fault
     /\ links' = links \ {c}
     /\ \E left \in BOOLEAN :
          /\ ports' = IF left THEN ports ELSE [ports EXCEPT ![c] = NoPort]
          /\ torn' = IF left THEN torn \cup {c} ELSE torn
     /\ Same /\ UNCHANGED <<ipam, memory, bridge, updates, added, deleted, reused>>

\* CmdAdd sends the Pod to the channel, waiting while it is full, and succeeds.
CmdAddDone(r) ==
  /\ At(r, "notify") /\ ~updates /\ Return(r)
  /\ updates' = TRUE
  /\ added' = added \cup {reqs[r].c}
  /\ Same /\ UNCHANGED <<disk, memory, bridge, deleted, torn, reused, cnFaults>>

\* The NetworkPolicy controller receives the update.
TakeUpdate ==
  /\ updates /\ updates' = FALSE
  /\ UNCHANGED <<pods, disk, memory, bridge, reqs, busy, starting, past, calls, cnFaults>>

---------------------------------------------------------------------------
(* CmdDel, and the rollback of CmdAdd                                      *)

\* The address is released, then the store is asked for the interface.
ExecIPAMDelete(r) ==
  LET c == reqs[r].c
  IN /\ At(r, "ipamDel")
     /\ ipam' = [ipam EXCEPT ![c] = {}]
     /\ ipamResults' = [ipamResults EXCEPT ![c] = NoIP]
     /\ IF store[c] = NoPort THEN Return(r) ELSE Goto(r, "delFlows")
     /\ Same /\ UNCHANGED <<links, ports, store, podFlows, bridge, updates, past, cnFaults>>

ExecIPAMDeleteFails(r) ==
  /\ At(r, "ipamDel") /\ Fault /\ Return(r)
  /\ torn' = torn \cup {reqs[r].c}
  /\ Same /\ UNCHANGED <<disk, memory, bridge, updates, added, deleted, reused>>

\* UninstallPodFlows deletes by match.
Uninstall(c) ==
  LET f == podFlows[c]
  IN /\ podFlows' = [podFlows EXCEPT ![c] = NoPort]
     /\ classifier' = [p \in OFPorts |-> IF f # NoPort /\ p = f.of THEN Nobody ELSE classifier[p]]
     /\ l3' = [i \in IPs |-> IF f # NoPort /\ i = f.ip THEN Nobody ELSE l3[i]]

UninstallPodFlows(r) ==
  /\ At(r, "delFlows") /\ Goto(r, "delPort")
  /\ Uninstall(reqs[r].c)
  /\ Same /\ UNCHANGED <<disk, ipamResults, store, updates, past, cnFaults>>

\* The OVS port goes after the flows, and the store's entry with it.
DeletePortOnly(r) ==
  LET c == reqs[r].c
  IN /\ At(r, "delPort") /\ Goto(r, "delLink")
     /\ ports' = [ports EXCEPT ![c] = NoPort]
     /\ UNCHANGED store
     /\ Same /\ UNCHANGED <<ipam, links, ipamResults, podFlows, bridge, updates, past, cnFaults>>

DeletePort(r) ==
  LET c == reqs[r].c
  IN /\ At(r, "delPort") /\ Goto(r, "delLink")
     /\ ports' = [ports EXCEPT ![c] = NoPort]
     /\ store' = [store EXCEPT ![c] = NoPort]
     /\ Same /\ UNCHANGED <<ipam, links, ipamResults, podFlows, bridge, updates, past, cnFaults>>

removeContainerLink(r) ==
  /\ At(r, "delLink") /\ Return(r)
  /\ links' = links \ {reqs[r].c}
  /\ Same /\ UNCHANGED <<ipam, ports, memory, bridge, updates, past, cnFaults>>

\* A call fails: CmdDel returns the error, and the runtime may try again.
removeInterfacesFails(r) ==
  /\ reqs[r].pc \in {"delFlows", "delPort", "delLink"} /\ Fault /\ Return(r)
  /\ torn' = torn \cup {reqs[r].c}
  /\ Same /\ UNCHANGED <<disk, memory, bridge, updates, added, deleted, reused>>

---------------------------------------------------------------------------
(* Restart                                                                 *)

Serving(c) == \E r \in Requests : reqs[r].c = c

\* The interface store is read from OVSDB; flows of the last round are removed.
Restart ==
  /\ starting = Up /\ Fault
  /\ torn' = torn \cup {c \in Containers : Serving(c)}
  /\ ipamResults' = [c \in Containers |-> NoIP]
  /\ store' = ports /\ podFlows' = [c \in Containers |-> NoPort]
  /\ classifier' = [p \in OFPorts |-> Nobody] /\ l3' = [i \in IPs |-> Nobody]
  /\ updates' = FALSE /\ reqs' = [r \in Requests |-> NoReq] /\ busy' = {}
  /\ starting' = {c \in Containers : ports[c] # NoPort}
  /\ UNCHANGED <<pods, disk, added, deleted, reused, calls>>

\* reconcile visits an interface: flows are installed if its Pod is in the list
\* read at the start, which may be older than the deletion of the Pod, and it is
\* removed otherwise. An error is logged; the interface stays as it is.
reconcile(c) ==
  /\ starting # Up /\ c \in starting /\ starting' = starting \ {c}
  /\ \/ /\ Install(c) /\ UNCHANGED <<links, ports, store, torn, cnFaults>>
     \/ /\ PodOf[c] \notin pods /\ Uninstall(c)
        /\ ports' = [ports EXCEPT ![c] = NoPort] /\ store' = [store EXCEPT ![c] = NoPort]
        /\ links' = links \ {c}
        /\ UNCHANGED <<torn, cnFaults>>
     \/ /\ Fault /\ torn' = torn \cup {c}
        /\ UNCHANGED <<links, ports, store, podFlows, bridge>>
  /\ UNCHANGED <<pods, ipam, ipamResults, updates, reqs, busy, added, deleted, reused, calls>>

Run ==
  /\ starting = {} /\ starting' = Up
  /\ UNCHANGED <<pods, disk, memory, bridge, updates, reqs, busy, past, calls, cnFaults>>

Next ==
  \/ \E p \in pods : PodDeleted(p)
  \/ TakeUpdate \/ Restart \/ Run
  \/ \E c \in Containers : reconcile(c)
  \/ \E r \in Requests, c \in Containers, cmd \in {"add", "del"} : Ask(r, cmd, c)
  \/ \E r \in Requests :
       \/ lockContainer(r) \/ ExecIPAMAdd(r) \/ ExecIPAMAddFails(r)
       \/ configureContainerLink(r) \/ configureContainerLinkFails(r)
       \/ createOVSPort(r) \/ createOVSPortFails(r)
       \/ connectInterfaceToOVS(r) \/ connectInterfaceToOVSFails(r) \/ CmdAddDone(r)
       \/ ExecIPAMDelete(r) \/ ExecIPAMDeleteFails(r) \/ UninstallPodFlows(r)
       \/ DeletePort(r) \/ removeContainerLink(r) \/ removeInterfacesFails(r)

Spec == Init /\ [][Next]_cnVars

---------------------------------------------------------------------------
(* Properties                                                              *)

Quiet(c) == ~Serving(c) /\ starting = Up /\ c \notin torn

\* A container that CmdAdd reported as added and nobody asked to delete is
\* connected: through failures of other requests, restarts of the agent, and
\* reuse of port numbers, it has its link, its port and its store entry, and
\* the flow that matches its port number is its own. The flow for its address is
\* its own as well, unless the address was given away too early.
AddedStaysConnected ==
  \A c \in added \ deleted : Quiet(c) /\ PodOf[c] \in pods =>
    /\ c \in links /\ ports[c] # NoPort /\ store[c] = ports[c] /\ podFlows[c] = ports[c]
    /\ classifier[ports[c].of] = c
    /\ ports[c].ip \notin reused => l3[ports[c].ip] = c

\* A CmdAdd that failed or a CmdDel that succeeded leaves nothing of the
\* container: no address, link, port, store entry or flow; a container that is
\* in OVSDB is in the store and the other way round. Exceptions are errors that
\* the code swallows and requests a restart cut off; the address of a container
\* that reconcile removed is released by the runtime's CmdDel.
NothingOrAll ==
  \A c \in Containers : Quiet(c) =>
    /\ store[c] = ports[c]
    /\ store[c] = NoPort =>
         /\ c \notin links /\ podFlows[c] = NoPort
         /\ \A p \in OFPorts : classifier[p] # c
         /\ \A i \in IPs : l3[i] # c
         /\ c \notin added => ipam[c] = {}

\* A container is connected or not there, for as long as the agent runs and
\* whatever happens to other containers.
ContainersConsistent == AddedStaysConnected /\ NothingOrAll
=============================================================================
