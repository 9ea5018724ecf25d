--------------------------- MODULE AgentInitializer ---------------------------
(***************************************************************************)
(* What an agent does to the OVS bridge when it starts, before it installs   *)
(* any flow: it loads the interface store from the ports found in OVSDB,     *)
(* brings the default tunnel port in line with the configuration, creates    *)
(* the gateway port if there is none, and sets the gateway's MTU. The        *)
(* configuration may differ from the one of the previous run, the previous   *)
(* run may have died between any two OVSDB transactions, and the ports may   *)
(* have been created by an older version with other names and no checksum.   *)
(***************************************************************************)
EXTENDS Integers, FiniteSets

CONSTANTS Configs,        \* [encap, tunnel, gateway] records an agent may be started with
          OldPorts,       \* the bridges a first run may find
          DefaultTunName, \* defaultTunInterfaceName
          LinkMTU, MaxRuns, MaxFaults

VARIABLES
  conf,         \* configuration of the running agent
  ovsPorts,     \* ports in OVSDB: [name, ofport, type, csum]; the type of
                \* a tunnel stands for its protocol and its local address
  mtuRequest,   \* mtu_request of the gateway interface, 0 when never set
  ifaces,       \* the interface store
  gwName,       \* i.hostGateway
  tunName,      \* i.nodeConfig.DefaultTunName
  aiStep,
  runs,
  overlooked,   \* history: failures this run has logged and ignored
  aiFaults

aiVars == <<conf, ovsPorts, mtuRequest, ifaces, gwName, tunName, aiStep, runs, overlooked, aiFaults>>

Config == <<conf, runs>>
Names  == <<gwName, tunName>>
Fault  == aiFaults < MaxFaults /\ aiFaults' = aiFaults + 1
At(s)  == aiStep = s
To(s)  == aiStep' = s

Gateways(ports) == {p \in ports : p.ofport = "gw"}
Tunnels(ports)  == {p \in ports : p.ofport = "tun"}
ByName(n)       == {p \in ifaces : p.name = n}

shouldEnableCsum == conf.tunnel \in {"geneve", "vxlan"}

\* The MTU left to Pods once the configured encapsulation has its header.
getNodeMTU ==
  LinkMTU - (IF ~conf.encap THEN 0
             ELSE CASE conf.tunnel \in {"geneve", "vxlan"} -> 50
                    [] conf.tunnel = "gre" -> 38
                    [] OTHER -> 0)

Init ==
  /\ conf \in Configs /\ ovsPorts \in OldPorts /\ mtuRequest = 0
  /\ ifaces = {} /\ gwName = conf.gateway /\ tunName = DefaultTunName
  /\ aiStep = "list" /\ runs = 1 /\ overlooked = {} /\ aiFaults = 0

---------------------------------------------------------------------------

initInterfaceStoreByName ==
  /\ At("list") /\ To("tunnel")
  /\ ifaces' = ovsPorts
  /\ UNCHANGED <<Config, ovsPorts, mtuRequest, Names, overlooked, aiFaults>>

\* The ports with the two well-known OpenFlow numbers are the gateway and the
\* default tunnel whatever they are called.
initInterfaceStore ==
  /\ At("list") /\ To("tunnel")
  /\ ifaces' = ovsPorts
  /\ gwName' = IF Gateways(ovsPorts) # {} THEN (CHOOSE p \in Gateways(ovsPorts) : TRUE).name
               ELSE gwName
  /\ tunName' = IF Tunnels(ovsPorts) # {} THEN (CHOOSE p \in Tunnels(ovsPorts) : TRUE).name
                ELSE tunName
  /\ UNCHANGED <<Config, ovsPorts, mtuRequest, overlooked, aiFaults>>

\* The tunnel port is kept as it is, kept with its checksum turned on, or
\* deleted because the configuration wants another one or none.
setupDefaultTunnelInterface ==
  /\ At("tunnel")
  /\ \/ ByName(tunName) = {} /\ To("create") /\ UNCHANGED <<ovsPorts, ifaces>>
     \/ \E p \in ByName(tunName) :
          /\ conf.encap /\ p.type = conf.tunnel
          /\ LET q == [p EXCEPT !.csum = @ \/ shouldEnableCsum] IN
               /\ ovsPorts' = (ovsPorts \ {p}) \cup {q}
               /\ ifaces' = (ifaces \ {p}) \cup {q}
          /\ To("gateway")
     \/ \E p \in ByName(tunName) :
          /\ conf.encap => p.type # conf.tunnel
          /\ ovsPorts' = ovsPorts \ {p} /\ ifaces' = ifaces \ {p}
          /\ To("create")
  /\ UNCHANGED <<Config, mtuRequest, Names, overlooked, aiFaults>>

\* Without encapsulation a tunnel port that cannot be deleted is left behind.
deleteTunnelFails ==
  /\ At("tunnel") /\ ByName(tunName) # {} /\ ~conf.encap /\ Fault
  /\ To("create") /\ overlooked' = overlooked \cup {"tunnel"}
  /\ UNCHANGED <<Config, ovsPorts, mtuRequest, ifaces, Names>>

createTunnelPort ==
  /\ At("create") /\ To("gateway")
  /\ IF conf.encap
     THEN LET p == [name |-> DefaultTunName, ofport |-> "tun", type |-> conf.tunnel,
                    csum |-> shouldEnableCsum]
          IN /\ ovsPorts' = ovsPorts \cup {p} /\ ifaces' = ifaces \cup {p}
             /\ tunName' = DefaultTunName
     ELSE UNCHANGED <<ovsPorts, ifaces, tunName>>
  /\ UNCHANGED <<Config, mtuRequest, gwName, overlooked, aiFaults>>

setupGatewayInterface ==
  /\ At("gateway") /\ To("mtu")
  /\ IF ByName(gwName) = {}
     THEN LET p == [name |-> gwName, ofport |-> "gw", type |-> "internal", csum |-> FALSE]
          IN ovsPorts' = ovsPorts \cup {p} /\ ifaces' = ifaces \cup {p}
     ELSE UNCHANGED <<ovsPorts, ifaces>>
  /\ UNCHANGED <<Config, mtuRequest, Names, overlooked, aiFaults>>

\* The result of SetInterfaceMTU is not looked at.
SetInterfaceMTU ==
  /\ At("mtu") /\ To("ready")
  /\ mtuRequest' = getNodeMTU
  /\ UNCHANGED <<Config, ovsPorts, ifaces, Names, overlooked, aiFaults>>

SetInterfaceMTUFails ==
  /\ At("mtu") /\ To("ready") /\ Fault
  /\ overlooked' = overlooked \cup {"mtu"}
  /\ UNCHANGED <<Config, ovsPorts, mtuRequest, ifaces, Names>>

\* The agent stops, by an error any step returns or by itself, and is started
\* again with some configuration.
Restart(c) ==
  /\ runs < MaxRuns /\ runs' = runs + 1
  /\ conf' = c /\ gwName' = c.gateway /\ tunName' = DefaultTunName
  /\ ifaces' = {} /\ aiStep' = "list" /\ overlooked' = {}
  /\ UNCHANGED <<ovsPorts, mtuRequest, aiFaults>>

Next ==
  \/ initInterfaceStore \/ setupDefaultTunnelInterface \/ deleteTunnelFails \/ createTunnelPort
  \/ setupGatewayInterface \/ SetInterfaceMTU \/ SetInterfaceMTUFails
  \/ \E c \in Configs : Restart(c)

Spec == Init /\ [][Next]_aiVars

---------------------------------------------------------------------------

(***************************************************************************)
(* An agent that has set up its bridge has one gateway port, the tunnel port *)
(* its configuration asks for and no other, the gateway's MTU leaves room    *)
(* for that tunnel's header, and the interface store holds exactly the ports *)
(* of the bridge under the names the agent will look for: whatever runs with *)
(* whatever configurations came before and wherever they died. Only the two  *)
(* failures setupDefaultTunnelInterface and setupGatewayInterface ignore are *)
(* excepted.                                                                 *)
(***************************************************************************)
BridgeAsConfigured ==
  aiStep = "ready" =>
    /\ ifaces = ovsPorts
    /\ Cardinality(Gateways(ovsPorts)) = 1 /\ ByName(gwName) = Gateways(ovsPorts)
    /\ conf.encap => /\ Cardinality(Tunnels(ovsPorts)) = 1
                     /\ ByName(tunName) = Tunnels(ovsPorts)
                     /\ \A p \in Tunnels(ovsPorts) : p.type = conf.tunnel /\ p.csum = shouldEnableCsum
    /\ ~conf.encap /\ "tunnel" \notin overlooked => Tunnels(ovsPorts) = {}
    /\ "mtu" \notin overlooked => mtuRequest = getNodeMTU
===============================================================================
