-------------------------------- MODULE Monitor --------------------------------
(***************************************************************************)
(* The monitoring objects: every agent keeps an AntreaAgentInfo, the         *)
(* controller an AntreaControllerInfo, by the same procedure once a minute;  *)
(* the controller deletes the AntreaAgentInfo of Nodes that have gone, on    *)
(* the delete events of its Node informer and once when it starts.           *)
(* An object is the incarnation of the process that wrote it: 0 for none.   *)
(***************************************************************************)
EXTENDS Integers, Sequences, SequencesExt

CONSTANTS Nodes, Controller,   \* the names of the objects
          MaxStarts, MaxFaults

VARIABLES
  nodes,      \* Nodes of the cluster
  view,       \* the controller's Node lister
  deletes,    \* Node delete events the controller has not handled
  booting,    \* the controller has yet to run deleteStaleAgentCRDs
  infos,      \* the objects in the API
  epoch,      \* incarnation of the running process, 0 when it does not run
  cached,     \* monitor.agentCRD # nil, monitor.controllerCRD # nil
  step,       \* where syncAgentCRD or syncControllerCRD is
  starts,
  kept,       \* history: an object written, or not deleted, after its Node had gone
  moFaults

moVars == <<nodes, view, deletes, booting, infos, epoch, cached, step, starts, kept, moFaults>>

Names    == Nodes \cup {Controller}
Informer == <<view, deletes, booting>>
Process  == <<epoch, starts>>
Fault    == moFaults < MaxFaults /\ moFaults' = moFaults + 1
Gone(n)  == n # Controller /\ n \notin nodes

Init ==
  /\ nodes = Nodes /\ view = Nodes /\ deletes = << >> /\ booting = TRUE
  /\ infos = [n \in Names |-> 0] /\ epoch = [n \in Names |-> 1]
  /\ cached = [n \in Names |-> FALSE] /\ step = [n \in Names |-> "wait"]
  /\ starts = 1 /\ kept = {} /\ moFaults = 0

---------------------------------------------------------------------------
(* syncAgentCRD and syncControllerCRD                                      *)

\* Ends the pass of n with its object cached or not.
Ends(n, ok) == step' = [step EXCEPT ![n] = "wait"] /\ cached' = [cached EXCEPT ![n] = ok]
Write(n)    == /\ infos' = [infos EXCEPT ![n] = epoch[n]]
               /\ kept' = IF Gone(n) THEN kept \cup {n} ELSE kept
Running(n)  == epoch[n] # 0 /\ (n = Controller => ~booting)

\* A cached object is updated in part; when that fails it is read again.
syncPartial(n) ==
  /\ Running(n) /\ step[n] = "wait"
  /\ \/ cached[n] /\ infos[n] # 0 /\ Ends(n, TRUE) /\ Write(n)
     \/ /\ cached[n] => infos[n] = 0
        /\ step' = [step EXCEPT ![n] = "get"] /\ cached' = [cached EXCEPT ![n] = FALSE]
        /\ UNCHANGED <<infos, kept>>
  /\ UNCHANGED <<nodes, Informer, Process, moFaults>>

syncPartialFails(n) ==
  /\ Running(n) /\ step[n] = "wait" /\ cached[n] /\ Fault
  /\ step' = [step EXCEPT ![n] = "get"] /\ cached' = [cached EXCEPT ![n] = FALSE]
  /\ UNCHANGED <<nodes, Informer, Process, infos, kept>>

getCRD(n) ==
  /\ Running(n) /\ step[n] = "get"
  /\ step' = [step EXCEPT ![n] = IF infos[n] = 0 THEN "create" ELSE "update"]
  /\ UNCHANGED <<nodes, Informer, Process, infos, cached, kept, moFaults>>

\* The object read may have gone by the time it is updated.
updateCRD(n) ==
  /\ Running(n) /\ step[n] = "update"
  /\ Ends(n, infos[n] # 0)
  /\ IF infos[n] # 0 THEN Write(n) ELSE UNCHANGED <<infos, kept>>
  /\ UNCHANGED <<nodes, Informer, Process, moFaults>>

createCRD(n) ==
  /\ Running(n) /\ step[n] = "create"
  /\ Ends(n, TRUE) /\ Write(n)
  /\ UNCHANGED <<nodes, Informer, Process, moFaults>>

syncFails(n) ==
  /\ Running(n) /\ step[n] \in {"get", "create", "update"} /\ Fault
  /\ Ends(n, FALSE)
  /\ UNCHANGED <<nodes, Informer, Process, infos, kept>>

---------------------------------------------------------------------------
(* Cluster                                                                 *)

\* A process starts, or starts again, with nothing cached. The controller
\* lists the Nodes first and then deletes stale objects.
Start(n) ==
  /\ starts < MaxStarts /\ starts' = starts + 1 /\ n \in nodes \cup {Controller}
  /\ epoch' = [epoch EXCEPT ![n] = starts + 1]
  /\ Ends(n, FALSE)
  /\ IF n = Controller THEN view' = nodes /\ deletes' = << >> /\ booting' = TRUE
     ELSE UNCHANGED Informer
  /\ UNCHANGED <<nodes, infos, kept, moFaults>>

StopAgent(n) ==
  /\ Gone(n) /\ epoch[n] # 0
  /\ epoch' = [epoch EXCEPT ![n] = 0] /\ Ends(n, FALSE)
  /\ UNCHANGED <<nodes, Informer, infos, starts, kept, moFaults>>

DeleteNode(n) ==
  /\ n \in nodes /\ starts < MaxStarts /\ starts' = starts + 1
  /\ nodes' = nodes \ {n} /\ view' = view \ {n} /\ deletes' = Append(deletes, n)
  /\ UNCHANGED <<booting, infos, epoch, cached, step, kept, moFaults>>

AddNode(n) ==
  /\ n \notin nodes
  /\ nodes' = nodes \cup {n} /\ view' = view \cup {n} /\ kept' = kept \ {n}
  /\ UNCHANGED <<deletes, booting, infos, epoch, cached, step, starts, moFaults>>

---------------------------------------------------------------------------
(* The controller deletes stale objects                                    *)

deleteStaleAgentCRDIfListed ==
  /\ deletes # << >> /\ deletes' = Tail(deletes)
  /\ infos' = IF Head(deletes) \in view THEN [infos EXCEPT ![Head(deletes)] = 0] ELSE infos
  /\ UNCHANGED <<nodes, view, booting, Process, cached, step, kept, moFaults>>

\* The handler of a delete event deletes the object; an error is logged.
deleteStaleAgentCRD ==
  /\ deletes # << >> /\ deletes' = Tail(deletes)
  /\ infos' = [infos EXCEPT ![Head(deletes)] = 0]
  /\ UNCHANGED <<nodes, view, booting, Process, cached, step, kept, moFaults>>

deleteStaleAgentCRDFails ==
  /\ deletes # << >> /\ deletes' = Tail(deletes) /\ Fault
  /\ kept' = IF Gone(Head(deletes)) THEN kept \cup {Head(deletes)} ELSE kept
  /\ UNCHANGED <<nodes, view, booting, infos, Process, cached, step>>

deleteStaleAgentCRDs ==
  /\ booting /\ booting' = FALSE
  /\ infos' = [n \in Names |-> IF n \in view \cup {Controller} THEN infos[n] ELSE 0]
  /\ UNCHANGED <<nodes, view, deletes, Process, cached, step, kept, moFaults>>

\* The list, or the deletion of some of the objects, fails.
deleteStaleAgentCRDsFails ==
  /\ booting /\ booting' = FALSE /\ Fault
  /\ \E undeleted \in SUBSET {n \in Nodes \ view : infos[n] # 0} :
       /\ undeleted # {}
       /\ infos' = [n \in Names |-> IF n \in view \cup {Controller} \cup undeleted THEN infos[n] ELSE 0]
       /\ kept' = kept \cup undeleted
  /\ UNCHANGED <<nodes, view, deletes, Process, cached, step>>

Pass(n) == syncPartial(n) \/ getCRD(n) \/ updateCRD(n) \/ createCRD(n)
Events  == deleteStaleAgentCRD \/ deleteStaleAgentCRDs

Next ==
  \/ \E n \in Names : \/ Pass(n) \/ syncPartialFails(n) \/ syncFails(n) \/ Start(n) \/ StopAgent(n)
  \/ \E n \in Nodes : DeleteNode(n) \/ AddNode(n)
  \/ Events \/ deleteStaleAgentCRDFails \/ deleteStaleAgentCRDsFails

Spec == Init /\ [][Next]_moVars

\* The processes that run take their passes; informer events are handled.
FairSpec == Spec /\ WF_moVars(Events) /\ \A n \in Names : WF_moVars(Pass(n))

---------------------------------------------------------------------------
(* Properties                                                              *)

Reported == \A n \in Names : ~Gone(n) /\ epoch[n] # 0 => infos[n] = epoch[n]

\* A process that keeps running on a Node of the cluster comes to have its own
\* object, not the one of an earlier incarnation: also when a late delete event
\* of its Node, which is back, removes the object between any two calls.
LiveIsReported == <>[]Reported

\* The object of a Node that has gone goes, in the order of any restart of the
\* controller and its events, unless the agent wrote it after the Node had gone
\* or its deletion failed: nothing tries again then until the controller starts.
GoneIsForgotten ==
  \A n \in Nodes : []<>(~Gone(n) \/ n \in kept \/ infos[n] = 0)

\* The objects follow the processes and the Nodes.
InfosFollow == LiveIsReported /\ GoneIsForgotten
=============================================================================
