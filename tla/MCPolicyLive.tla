--------------------------- MODULE MCPolicyLive ---------------------------
(*****************************************************************************)
(* The way of a policy to a Node, as far as something must happen in the     *)
(* end: the agent controller, and the store that serves it with a client     *)
(* that may stop reading. The components share no state here: a behaviour    *)
(* runs the one that part names, and the other keeps its initial values.     *)
(*****************************************************************************)
EXTENDS MCAgentController

CONSTANTS k1, n1, m1

(* One policy, in the span of the Node.                                     *)
PolicyStore == [NetworkPolicy |-> {[span |-> {n1}, body |-> {m1}]}]


VARIABLES part, \* the component that runs in this behaviour
  resource, storage, resourceVersion, writer, incoming, dispatch, watchers,
  initEvents, startRV, input, pending, result, proc, stop, cancelled, view,
  synced, history

rsVars == <<resource, storage, resourceVersion, writer, incoming, dispatch,
  watchers, initEvents, startRV, input, pending, result, proc, stop,
  cancelled, view, synced, history>>

Store == INSTANCE RamStore WITH
  Keys <- {k1}, Nodes <- {n1}, Items <- {m1}, Objects <- PolicyStore,
  Watchers <- {"c"}, NodeOf <- [c |-> n1], KeyOf <- [c |-> Nil],
  IncomingSize <- 1, ChanSize <- 1, MaxWrites <- 4

SumInit ==
  /\ part \in {"ag", "rs"}
  /\ Init /\ Store!Init

SumNext ==
  \/ /\ part = "ag" /\ Next
     /\ UNCHANGED <<part, rsVars>>
  \/ /\ part = "rs" /\ Store!Next
     /\ UNCHANGED <<part, vars>>

sumVars == <<part, vars, rsVars>>

SumSpec == SumInit /\ [][SumNext]_sumVars

\* The fairness of each component, while it is the one that runs.
SumFairSpec ==
  /\ SumSpec
  /\ \A w \in Resources : WF_vars(part = "ag" /\ Watcher(w))
  /\ WF_vars(part = "ag" /\ ProcessPodUpdate)
  /\ WF_vars(part = "ag" /\ InitialBatch)
  /\ \A w \in Workers : WF_vars(part = "ag" /\ Work(w))
  /\ \A r \in Rules : WF_vars(part = "ag" /\ Retry(r))
  /\ WF_rsVars(part = "rs" /\ Store!processEvent)
  /\ WF_rsVars(part = "rs" /\ Store!DispatchStep)
  /\ WF_rsVars(part = "rs" /\ Store!StopClose("c"))
  /\ WF_rsVars(part = "rs" /\ Store!processStep("c"))

----------------------------------------------------------------------------
\* A writer of the store does not wait for ever for a client that does not read,
\* and a client that goes on reading ends up with the objects it selects
\* (sendWatchEvent, add with its timer, Watch, process).
StoreServes == Store!StoreServes

\* When changes, lost connections and failures stop, the agent comes to rest:
\* every watcher reconnects, every dirty rule is processed (watcher, worker), and
\* what is realized then is what the controller serves.
AgentSettles == <>[](part = "ag" => Quiet /\ RealizedAsServed)
============================================================================
