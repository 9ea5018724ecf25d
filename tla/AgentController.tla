--------------------------- MODULE AgentController ---------------------------
(* The NetworkPolicy controller of the agent on one Node: three watchers    *)
(* feed the ruleCache, the ruleCache marks rules dirty in a workqueue,      *)
(* workers complete dirty rules and hand them to the reconciler             *)
(* (pkg/agent/controller/networkpolicy: networkpolicy_controller.go and     *)
(* cache.go).                                                               *)
(*                                                                          *)
(* A rule is [policy, appliedTo, addresses]: its ID is a hash of its        *)
(* content, so the record is its own ID.  The reconciler is what it         *)
(* promises: it realizes a completed rule, or fails and leaves the rule     *)
(* Partial.  A watch is what the stores of the antrea-controller promise    *)
(* (RamStore): a snapshot, a bookmark, then every change in order, until    *)
(* the connection is lost.                                                  *)
EXTENDS Integers, SequencesExt

CONSTANTS
    Rules,         \* records [policy, appliedTo, addresses]
    Versions,      \* policy -> the sets of rules that it may have
    Enabled,       \* policies that the feature gates of the agent do not ignore
    GroupMembers,  \* group -> what may be in it; Pods or addresses
    AppliedToGroups, AddressGroups,
    Workers,
    MaxChanges,    \* bound on the changes in the antrea-controller
    MaxLosses,     \* bound on lost connections
    MaxFailures,   \* bound on failing calls of the reconciler
    Ports,         \* OpenFlow ports
    MaxCNI,        \* bound on the commands of the container runtime
    Nil, Partial

Policies == DOMAIN Versions
Pods == UNION {GroupMembers[g] : g \in AppliedToGroups}
Resources == {"np", "atg", "ag"}
KeysOf == [np |-> Policies, atg |-> AppliedToGroups, ag |-> AddressGroups]

ASSUME AgentAssumption ==
    /\ \A p \in Policies : \A v \in Versions[p] : v \subseteq {r \in Rules : r.policy = p}
    /\ \A r \in Rules : /\ r.policy \in Policies
                        /\ r.appliedTo \subseteq AppliedToGroups
                        /\ r.addresses \subseteq AddressGroups
    /\ Enabled \subseteq Policies
    /\ {MaxChanges, MaxLosses, MaxFailures, MaxCNI} \subseteq Nat
    /\ Nil # Partial

VARIABLES
    server,      \* resource -> key -> object in the store of the antrea-controller, or Nil
    stream,      \* resource -> events under way
    watch,       \* resource -> "down", "init" (before the bookmark) or "live"
    initObjects, \* resource -> key -> object received before the bookmark, or Nil
    fullSynced,  \* resources that have been synced since the agent started
    cache,       \* resource -> key -> object in the ruleCache, or Nil
    policyMap,   \* policies in the policyMap of the ruleCache
    dirty,       \* rules in the workqueue
    delayed,     \* rules to be added to the workqueue later
    batch,       \* of the initial events: [phase, keys, todo, completed]
    worker,      \* worker -> Nil or [rule, step, addresses, pods]
    realized,    \* rule -> Nil, Partial or [ports, addresses]
    iface,       \* Pod -> OpenFlow ports of its interfaces in the interface store
    podUpdates,  \* channel of Pods from the CNI server
    removed,     \* rules that have left the antrea-controller at some time
    budget       \* what is left of the bounds

cacheVars == <<cache, policyMap, dirty>>
serverVars == <<server, removed>>
watchVars == <<stream, watch, initObjects, fullSynced>>
workVars == <<delayed, batch, worker, realized>>
podVars == <<iface, podUpdates>>
vars == <<serverVars, watchVars, cacheVars, workVars, podVars, budget>>

(* The rules in a function of policies.                                     *)
RulesIn(policies) == UNION {IF policies[p] = Nil THEN {} ELSE policies[p] : p \in Policies}

rules == RulesIn(cache["np"])

ObjectsAt(w, key) == IF w = "np" THEN Versions[key] ELSE SUBSET GroupMembers[key]

Init ==
    /\ server = [w \in Resources |-> [k \in KeysOf[w] |-> Nil]]
    /\ stream = [w \in Resources |-> <<>>]
    /\ watch = [w \in Resources |-> "down"]
    /\ initObjects = [w \in Resources |-> [k \in KeysOf[w] |-> Nil]]
    /\ fullSynced = {}
    /\ cache = [w \in Resources |-> [k \in KeysOf[w] |-> Nil]]
    /\ policyMap = {}
    /\ dirty = {} /\ delayed = {}
    /\ batch = [phase |-> "waiting", keys |-> {}, todo |-> {}, completed |-> <<>>]
    /\ worker = [w \in Workers |-> Nil]
    /\ realized = [r \in Rules |-> Nil]
    /\ iface = [p \in Pods |-> {}]
    /\ podUpdates = <<>>
    /\ removed = {}
    /\ budget = [changes |-> MaxChanges, losses |-> MaxLosses,
                 failures |-> MaxFailures, cni |-> MaxCNI]
-----------------------------------------------------------------------------
(* The antrea-controller and the connections to it.                         *)

Spend(what) == budget[what] > 0 /\ budget' = [budget EXCEPT ![what] = @ - 1]

(* A group is changed by a patch, a policy is sent whole.                   *)
EventOf(w, key, old, new) ==
    CASE old = Nil -> [type |-> "added", key |-> key, obj |-> new]
      [] new = Nil -> [type |-> "deleted", key |-> key]
      [] old # Nil /\ new # Nil /\ w = "np" -> [type |-> "modified", key |-> key, obj |-> new]
      [] old # Nil /\ new # Nil /\ w # "np" ->
            [type |-> "modified", key |-> key, added |-> new \ old, removed |-> old \ new]

ChangeServer(w, key, new) ==
    /\ Spend("changes")
    /\ new # server[w][key]
    /\ server' = [server EXCEPT ![w][key] = new]
    /\ stream' = IF watch[w] = "down" THEN stream
                 ELSE [stream EXCEPT ![w] = Append(@, EventOf(w, key, server[w][key], new))]
    /\ removed' = removed \cup (RulesIn(server["np"]) \ RulesIn(server'["np"]))
    /\ UNCHANGED <<watch, initObjects, fullSynced, cacheVars, workVars, podVars>>

(* watchFunc returns: the snapshot and the bookmark are under way.          *)
Connect(w) ==
    /\ watch[w] = "down"
    /\ watch' = [watch EXCEPT ![w] = "init"]
    /\ LET present == SetToSeq({k \in KeysOf[w] : server[w][k] # Nil})
       IN  stream' = [stream EXCEPT ![w] =
               Append([i \in DOMAIN present |->
                          EventOf(w, present[i], Nil, server[w][present[i]])],
                      [type |-> "bookmark"])]
    /\ UNCHANGED <<serverVars, initObjects, fullSynced, cacheVars, workVars, podVars, budget>>

(* Slip: the policies are taken for deleted when their watch is lost.       *)
LoseForgetting(w) ==
    /\ Spend("losses")
    /\ watch[w] # "down"
    /\ watch' = [watch EXCEPT ![w] = "down"]
    /\ stream' = [stream EXCEPT ![w] = <<>>]
    /\ initObjects' = [initObjects EXCEPT ![w] = [k \in KeysOf[w] |-> Nil]]
    /\ cache' = IF w = "np" THEN [cache EXCEPT !["np"] = [p \in Policies |-> Nil]] ELSE cache
    /\ dirty' = IF w = "np" THEN dirty \cup rules ELSE dirty
    /\ UNCHANGED <<serverVars, fullSynced, policyMap, workVars, podVars>>

(* The result channel is closed.                                            *)
Lose(w) ==
    /\ Spend("losses")
    /\ watch[w] # "down"
    /\ watch' = [watch EXCEPT ![w] = "down"]
    /\ stream' = [stream EXCEPT ![w] = <<>>]
    /\ initObjects' = [initObjects EXCEPT ![w] = [k \in KeysOf[w] |-> Nil]]
    /\ UNCHANGED <<serverVars, fullSynced, cacheVars, workVars, podVars>>
-----------------------------------------------------------------------------
(* The ruleCache.  Each operation holds the lock of what it changes, and    *)
(* the readers of that take the same lock.                                  *)

RulesReferring(groups) == {r \in rules : (r.appliedTo \cup r.addresses) \cap groups # {}}

(* ReplaceAppliedToGroups and ReplaceAddressGroups: a group that has not    *)
(* changed marks no rule; a group that is gone is deleted silently.         *)
ReplaceGroups(w, groups) ==
    /\ cache' = [cache EXCEPT ![w] = groups]
    /\ dirty' = dirty \cup RulesReferring(
                    {k \in KeysOf[w] : groups[k] # Nil /\ groups[k] # cache[w][k]})
    /\ UNCHANGED policyMap

AddGroup(w, key, members) == ReplaceGroups(w, [cache[w] EXCEPT ![key] = members])

DeleteGroup(w, key) == ReplaceGroups(w, [cache[w] EXCEPT ![key] = Nil])

(* The error for a group that is not in the cache is ignored by the caller. *)
(* Slip: the rules are not marked.                                          *)
PatchGroupSilently(w, key, patch) ==
    IF cache[w][key] = Nil THEN UNCHANGED cacheVars
    ELSE /\ cache' = [cache EXCEPT ![w][key] = (@ \cup patch.added) \ patch.removed]
         /\ UNCHANGED <<policyMap, dirty>>

PatchGroup(w, key, patch) ==
    IF cache[w][key] = Nil THEN UNCHANGED cacheVars
    ELSE /\ cache' = [cache EXCEPT ![w][key] = (@ \cup patch.added) \ patch.removed]
         /\ dirty' = dirty \cup RulesReferring({key})
         /\ UNCHANGED policyMap

(* Rules that appear and rules that are orphaned become dirty.              *)
SetPolicies(policies) ==
    /\ cache' = [cache EXCEPT !["np"] = policies]
    /\ dirty' = dirty \cup (RulesIn(policies) \ rules) \cup (rules \ RulesIn(policies))

(* Policies of the policyMap that are not among the new ones are deleted.   *)
(* The caller returns when it meets a policy that is to be ignored.         *)
ReplaceNetworkPolicies(policies) ==
    IF \E p \in Policies \ Enabled : policies[p] # Nil THEN UNCHANGED cacheVars
    ELSE /\ SetPolicies([p \in Policies |->
                IF policies[p] = Nil /\ p \notin policyMap THEN cache["np"][p] ELSE policies[p]])
         /\ policyMap' = {p \in Policies : policies[p] # Nil}

AddNetworkPolicy(p, policy) ==
    /\ SetPolicies([cache["np"] EXCEPT ![p] = policy])
    /\ policyMap' = policyMap \cup {p}

(* UpdateNetworkPolicy does not touch the policyMap.                        *)
UpdateNetworkPolicy(p, policy) ==
    /\ SetPolicies([cache["np"] EXCEPT ![p] = policy])
    /\ UNCHANGED policyMap

DeleteNetworkPolicy(p) ==
    /\ SetPolicies([cache["np"] EXCEPT ![p] = Nil])
    /\ policyMap' = policyMap \ {p}
-----------------------------------------------------------------------------
(* The watchers.                                                            *)

(* An event before the bookmark is kept.                                    *)
ReceiveInit(w) ==
    /\ watch[w] = "init" /\ Head(stream[w]).type = "added"
    /\ LET e == Head(stream[w])
       IN  initObjects' = [initObjects EXCEPT ![w][e.key] = e.obj]
    /\ stream' = [stream EXCEPT ![w] = Tail(@)]
    /\ UNCHANGED <<serverVars, watch, fullSynced, cacheVars, workVars, podVars, budget>>

(* The bookmark: what was kept replaces what is in the cache.               *)
ReceiveBookmark(w) ==
    /\ watch[w] = "init" /\ Head(stream[w]).type = "bookmark"
    /\ IF w = "np" THEN ReplaceNetworkPolicies(initObjects[w])
                   ELSE ReplaceGroups(w, initObjects[w])
    /\ initObjects' = [initObjects EXCEPT ![w] = [k \in KeysOf[w] |-> Nil]]
    /\ watch' = [watch EXCEPT ![w] = "live"]
    /\ fullSynced' = fullSynced \cup {w}
    /\ stream' = [stream EXCEPT ![w] = Tail(@)]
    /\ UNCHANGED <<serverVars, workVars, podVars, budget>>

(* AddFunc, UpdateFunc and DeleteFunc.                                      *)
HandlePolicyEvent(e) ==
    CASE e.key \notin Enabled -> UNCHANGED cacheVars
      [] e.key \in Enabled /\ e.type = "added" -> AddNetworkPolicy(e.key, e.obj)
      [] e.key \in Enabled /\ e.type = "modified" -> UpdateNetworkPolicy(e.key, e.obj)
      [] e.key \in Enabled /\ e.type = "deleted" -> DeleteNetworkPolicy(e.key)

HandleGroupEvent(w, e) ==
    CASE e.type = "added" -> AddGroup(w, e.key, e.obj)
      [] e.type = "modified" -> PatchGroup(w, e.key, e)
      [] e.type = "deleted" -> DeleteGroup(w, e.key)

ReceiveEvent(w) ==
    /\ watch[w] = "live" /\ stream[w] # <<>>
    /\ LET e == Head(stream[w])
       IN  IF w = "np" THEN HandlePolicyEvent(e) ELSE HandleGroupEvent(w, e)
    /\ stream' = [stream EXCEPT ![w] = Tail(@)]
    /\ UNCHANGED <<serverVars, watch, initObjects, fullSynced, workVars, podVars, budget>>

(* processPodUpdates                                                        *)
ProcessPodUpdate ==
    /\ podUpdates # <<>>
    /\ dirty' = dirty \cup RulesReferring({g \in AppliedToGroups :
                    cache["atg"][g] # Nil /\ Head(podUpdates) \in cache["atg"][g]})
    /\ podUpdates' = Tail(podUpdates)
    /\ UNCHANGED <<serverVars, watchVars, cache, policyMap, workVars, iface, budget>>

(* CmdAdd of the CNI server puts the interface of a new container into the  *)
(* interface store and then sends the Pod; the port may have been another's *)
(* before.                                                                  *)
(* Slip: the first interface of a Pod is not sent.                          *)
CmdAddSilently(pod, port) ==
    /\ Spend("cni")
    /\ \A p \in Pods : port \notin iface[p]
    /\ iface' = [iface EXCEPT ![pod] = @ \cup {port}]
    /\ podUpdates' = IF iface[pod] = {} THEN podUpdates ELSE Append(podUpdates, pod)
    /\ UNCHANGED <<serverVars, watchVars, cacheVars, workVars>>

CmdAdd(pod, port) ==
    /\ Spend("cni")
    /\ \A p \in Pods : port \notin iface[p]
    /\ iface' = [iface EXCEPT ![pod] = @ \cup {port}]
    /\ podUpdates' = Append(podUpdates, pod)
    /\ UNCHANGED <<serverVars, watchVars, cacheVars, workVars>>

(* CmdDel sends nothing.                                                    *)
CmdDel(pod, port) ==
    /\ Spend("cni")
    /\ port \in iface[pod]
    /\ iface' = [iface EXCEPT ![pod] = @ \ {port}]
    /\ UNCHANGED <<serverVars, watchVars, cacheVars, workVars, podUpdates>>
-----------------------------------------------------------------------------
(* Completing and reconciling rules.                                        *)

(* unionAddressGroups and unionAppliedToGroups: Nil if a group is missing.  *)
UnionOf(w, groups) ==
    IF \E g \in groups : cache[w][g] = Nil THEN Nil ELSE UNION {cache[w][g] : g \in groups}

(* What the reconciler makes of a completed rule.                           *)
Realization(addresses, pods) ==
    [addresses |-> addresses,
     ports |-> UNION {iface[p] : p \in pods}]

(* processAllItemsInQueue: once all watchers are synced, the queue is       *)
(* emptied, with every key marked done.                                     *)
BatchPop ==
    /\ batch.phase = "waiting" /\ fullSynced = Resources
    /\ batch' = [phase |-> "syncing", keys |-> dirty, todo |-> dirty, completed |-> <<>>]
    /\ dirty' = {}
    /\ UNCHANGED <<serverVars, watchVars, cache, policyMap, delayed, worker, realized, podVars, budget>>

(* syncRules: rules that are gone or incomplete are left out.               *)
BatchRead(rule) ==
    /\ batch.phase = "syncing" /\ rule \in batch.todo
    /\ LET addresses == UnionOf("ag", rule.addresses)
           pods == UnionOf("atg", rule.appliedTo)
           complete == rule \in rules /\ addresses # Nil /\ pods # Nil
       IN  batch' = [batch EXCEPT !.todo = @ \ {rule},
                                  !.completed = IF complete
                                      THEN (rule :> [addresses |-> addresses, pods |-> pods]) @@ @
                                      ELSE @]
    /\ UNCHANGED <<serverVars, watchVars, cacheVars, delayed, worker, realized, podVars, budget>>

(* BatchReconcile; when it fails all keys are retried.                      *)
BatchReconcile ==
    /\ batch.phase = "syncing" /\ batch.todo = {}
    /\ batch' = [phase |-> "done", keys |-> {}, todo |-> {}, completed |-> <<>>]
    /\ \/ /\ realized' = [r \in DOMAIN batch.completed |->
                             Realization(batch.completed[r].addresses, batch.completed[r].pods)]
                         @@ realized
          /\ UNCHANGED <<delayed, budget>>
       \/ /\ Spend("failures")
          /\ realized' = [r \in DOMAIN batch.completed |-> Partial] @@ realized
          /\ delayed' = delayed \cup batch.keys
    /\ UNCHANGED <<serverVars, watchVars, cacheVars, worker, podVars>>

(* A worker takes a rule that no other worker is processing, and looks it   *)
(* up.                                                                      *)
Get(w, rule) ==
    /\ batch.phase = "done"
    /\ worker[w] = Nil
    /\ rule \in dirty /\ \A v \in Workers : worker[v] # Nil => worker[v].rule # rule
    /\ dirty' = dirty \ {rule}
    /\ worker' = [worker EXCEPT ![w] =
           [rule |-> rule, step |-> IF rule \in rules THEN "addresses" ELSE "forget"]]
    /\ UNCHANGED <<serverVars, watchVars, cache, policyMap, delayed, batch, realized, podVars, budget>>

(* GetCompletedRule reads the AddressGroups, then the AppliedToGroups; a    *)
(* rule that is not complete is skipped.                                    *)
ReadAddresses(w) ==
    /\ worker[w] # Nil /\ worker[w].step = "addresses"
    /\ LET addresses == UnionOf("ag", worker[w].rule.addresses)
       IN  worker' = [worker EXCEPT ![w] = IF addresses = Nil THEN Nil
               ELSE [rule |-> @.rule, step |-> "pods", addresses |-> addresses]]
    /\ UNCHANGED <<serverVars, watchVars, cacheVars, delayed, batch, realized, podVars, budget>>

ReadPods(w) ==
    /\ worker[w] # Nil /\ worker[w].step = "pods"
    /\ LET pods == UnionOf("atg", worker[w].rule.appliedTo)
       IN  worker' = [worker EXCEPT ![w] = IF pods = Nil THEN Nil
               ELSE [rule |-> @.rule, step |-> "reconcile", addresses |-> @.addresses, pods |-> pods]]
    /\ UNCHANGED <<serverVars, watchVars, cacheVars, delayed, batch, realized, podVars, budget>>

(* The end of syncRule, with handleErr: the rule becomes what was asked     *)
(* for, or the call fails and the rule is added again later.                *)
Finish(w, result) ==
    LET rule == worker[w].rule
    IN  /\ \/ /\ realized' = [realized EXCEPT ![rule] = result]
              /\ UNCHANGED <<delayed, budget>>
           \/ /\ Spend("failures")
              /\ realized' = [realized EXCEPT ![rule] = Partial]
              /\ delayed' = delayed \cup {rule}
        /\ worker' = [worker EXCEPT ![w] = Nil]
        /\ UNCHANGED <<serverVars, watchVars, cacheVars, batch, podVars>>

Reconcile(w) ==
    /\ worker[w] # Nil /\ worker[w].step = "reconcile"
    /\ Finish(w, Realization(worker[w].addresses, worker[w].pods))

Forget(w) ==
    /\ worker[w] # Nil /\ worker[w].step = "forget"
    /\ Finish(w, Nil)

(* AddRateLimited: the delay is over.                                       *)
Retry(rule) ==
    /\ rule \in delayed
    /\ delayed' = delayed \ {rule}
    /\ dirty' = dirty \cup {rule}
    /\ UNCHANGED <<serverVars, watchVars, cache, policyMap, batch, worker, realized, podVars, budget>>
-----------------------------------------------------------------------------
Watcher(w) == Connect(w) \/ ReceiveInit(w) \/ ReceiveBookmark(w) \/ ReceiveEvent(w)

InitialBatch == BatchPop \/ (\E r \in Rules : BatchRead(r)) \/ BatchReconcile

Work(w) ==
    \/ \E r \in Rules : Get(w, r)
    \/ ReadAddresses(w) \/ ReadPods(w) \/ Reconcile(w) \/ Forget(w)

Environment ==
    \/ \E w \in Resources : \E k \in KeysOf[w] : \E o \in ObjectsAt(w, k) \cup {Nil} : ChangeServer(w, k, o)
    \/ \E w \in Resources : Lose(w)
    \/ \E p \in Pods, port \in Ports : CmdAdd(p, port) \/ CmdDel(p, port)

Next ==
    \/ Environment
    \/ \E w \in Resources : Watcher(w)
    \/ ProcessPodUpdate
    \/ InitialBatch
    \/ \E w \in Workers : Work(w)
    \/ \E r \in Rules : Retry(r)

Spec == Init /\ [][Next]_vars

(* wait.NonSlidingUntil calls watch again for as long as the agent runs,    *)
(* wait.Until calls the workers, and the workqueue adds what was delayed:   *)
(* no goroutine that can go on stops for ever.  The antrea-controller, the  *)
(* network and the container runtime owe nothing.                           *)
FairSpec ==
    /\ Spec
    /\ \A w \in Resources : WF_vars(Watcher(w))
    /\ WF_vars(ProcessPodUpdate)
    /\ WF_vars(InitialBatch)
    /\ \A w \in Workers : WF_vars(Work(w))
    /\ \A r \in Rules : WF_vars(Retry(r))
-----------------------------------------------------------------------------
Realizations == [addresses : SUBSET UNION {GroupMembers[g] : g \in AddressGroups},
                 ports : SUBSET Ports]

(* Nothing is under way and nothing is left to do.                          *)
Quiet ==
    /\ \A w \in Resources : watch[w] = "live" /\ stream[w] = <<>>
    /\ batch.phase = "done" /\ dirty = {} /\ delayed = {}
    /\ \A w \in Workers : worker[w] = Nil
    /\ podUpdates = <<>>

Served == RulesIn([p \in Policies |-> IF p \in Enabled THEN server["np"][p] ELSE Nil])

(* When the agent is quiet its flows are what the antrea-controller serves  *)
(* to the Node: a rule that is not served has none; a rule whose groups     *)
(* are all served matches exactly the addresses in them, and is enforced on *)
(* every interface that a Pod in them has.  Whatever was lost, retried or   *)
(* changed while rules were completed is made up for by the dirty marks.    *)
RealizedAsServed ==
    Quiet => \A r \in Rules :
        LET complete == /\ \A g \in r.addresses : server["ag"][g] # Nil
                        /\ \A g \in r.appliedTo : server["atg"][g] # Nil
        IN  /\ r \notin Served => realized[r] = Nil
            /\ r \in Served /\ complete =>
                   /\ realized[r] \in Realizations
                   /\ realized[r].addresses = UNION {server["ag"][g] : g \in r.addresses}
                   /\ \A p \in UNION {server["atg"][g] : g \in r.appliedTo} :
                          iface[p] \subseteq realized[r].ports

(* Flows of a rule are removed only if the rule left the antrea-controller: *)
(* reconnecting, which replaces everything in the ruleCache, never makes    *)
(* the agent forget a policy that has been there all the time.              *)
NeverForgotten ==
    [][\A r \in Rules : realized[r] # Nil /\ realized'[r] = Nil => r \in removed]_vars

=============================================================================
