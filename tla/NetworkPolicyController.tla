----------------------- MODULE NetworkPolicyController -----------------------
(***************************************************************************)
(* The NetworkPolicy controller of antrea-controller                        *)
(* (pkg/controller/networkpolicy).  Event handlers of the Pod,              *)
(* ExternalEntity, Namespace and policy informers, one goroutine each,      *)
(* create groups and internal NetworkPolicies in three stores and enqueue   *)
(* keys; the workers of three work queues fill in the members and the Node  *)
(* spans of the stored objects.                                             *)
(*                                                                          *)
(* A lister is updated before the handlers of its informer are called, so   *)
(* a worker may see an object whose event is still pending.                 *)
(***************************************************************************)
EXTENDS GroupSelector, Sequences, FiniteSets

CONSTANTS Nodes, Addrs,
          Policies,        \* keys of the policies
          PolicyKind,      \* [Policies -> {"np", "anp", "cnp"}]
          SpecsOf,         \* [Policies -> sets of the specs it may be given]
          Attrs,           \* [Members -> sets of the attributes it may have]
          InitMembers,     \* the objects of the initial list of the
          InitNamespaces,  \* informers
          MaxChanges,      \* bound on the changes made through the K8s API
          MaxCreations     \* bound on how often one policy key is created

Attributes ==
    [label : Labels, node : Nodes \cup {Nil}, addr : Addrs \cup {Nil}]

Specs == UNION {SpecsOf[p] : p \in Policies}

AppliedToKeys == UNION {s.appliedTo : s \in Specs}

AddressKeys == UNION {s.peers : s \in Specs}

PolicyKinds == {PolicyKind[p] : p \in Policies}

AppliedToMember == (Nodes \X Members) \cup (Nodes \X Members \X (Addrs \cup {Nil}))

AddressMember == {<<a>> : a \in Addrs} \cup ((Addrs \cup {Nil}) \X Members)

(* The objects of the three stores; of a policy only the groups and the     *)
(* Node span are kept.                                                      *)
AppliedToGroup == [members : SUBSET AppliedToMember]

AddressGroup == [members : SUBSET AddressMember, span : SUBSET Nodes]

InternalNP == [appliedToGroups : SUBSET AppliedToKeys,
               addressGroups : SUBSET AddressKeys,
               span : SUBSET Nodes]

(* A pending call of a handler, and the local state of the code that is     *)
(* running: a policy handler and the sync of an AppliedToGroup.             *)
MemberEvent ==
    [obj : Members, old : Attributes \cup {Nil}, new : Attributes \cup {Nil}]

NamespaceEvent ==
    [obj : Namespaces, old : NsLabels \cup {Nil}, new : NsLabels \cup {Nil}]

PolicyEvent == [obj : Policies, old : Specs \cup {Nil}, new : Specs \cup {Nil}]

HandlerCall == [step : {"create", "update"}, key : Policies, spec : Specs]
               \cup [step : {"deref"}, appliedToGroups : SUBSET AppliedToKeys,
                     addressGroups : SUBSET AddressKeys]

AppliedToGroupCall == [step : {"store"}, members : SUBSET AppliedToMember]
                      \cup [step : {"enqueue"}]

ASSUME ControllerAssumption ==
    /\ PolicyKind \in [Policies -> {"np", "anp", "cnp"}]
    /\ \A p \in Policies : SpecsOf[p] \subseteq
          [appliedTo : SUBSET GroupSelectors, peers : SUBSET GroupSelectors]
    /\ \A m \in Members : Attrs[m] \subseteq Attributes
    /\ InitMembers \in [Members -> Attributes \cup {Nil}]
    /\ InitNamespaces \in [Namespaces -> NsLabels \cup {Nil}]
    /\ MaxChanges \in Nat /\ MaxCreations \in Nat
    /\ Nil \notin Nodes \cup Addrs \cup Attributes \cup Specs
    /\ Nil \notin AppliedToGroup \cup AddressGroup \cup InternalNP
    /\ Nil \notin HandlerCall \cup AppliedToGroupCall
    /\ Nil \notin [np : InternalNP, span : SUBSET Nodes]

VARIABLES
    members, namespaces, policies,  \* the listers
    events,           \* [informer -> pending calls of its handlers]
    handler,          \* [policy informer -> the call in progress]
    appliedToGroups,  \* appliedToGroupStore
    addressGroups,    \* addressGroupStore
    internalNPs,      \* internalNetworkPolicyStore
    appliedToGroupQueue, addressGroupQueue, internalNetworkPolicyQueue,
    appliedToGroupSync, addressGroupSync, internalNetworkPolicySync,
                      \* [key -> the sync in progress]
    changes, creations

listers == <<members, namespaces, policies>>

stores == <<appliedToGroups, addressGroups, internalNPs>>

queues == <<appliedToGroupQueue, addressGroupQueue, internalNetworkPolicyQueue>>

syncs == <<appliedToGroupSync, addressGroupSync, internalNetworkPolicySync>>

bounds == <<changes, creations>>

vars == <<listers, events, handler, stores, queues, syncs, bounds>>

-----------------------------------------------------------------------------
(* Members and spans computed from the listers.                             *)

Selected(sel) ==
    {m \in Members : /\ members[m] # Nil
                     /\ ProcessSelector(m, members[m].label,
                                        namespaces[NsOf[m]], sel)}

(* syncAddressGroup keeps the IP of a Pod that has one; an ExternalEntity   *)
(* is kept with its reference.                                              *)
AddressMembers(sel) ==
    {IF Kind[m] = "pod" THEN <<members[m].addr>> ELSE <<members[m].addr, m>> :
        m \in {s \in Selected(sel) : Kind[s] = "pod" => members[s].addr # Nil}}

(* syncAppliedToGroup keeps the objects that have a Node, by Node.          *)
AppliedToMembers(sel) ==
    {IF Kind[m] = "pod" THEN <<members[m].node, m>>
                        ELSE <<members[m].node, m, members[m].addr>> :
        m \in {s \in Selected(sel) : members[s].node # Nil}}

NodesOf(placed) == {e[1] : e \in placed}

AppliedToSpan(atgs) ==
    UNION {NodesOf(appliedToGroups[g].members) :
               g \in {a \in atgs : appliedToGroups[a] # Nil}}

AddressGroupReferrers(g) ==
    {p \in Policies : internalNPs[p] # Nil /\ g \in internalNPs[p].addressGroups}

AppliedToGroupReferrers(g) ==
    {p \in Policies : internalNPs[p] # Nil /\ g \in internalNPs[p].appliedToGroups}

-----------------------------------------------------------------------------
(* Handlers of member and Namespace events.  They read the stores and       *)
(* enqueue the keys of the groups that the event may affect.                *)

AppliedToGroupsFor(m, attr) ==
    {g \in AppliedToKeys :
        /\ appliedToGroups[g] # Nil
        /\ LabelsMatchGroupSelector(m, attr.label, namespaces[NsOf[m]], g)}

AddressGroupsFor(m, attr) ==
    {g \in AddressKeys :
        /\ addressGroups[g] # Nil
        /\ LabelsMatchGroupSelector(m, attr.label, namespaces[NsOf[m]], g)}

SymDiff(S, T) == (S \ T) \cup (T \ S)

EnqueueGroups(atgs, ags) ==
    /\ appliedToGroupQueue' = appliedToGroupQueue \cup atgs
    /\ addressGroupQueue' = addressGroupQueue \cup ags
    /\ UNCHANGED internalNetworkPolicyQueue

(* addPod, deletePod, addExternalEntity, deleteExternalEntity.              *)
AddOrDeleteMember(m, attr) ==
    EnqueueGroups(AppliedToGroupsFor(m, attr), AddressGroupsFor(m, attr))

(* Slip: updatePod looks at the labels only.                                *)
UpdatePodLabelsOnly(m, old, cur) ==
    EnqueueGroups(SymDiff(AppliedToGroupsFor(m, old), AppliedToGroupsFor(m, cur)),
                  SymDiff(AddressGroupsFor(m, old), AddressGroupsFor(m, cur)))

(* updatePod: a new IP or Node concerns every AppliedToGroup of the Pod, a  *)
(* new IP every AddressGroup; new labels concern the groups entered or      *)
(* left.                                                                    *)
UpdatePod(m, old, cur) ==
    LET oldATGs == AppliedToGroupsFor(m, old)
        curATGs == AppliedToGroupsFor(m, cur)
        oldAGs == AddressGroupsFor(m, old)
        curAGs == AddressGroupsFor(m, cur)
    IN  EnqueueGroups(IF old.addr # cur.addr \/ old.node # cur.node
                      THEN oldATGs \cup curATGs ELSE SymDiff(oldATGs, curATGs),
                      IF old.addr # cur.addr
                      THEN oldAGs \cup curAGs ELSE SymDiff(oldAGs, curAGs))

(* updateExternalEntity: any change of the spec (Node or endpoints)         *)
(* concerns all groups of the entity.                                       *)
UpdateExternalEntity(m, old, cur) ==
    LET oldATGs == AppliedToGroupsFor(m, old)
        curATGs == AppliedToGroupsFor(m, cur)
        oldAGs == AddressGroupsFor(m, old)
        curAGs == AddressGroupsFor(m, cur)
        specEqual == old.addr = cur.addr /\ old.node = cur.node
    IN  EnqueueGroups(IF specEqual THEN SymDiff(oldATGs, curATGs)
                                   ELSE oldATGs \cup curATGs,
                      IF specEqual THEN SymDiff(oldAGs, curAGs)
                                   ELSE oldAGs \cup curAGs)

(* The handlers of the Pod and of the ExternalEntity informer.              *)
HandlePodEvent ==
    /\ events["pod"] # <<>>
    /\ LET e == Head(events["pod"])
       IN  IF e.old = Nil THEN AddOrDeleteMember(e.obj, e.new)
           ELSE IF e.new = Nil THEN AddOrDeleteMember(e.obj, e.old)
           ELSE UpdatePod(e.obj, e.old, e.new)
    /\ events' = [events EXCEPT !["pod"] = Tail(@)]
    /\ UNCHANGED <<listers, handler, stores, syncs, bounds>>

HandleExternalEntityEvent ==
    /\ events["ee"] # <<>>
    /\ LET e == Head(events["ee"])
       IN  IF e.old = Nil THEN AddOrDeleteMember(e.obj, e.new)
           ELSE IF e.new = Nil THEN AddOrDeleteMember(e.obj, e.old)
           ELSE UpdateExternalEntity(e.obj, e.old, e.new)
    /\ events' = [events EXCEPT !["ee"] = Tail(@)]
    /\ UNCHANGED <<listers, handler, stores, syncs, bounds>>

(* Only AddressGroups are looked up for a Namespace.                        *)
AddressGroupsForNamespace(nsLabel) ==
    {g \in AddressKeys : /\ addressGroups[g] # Nil
                         /\ g.namespace = Nil
                         /\ Matches(g.nsSelector, nsLabel)}

(* addNamespace, updateNamespace and deleteNamespace: an absent version     *)
(* has label Nil and matches nothing.                                       *)
HandleNamespaceEvent ==
    /\ events["ns"] # <<>>
    /\ LET e == Head(events["ns"])
       IN  EnqueueGroups({}, SymDiff(AddressGroupsForNamespace(e.old),
                                     AddressGroupsForNamespace(e.new)))
    /\ events' = [events EXCEPT !["ns"] = Tail(@)]
    /\ UNCHANGED <<listers, handler, stores, syncs, bounds>>

-----------------------------------------------------------------------------
(* Handlers of policy events.  The handler of one informer goes through     *)
(* process, commit and deref; those of other informers and the workers run  *)
(* in between.                                                              *)

NewAppliedToGroup == [members |-> {}]

NewAddressGroup == [members |-> {}, span |-> {}]

(* createAppliedToGroup and createAddressGroup: get or create; only a new   *)
(* AppliedToGroup is enqueued.                                              *)
CreateGroups(spec) ==
    LET newATGs == {g \in spec.appliedTo : appliedToGroups[g] = Nil}
    IN  /\ appliedToGroups' = [g \in AppliedToKeys |->
              IF g \in newATGs THEN NewAppliedToGroup ELSE appliedToGroups[g]]
        /\ addressGroups' = [g \in AddressKeys |->
              IF g \in spec.peers /\ addressGroups[g] = Nil
              THEN NewAddressGroup ELSE addressGroups[g]]
        /\ EnqueueGroups(newATGs, {})
        /\ UNCHANGED internalNPs

(* processNetworkPolicy, processClusterNetworkPolicy and                    *)
(* processAntreaNetworkPolicy, called first by the add and update handlers. *)
ProcessPolicy(k) ==
    /\ handler[k] = Nil
    /\ events[k] # <<>>
    /\ Head(events[k]).new # Nil
    /\ LET e == Head(events[k])
       IN  /\ CreateGroups(e.new)
           /\ handler' = [handler EXCEPT ![k] =
                 [step |-> IF e.old = Nil THEN "create" ELSE "update",
                  key |-> e.obj, spec |-> e.new]]
    /\ events' = [events EXCEPT ![k] = Tail(@)]
    /\ UNCHANGED <<listers, syncs, bounds>>

(* Slip: a policy whose AppliedToGroups are still empty is not stored.      *)
CreateInternalNPIfApplied(k) ==
    /\ handler[k] # Nil /\ handler[k].step = "create"
    /\ LET p == handler[k].key
       IN  /\ internalNPs' =
                 IF AppliedToSpan(handler[k].spec.appliedTo) = {} THEN internalNPs
                 ELSE [internalNPs EXCEPT ![p] =
                         [appliedToGroups |-> handler[k].spec.appliedTo,
                          addressGroups |-> handler[k].spec.peers,
                          span |-> {}]]
           /\ internalNetworkPolicyQueue' = internalNetworkPolicyQueue \cup {p}
    /\ handler' = [handler EXCEPT ![k] = Nil]
    /\ UNCHANGED <<listers, events, appliedToGroups, addressGroups,
                   appliedToGroupQueue, addressGroupQueue, syncs, bounds>>

(* The end of addNetworkPolicy, addCNP and addANP.  Create refuses a key    *)
(* that exists, and the error is ignored.                                   *)
CreateInternalNP(k) ==
    /\ handler[k] # Nil /\ handler[k].step = "create"
    /\ LET p == handler[k].key
       IN  /\ internalNPs' =
                 IF internalNPs[p] # Nil THEN internalNPs
                 ELSE [internalNPs EXCEPT ![p] =
                         [appliedToGroups |-> handler[k].spec.appliedTo,
                          addressGroups |-> handler[k].spec.peers,
                          span |-> {}]]
           /\ internalNetworkPolicyQueue' = internalNetworkPolicyQueue \cup {p}
    /\ handler' = [handler EXCEPT ![k] = Nil]
    /\ UNCHANGED <<listers, events, appliedToGroups, addressGroups,
                   appliedToGroupQueue, addressGroupQueue, syncs, bounds>>

(* internalNetworkPolicyMutex is free; a sync holds it from its read to its *)
(* write.                                                                   *)
MutexFree == \A p \in Policies : internalNetworkPolicySync[p] = Nil

(* The new internal policy takes over the span of the old one; its          *)
(* AddressGroups are synced again.                                          *)
CommitUpdate(k) ==
    LET p == handler[k].key
        old == internalNPs[p]
    IN  /\ internalNPs' = [internalNPs EXCEPT ![p] =
              [appliedToGroups |-> handler[k].spec.appliedTo,
               addressGroups |-> handler[k].spec.peers,
               span |-> old.span]]
        /\ addressGroupQueue' = addressGroupQueue \cup handler[k].spec.peers
        /\ internalNetworkPolicyQueue' = internalNetworkPolicyQueue \cup {p}
        /\ handler' = [handler EXCEPT ![k] =
              [step |-> "deref",
               appliedToGroups |-> IF k = "np"
                                   THEN old.appliedToGroups \ handler[k].spec.appliedTo
                                   ELSE old.appliedToGroups,
               addressGroups |-> old.addressGroups]]
        /\ UNCHANGED <<listers, events, appliedToGroups, addressGroups,
                       appliedToGroupQueue, syncs, bounds>>

(* The middle of updateNetworkPolicy, updateCNP and updateANP, under the    *)
(* mutex.                                                                   *)
UpdateInternalNP(k) ==
    /\ handler[k] # Nil /\ handler[k].step = "update"
    /\ MutexFree
    /\ CommitUpdate(k)

(* Slip: a policy that is being synced stays in the store.                  *)
DeleteInternalNPIfIdle(k) ==
    /\ handler[k] = Nil
    /\ events[k] # <<>>
    /\ Head(events[k]).new = Nil
    /\ LET p == Head(events[k]).obj
       IN  /\ internalNPs' = IF internalNetworkPolicySync[p] # Nil THEN internalNPs
                             ELSE [internalNPs EXCEPT ![p] = Nil]
           /\ handler' = [handler EXCEPT ![k] =
                 [step |-> "deref",
                  appliedToGroups |-> internalNPs[p].appliedToGroups,
                  addressGroups |-> internalNPs[p].addressGroups]]
    /\ events' = [events EXCEPT ![k] = Tail(@)]
    /\ UNCHANGED <<listers, appliedToGroups, addressGroups, queues, syncs, bounds>>

(* The start of deleteNetworkPolicy, deleteCNP and deleteANP.  The mutex is *)
(* not taken.                                                               *)
DeleteInternalNP(k) ==
    /\ handler[k] = Nil
    /\ events[k] # <<>>
    /\ Head(events[k]).new = Nil
    /\ LET p == Head(events[k]).obj
       IN  /\ internalNPs' = [internalNPs EXCEPT ![p] = Nil]
           /\ handler' = [handler EXCEPT ![k] =
                 [step |-> "deref",
                  appliedToGroups |-> internalNPs[p].appliedToGroups,
                  addressGroups |-> internalNPs[p].addressGroups]]
    /\ events' = [events EXCEPT ![k] = Tail(@)]
    /\ UNCHANGED <<listers, appliedToGroups, addressGroups, queues, syncs,
                   bounds>>

DeleteGroups(k, atgs, ags) ==
    /\ handler[k] # Nil /\ handler[k].step = "deref"
    /\ appliedToGroups' = [g \in AppliedToKeys |->
          IF g \in atgs THEN Nil ELSE appliedToGroups[g]]
    /\ addressGroups' = [g \in AddressKeys |->
          IF g \in ags THEN Nil ELSE addressGroups[g]]
    /\ handler' = [handler EXCEPT ![k] = Nil]
    /\ UNCHANGED <<listers, events, internalNPs, queues, syncs, bounds>>

(* Slips: all groups of the old policy are deleted; its AddressGroups are   *)
(* kept.                                                                    *)
DeleteAllGroups(k) ==
    DeleteGroups(k, handler[k].appliedToGroups, handler[k].addressGroups)

(* deleteDereferencedAppliedToGroup and deleteDereferencedAddressGroups,    *)
(* the end of the update and delete handlers.                               *)
DeleteDereferencedGroups(k) ==
    DeleteGroups(k,
        {g \in handler[k].appliedToGroups : AppliedToGroupReferrers(g) = {}},
        {g \in handler[k].addressGroups : AddressGroupReferrers(g) = {}})

HandlePolicy(k) ==
    /\ k \in PolicyKinds
    /\ \/ ProcessPolicy(k)
       \/ CreateInternalNP(k)
       \/ UpdateInternalNP(k)
       \/ DeleteInternalNP(k)
       \/ DeleteDereferencedGroups(k)

(* The handlers of the three policy informers have the same steps.          *)
HandleNetworkPolicy == HandlePolicy("np")

HandleCNP == HandlePolicy("cnp")

HandleANP == HandlePolicy("anp")

-----------------------------------------------------------------------------
(* The work queues (client-go): a key in the set is waiting; a worker takes *)
(* a key that no other worker is processing, and a key added while it is    *)
(* being processed waits until the sync is done.                            *)

(* Slip: the key of a missing group is not marked done.                     *)
SyncAppliedToGroupNotDone(g) ==
    /\ g \in appliedToGroupQueue
    /\ appliedToGroupSync[g] = Nil
    /\ appliedToGroupQueue' = appliedToGroupQueue \ {g}
    /\ appliedToGroupSync' = [appliedToGroupSync EXCEPT ![g] =
          IF appliedToGroups[g] = Nil THEN [step |-> "returned"]
          ELSE [step |-> "store", members |-> AppliedToMembers(g)]]
    /\ UNCHANGED <<listers, events, handler, stores, addressGroupQueue,
                   internalNetworkPolicyQueue, addressGroupSync,
                   internalNetworkPolicySync, bounds>>

(* syncAppliedToGroup up to the computation of the members.  A key without  *)
(* a group is dropped.                                                      *)
SyncAppliedToGroupCompute(g) ==
    /\ g \in appliedToGroupQueue
    /\ appliedToGroupSync[g] = Nil
    /\ appliedToGroupQueue' = appliedToGroupQueue \ {g}
    /\ appliedToGroupSync' =
          IF appliedToGroups[g] = Nil THEN appliedToGroupSync
          ELSE [appliedToGroupSync EXCEPT ![g] =
                  [step |-> "store", members |-> AppliedToMembers(g)]]
    /\ UNCHANGED <<listers, events, handler, stores, addressGroupQueue,
                   internalNetworkPolicyQueue, addressGroupSync,
                   internalNetworkPolicySync, bounds>>

(* Update does nothing when the group was deleted meanwhile.                *)
SyncAppliedToGroupStore(g) ==
    /\ appliedToGroupSync[g] # Nil /\ appliedToGroupSync[g].step = "store"
    /\ appliedToGroups' =
          IF appliedToGroups[g] = Nil THEN appliedToGroups
          ELSE [appliedToGroups EXCEPT ![g].members = appliedToGroupSync[g].members]
    /\ appliedToGroupSync' = [appliedToGroupSync EXCEPT ![g] = [step |-> "enqueue"]]
    /\ UNCHANGED <<listers, events, handler, addressGroups, internalNPs, queues,
                   addressGroupSync, internalNetworkPolicySync, bounds>>

(* Slip: the policies that refer to the group are not enqueued.             *)
SyncAppliedToGroupSilent(g) ==
    /\ appliedToGroupSync[g] # Nil /\ appliedToGroupSync[g].step = "enqueue"
    /\ appliedToGroupSync' = [appliedToGroupSync EXCEPT ![g] = Nil]
    /\ UNCHANGED <<listers, events, handler, stores, queues, addressGroupSync,
                   internalNetworkPolicySync, bounds>>

(* "this must be executed after storing the result".                        *)
SyncAppliedToGroupEnqueue(g) ==
    /\ appliedToGroupSync[g] # Nil /\ appliedToGroupSync[g].step = "enqueue"
    /\ internalNetworkPolicyQueue' =
          internalNetworkPolicyQueue \cup AppliedToGroupReferrers(g)
    /\ appliedToGroupSync' = [appliedToGroupSync EXCEPT ![g] = Nil]
    /\ UNCHANGED <<listers, events, handler, stores, appliedToGroupQueue,
                   addressGroupQueue, addressGroupSync,
                   internalNetworkPolicySync, bounds>>

(* syncAddressGroup up to the computation of members and span.              *)
SyncAddressGroupCompute(g) ==
    /\ g \in addressGroupQueue
    /\ addressGroupSync[g] = Nil
    /\ addressGroupQueue' = addressGroupQueue \ {g}
    /\ addressGroupSync' =
          IF addressGroups[g] = Nil THEN addressGroupSync
          ELSE [addressGroupSync EXCEPT ![g] =
                  [members |-> AddressMembers(g),
                   span |-> UNION {internalNPs[p].span :
                                      p \in AddressGroupReferrers(g)}]]
    /\ UNCHANGED <<listers, events, handler, stores, appliedToGroupQueue,
                   internalNetworkPolicyQueue, appliedToGroupSync,
                   internalNetworkPolicySync, bounds>>

SyncAddressGroupStore(g) ==
    /\ addressGroupSync[g] # Nil
    /\ addressGroups' =
          IF addressGroups[g] = Nil THEN addressGroups
          ELSE [addressGroups EXCEPT ![g] = addressGroupSync[g]]
    /\ addressGroupSync' = [addressGroupSync EXCEPT ![g] = Nil]
    /\ UNCHANGED <<listers, events, handler, appliedToGroups, internalNPs,
                   queues, appliedToGroupSync, internalNetworkPolicySync, bounds>>

(* syncInternalNetworkPolicy under the mutex: read the policy and the spans *)
(* of its AppliedToGroups.  For a key without a policy the sync fails and   *)
(* the key is added again after a delay, for ever: it stays in the queue.   *)
SyncInternalNPRead(p) ==
    /\ p \in internalNetworkPolicyQueue
    /\ internalNPs[p] # Nil
    /\ MutexFree
    /\ internalNetworkPolicyQueue' = internalNetworkPolicyQueue \ {p}
    /\ internalNetworkPolicySync' = [internalNetworkPolicySync EXCEPT ![p] =
          [np |-> internalNPs[p],
           span |-> AppliedToSpan(internalNPs[p].appliedToGroups)]]
    /\ UNCHANGED <<listers, events, handler, stores, appliedToGroupQueue,
                   addressGroupQueue, appliedToGroupSync, addressGroupSync,
                   bounds>>

(* The policy as read is stored with the new span, unless the key is gone;  *)
(* AddressGroups are enqueued when the span differs from the one read.      *)
SyncInternalNPStore(p) ==
    /\ internalNetworkPolicySync[p] # Nil
    /\ LET np == internalNetworkPolicySync[p].np
           span == internalNetworkPolicySync[p].span
       IN  /\ internalNPs' =
                 IF internalNPs[p] = Nil THEN internalNPs
                 ELSE [internalNPs EXCEPT ![p] = [np EXCEPT !.span = span]]
           /\ addressGroupQueue' =
                 IF span = np.span THEN addressGroupQueue
                 ELSE addressGroupQueue \cup np.addressGroups
    /\ internalNetworkPolicySync' = [internalNetworkPolicySync EXCEPT ![p] = Nil]
    /\ UNCHANGED <<listers, events, handler, appliedToGroups, addressGroups,
                   appliedToGroupQueue, internalNetworkPolicyQueue,
                   appliedToGroupSync, addressGroupSync, bounds>>

-----------------------------------------------------------------------------
(* Changes made through the K8s API: the informer updates its lister and    *)
(* queues a call of its handlers.                                           *)

Notify(k, obj, old, new) ==
    events' = [events EXCEPT ![k] = Append(@, [obj |-> obj, old |-> old, new |-> new])]

ChangeMember(m, attr) ==
    /\ changes < MaxChanges
    /\ attr # members[m]
    /\ members' = [members EXCEPT ![m] = attr]
    /\ Notify(Kind[m], m, members[m], attr)
    /\ changes' = changes + 1
    /\ UNCHANGED <<namespaces, policies, handler, stores, queues, syncs, creations>>

ChangeNamespace(ns, label) ==
    /\ changes < MaxChanges
    /\ label # namespaces[ns]
    /\ namespaces' = [namespaces EXCEPT ![ns] = label]
    /\ Notify("ns", ns, namespaces[ns], label)
    /\ changes' = changes + 1
    /\ UNCHANGED <<members, policies, handler, stores, queues, syncs, creations>>

ChangePolicy(p, spec) ==
    /\ changes < MaxChanges
    /\ spec # policies[p]
    /\ policies[p] = Nil => creations[p] < MaxCreations
    /\ policies' = [policies EXCEPT ![p] = spec]
    /\ Notify(PolicyKind[p], p, policies[p], spec)
    /\ changes' = changes + 1
    /\ creations' = [creations EXCEPT ![p] = IF policies[p] = Nil THEN @ + 1 ELSE @]
    /\ UNCHANGED <<members, namespaces, handler, stores, queues, syncs>>

(* The handlers have been called for the initial lists of members and       *)
(* Namespaces, which find no group to enqueue.                              *)
Init ==
    /\ members = InitMembers
    /\ namespaces = InitNamespaces
    /\ policies = [p \in Policies |-> Nil]
    /\ events = [k \in {"pod", "ee", "ns"} \cup PolicyKinds |-> <<>>]
    /\ handler = [k \in PolicyKinds |-> Nil]
    /\ appliedToGroups = [g \in AppliedToKeys |-> Nil]
    /\ addressGroups = [g \in AddressKeys |-> Nil]
    /\ internalNPs = [p \in Policies |-> Nil]
    /\ appliedToGroupQueue = {}
    /\ addressGroupQueue = {}
    /\ internalNetworkPolicyQueue = {}
    /\ appliedToGroupSync = [g \in AppliedToKeys |-> Nil]
    /\ addressGroupSync = [g \in AddressKeys |-> Nil]
    /\ internalNetworkPolicySync = [p \in Policies |-> Nil]
    /\ changes = 0
    /\ creations = [p \in Policies |-> 0]

ApiChange ==
    \/ \E m \in Members : \E attr \in Attrs[m] \cup {Nil} : ChangeMember(m, attr)
    \/ \E ns \in Namespaces : \E label \in NsLabels \cup {Nil} :
           ChangeNamespace(ns, label)
    \/ \E p \in Policies : \E spec \in SpecsOf[p] \cup {Nil} : ChangePolicy(p, spec)

Handle ==
    \/ HandlePodEvent
    \/ HandleExternalEntityEvent
    \/ HandleNamespaceEvent
    \/ HandleNetworkPolicy
    \/ HandleCNP
    \/ HandleANP

Sync ==
    \/ \E g \in AppliedToKeys :
           \/ SyncAppliedToGroupCompute(g)
           \/ SyncAppliedToGroupStore(g)
           \/ SyncAppliedToGroupEnqueue(g)
    \/ \E g \in AddressKeys : SyncAddressGroupCompute(g) \/ SyncAddressGroupStore(g)
    \/ \E p \in Policies : SyncInternalNPRead(p) \/ SyncInternalNPStore(p)

Next == ApiChange \/ Handle \/ Sync

Spec == Init /\ [][Next]_vars

(* Handler goroutines and workers are scheduled, and there are workers for  *)
(* each queue.                                                              *)
Fairness ==
    /\ WF_vars(HandlePodEvent)
    /\ WF_vars(HandleExternalEntityEvent)
    /\ WF_vars(HandleNamespaceEvent)
    /\ \A k \in PolicyKinds :
          /\ WF_vars(ProcessPolicy(k) \/ CreateInternalNP(k) \/ DeleteInternalNP(k)
                     \/ DeleteDereferencedGroups(k))
          /\ SF_vars(UpdateInternalNP(k))
    /\ \A g \in AppliedToKeys :
          WF_vars(SyncAppliedToGroupCompute(g) \/ SyncAppliedToGroupStore(g)
                  \/ SyncAppliedToGroupEnqueue(g))
    /\ \A g \in AddressKeys :
          WF_vars(SyncAddressGroupCompute(g) \/ SyncAddressGroupStore(g))
    /\ \A p \in Policies :
          WF_vars(SyncInternalNPStore(p)) /\ SF_vars(SyncInternalNPRead(p))

FairSpec == Spec /\ Fairness

-----------------------------------------------------------------------------
(* TypeOK is inductive together with the invariants on pending events.      *)
TypeOK ==
    /\ members \in [Members -> Attributes \cup {Nil}]
    /\ namespaces \in [Namespaces -> NsLabels \cup {Nil}]
    /\ policies \in [Policies -> Specs \cup {Nil}]
    /\ events \in [{"pod", "ee", "ns"} \cup PolicyKinds ->
                       Seq(MemberEvent \cup NamespaceEvent \cup PolicyEvent)]
    /\ handler \in [PolicyKinds -> HandlerCall \cup {Nil}]
    /\ appliedToGroups \in [AppliedToKeys -> AppliedToGroup \cup {Nil}]
    /\ addressGroups \in [AddressKeys -> AddressGroup \cup {Nil}]
    /\ internalNPs \in [Policies -> InternalNP \cup {Nil}]
    /\ appliedToGroupQueue \subseteq AppliedToKeys
    /\ addressGroupQueue \subseteq AddressKeys
    /\ internalNetworkPolicyQueue \subseteq Policies
    /\ appliedToGroupSync \in [AppliedToKeys -> {Nil} \cup AppliedToGroupCall]
    /\ addressGroupSync \in [AddressKeys -> AddressGroup \cup {Nil}]
    /\ internalNetworkPolicySync \in
          [Policies -> {Nil} \cup [np : InternalNP, span : SUBSET Nodes]]
    /\ changes \in Nat
    /\ creations \in [Policies -> Nat]

(* Nothing is pending.  The key of a deleted policy may be retried for      *)
(* ever.                                                                    *)
Quiescent ==
    /\ \A k \in DOMAIN events : events[k] = <<>>
    /\ \A k \in PolicyKinds : handler[k] = Nil
    /\ appliedToGroupQueue = {} /\ addressGroupQueue = {}
    /\ \A g \in AppliedToKeys : appliedToGroupSync[g] = Nil
    /\ \A g \in AddressKeys : addressGroupSync[g] = Nil
    /\ \A p \in Policies : internalNetworkPolicySync[p] = Nil
    /\ \A p \in internalNetworkPolicyQueue : internalNPs[p] = Nil

(* processSelector and labelsMatchGroupSelector agree in the direction that *)
(* the event handlers rely on: a group that would list an object now is     *)
(* among the groups that an event of the object enqueues.                   *)
ListedIsMatched ==
    /\ \A g \in AppliedToKeys : appliedToGroups[g] # Nil =>
          \A m \in Selected(g) : g \in AppliedToGroupsFor(m, members[m])
    /\ \A g \in AddressKeys : addressGroups[g] # Nil =>
          \A m \in Selected(g) : g \in AddressGroupsFor(m, members[m])

(* createAddressGroup and createAppliedToGroup run before the policy is     *)
(* stored, deleteDereferenced* after it is changed: no internal policy ever *)
(* refers to a group that is not in the stores (agents would wait for the   *)
(* group and never realise the rule).                                       *)
NoDanglingGroup ==
    \A p \in Policies : internalNPs[p] # Nil =>
        /\ \A g \in internalNPs[p].appliedToGroups : appliedToGroups[g] # Nil
        /\ \A g \in internalNPs[p].addressGroups : addressGroups[g] # Nil

(* The update and delete handlers convert the result of                     *)
(* internalNetworkPolicyStore.Get without looking at found: the policy must *)
(* be there.                                                                *)
HandlersFindTheirPolicy ==
    \A k \in PolicyKinds :
        /\ handler[k] # Nil /\ handler[k].step = "update" =>
              internalNPs[handler[k].key] # Nil
        /\ handler[k] = Nil /\ events[k] # <<>> /\ Head(events[k]).new = Nil =>
              internalNPs[Head(events[k]).obj] # Nil

(* Once nothing is pending, the store holds exactly the policies of the API *)
(* with their current groups ...                                            *)
StoredAsSpecified ==
    Quiescent => \A p \in Policies :
        IF policies[p] = Nil THEN internalNPs[p] = Nil
        ELSE /\ internalNPs[p] # Nil
             /\ internalNPs[p].appliedToGroups = policies[p].appliedTo
             /\ internalNPs[p].addressGroups = policies[p].peers

(* ... "A Node receives a NetworkPolicy if and only if the NetworkPolicy is *)
(* applied to at least one Pod on the Node" (docs/architecture.md) ...      *)
SpanIsWhereApplied ==
    Quiescent => \A p \in Policies : policies[p] # Nil =>
        internalNPs[p].span =
            UNION {NodesOf(AppliedToMembers(g)) : g \in policies[p].appliedTo}

(* ... the groups of every policy have the members that their selectors     *)
(* select now, where the members are needed ...                             *)
GroupsUpToDate ==
    Quiescent => \A p \in Policies : policies[p] # Nil =>
        /\ \A g \in policies[p].appliedTo :
              appliedToGroups[g].members = AppliedToMembers(g)
        /\ internalNPs[p].span # {} => \A g \in policies[p].peers :
              addressGroups[g].members = AddressMembers(g)

(* ... every Node that receives a policy receives its AddressGroups ...     *)
AddressGroupsReachSpan ==
    Quiescent => \A p \in Policies : policies[p] # Nil =>
        \A g \in policies[p].peers : internalNPs[p].span \subseteq addressGroups[g].span

(* ... and no group is kept that no policy refers to.                       *)
NoLeakedGroup ==
    Quiescent => /\ \A g \in AppliedToKeys : appliedToGroups[g] # Nil =>
                       AppliedToGroupReferrers(g) # {}
                 /\ \A g \in AddressKeys : addressGroups[g] # Nil =>
                       AddressGroupReferrers(g) # {}

(* The spans of policies and of their groups fit together.                  *)
SpansReach == SpanIsWhereApplied /\ AddressGroupsReachSpan

(* The stored groups are those that are needed, as they should be.          *)
GroupsSettled == GroupsUpToDate /\ NoLeakedGroup

(* When the API stops changing, the controller settles.                     *)
Settles == <>[]Quiescent
=============================================================================
