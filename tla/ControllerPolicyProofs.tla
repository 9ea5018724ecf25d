----------------------- MODULE ControllerPolicyProofs -----------------------
(* Type correctness of NetworkPolicyController, and that the handlers find   *)
(* their policy.  The handlers of updates and deletions keep types only if   *)
(* they do, which PInv says: the two are inductive together.                *)
EXTENDS NetworkPolicyController, TLAPS

Queue(p) == events[PolicyKind[p]]

Creating(p) == /\ handler[PolicyKind[p]] # Nil
               /\ handler[PolicyKind[p]].step = "create"
               /\ handler[PolicyKind[p]].key = p

(* The handlers called so far have left p in the store, or are about to.    *)
Known(p) == internalNPs[p] # Nil \/ Creating(p)

(* E is the set of positions of the queue after which p exists: it links    *)
(* what the handlers have done to what the lister holds.                    *)
Linked(p, E) ==
    /\ 0 \in E <=> Known(p)
    /\ Len(Queue(p)) \in E <=> policies[p] # Nil
    /\ \A i \in 1 .. Len(Queue(p)) :
          IF Queue(p)[i].obj = p
          THEN /\ Queue(p)[i].old # Nil <=> i - 1 \in E
               /\ Queue(p)[i].new # Nil <=> i \in E
          ELSE i \in E <=> i - 1 \in E

EventsTyped ==
    \A k \in PolicyKinds : \A i \in 1 .. Len(events[k]) :
        /\ events[k][i] \in PolicyEvent
        /\ PolicyKind[events[k][i].obj] = k
        /\ events[k][i].old # Nil \/ events[k][i].new # Nil

HandlerOK ==
    \A k \in PolicyKinds : handler[k] # Nil /\ handler[k].step # "deref" =>
        /\ PolicyKind[handler[k].key] = k
        /\ handler[k].step = "create" <=> internalNPs[handler[k].key] = Nil

Chain == \A p \in Policies : \E E \in SUBSET (0 .. Len(Queue(p))) : Linked(p, E)

PInv == EventsTyped /\ HandlerOK /\ Chain

(* What the AddressGroup will be when the sync in progress is done.         *)
AddressWritten(g) == IF addressGroupSync[g] # Nil THEN addressGroupSync[g] ELSE addressGroups[g]
-----------------------------------------------------------------------------
(* Facts about the constants.                                               *)
LEMMA Keys ==
    /\ \A p \in Policies : /\ PolicyKind[p] \in PolicyKinds
                           /\ PolicyKind[p] \in {"np", "anp", "cnp"}
                           /\ SpecsOf[p] \subseteq Specs
    /\ \A k \in PolicyKinds : k \notin {"pod", "ee", "ns"}
    /\ \A s \in Specs : /\ s.appliedTo \subseteq AppliedToKeys
                        /\ s.peers \subseteq AddressKeys
<1>1. \A p \in Policies : /\ PolicyKind[p] \in PolicyKinds
                          /\ PolicyKind[p] \in {"np", "anp", "cnp"}
                          /\ SpecsOf[p] \subseteq Specs
  BY ControllerAssumption, Zenon DEF PolicyKinds, Specs
<1>2. \A k \in PolicyKinds : k \notin {"pod", "ee", "ns"}
  BY ControllerAssumption, Zenon DEF PolicyKinds
<1>3. \A s \in Specs : s.appliedTo \subseteq AppliedToKeys
  BY Zenon DEF AppliedToKeys
<1>4. \A s \in Specs : s.peers \subseteq AddressKeys
  BY Zenon DEF AddressKeys
<1> QED BY <1>1, <1>2, <1>3, <1>4, Zenon

(* What the syncs compute has the type of what the stores hold.             *)
LEMMA MembersTyped ==
    ASSUME TypeOK, NEW g
    PROVE  /\ AppliedToMembers(g) \subseteq AppliedToMember
           /\ AddressMembers(g) \subseteq AddressMember
<1>1. \A m \in Selected(g) : m \in Members /\ members[m] \in Attributes
  BY Zenon DEF Selected, TypeOK
<1>2. \A m \in Selected(g) : /\ members[m].node \in Nodes \cup {Nil}
                             /\ members[m].addr \in Addrs \cup {Nil}
  BY <1>1, Zenon DEF Attributes
<1>3. AppliedToMembers(g) \subseteq AppliedToMember
  BY <1>1, <1>2 DEF AppliedToMembers, AppliedToMember
<1>4. AddressMembers(g) \subseteq AddressMember
  BY <1>1, <1>2 DEF AddressMembers, AddressMember
<1> QED BY <1>3, <1>4, Zenon

LEMMA SpanTyped ==
    ASSUME TypeOK, NEW A \in SUBSET AppliedToKeys
    PROVE  AppliedToSpan(A) \subseteq Nodes
<1>1. \A g \in A : appliedToGroups[g] # Nil =>
          appliedToGroups[g].members \subseteq AppliedToMember
  BY Zenon DEF TypeOK, AppliedToGroup
<1>2. \A e \in AppliedToMember : e[1] \in Nodes
  BY Zenon DEF AppliedToMember
<1> QED BY <1>1, <1>2 DEF AppliedToSpan, NodesOf

(* When the handler of a policy informer is idle and a deletion is next,    *)
(* the policy is in the store.                                              *)
LEMMA Found ==
    ASSUME TypeOK, PInv, NEW k \in PolicyKinds, events[k] # <<>>
    PROVE  LET e == Head(events[k])
           IN  /\ e \in PolicyEvent
               /\ PolicyKind[e.obj] = k
               /\ e.old # Nil \/ e.new # Nil
               /\ handler[k] = Nil => (e.old = Nil <=> internalNPs[e.obj] = Nil)
<1> DEFINE e == Head(events[k])
<1>1. Len(events[k]) \in Nat /\ Len(events[k]) >= 1 /\ e = events[k][1]
  BY DEF TypeOK
<1>a. 1 \in 1 .. Len(events[k])
  BY <1>1
<1>2. e \in PolicyEvent /\ PolicyKind[e.obj] = k /\ (e.old # Nil \/ e.new # Nil)
  BY <1>1, <1>a DEF PInv, EventsTyped
<1>3. e.obj \in Policies
  BY <1>2, Zenon DEF PolicyEvent
<1>4. PICK E \in SUBSET (0 .. Len(Queue(e.obj))) : Linked(e.obj, E)
  BY <1>3, Zenon DEF PInv, Chain
<1>5. e.old # Nil <=> 0 \in E
  <2>1. Len(events[k]) \in Nat
    BY DEF TypeOK
  <2>2. Queue(e.obj) = events[k]
    BY <1>2, Zenon DEF Queue
  <2>3. 1 \in 1 .. Len(Queue(e.obj)) /\ Queue(e.obj)[1].obj = e.obj
    BY <1>1, <2>1, <2>2
  <2>4. Queue(e.obj)[1].old # Nil <=> 1 - 1 \in E
    BY <1>4, <2>3, Zenon DEF Linked
  <2> QED BY <2>4, <1>1, <2>2
<1>6. handler[k] = Nil => (e.old = Nil <=> internalNPs[e.obj] = Nil)
  BY <1>2, <1>4, <1>5, Zenon DEF Linked, Known, Creating
<1> QED BY <1>2, <1>6, Zenon

-----------------------------------------------------------------------------
(* Type correctness.                                                        *)
LEMMA TypeInit == Init => TypeOK
BY ControllerAssumption, MembersAssumption DEF Init, TypeOK

LEMMA TypeApi ==
    ASSUME TypeOK, ApiChange PROVE TypeOK'
<1>1. ASSUME NEW m \in Members, NEW attr \in Attrs[m] \cup {Nil}, ChangeMember(m, attr)
      PROVE  TypeOK'
  <2>1. attr \in Attributes \cup {Nil} /\ Kind[m] \in {"pod", "ee"}
    BY <1>1, ControllerAssumption, MembersAssumption, Zenon
  <2>2. [obj |-> m, old |-> members[m], new |-> attr] \in MemberEvent
    BY <2>1, Zenon DEF TypeOK, MemberEvent
  <2> QED BY <1>1, <2>1, <2>2 DEF TypeOK, ChangeMember, Notify, stores, queues, syncs
<1>2. ASSUME NEW ns \in Namespaces, NEW label \in NsLabels \cup {Nil},
             ChangeNamespace(ns, label)
      PROVE  TypeOK'
  <2>2. [obj |-> ns, old |-> namespaces[ns], new |-> label] \in NamespaceEvent
    BY Zenon DEF TypeOK, NamespaceEvent
  <2> QED BY <1>2, <2>2 DEF TypeOK, ChangeNamespace, Notify, stores, queues, syncs
<1>3. ASSUME NEW p \in Policies, NEW spec \in SpecsOf[p] \cup {Nil}, ChangePolicy(p, spec)
      PROVE  TypeOK'
  <2>1. spec \in Specs \cup {Nil} /\ PolicyKind[p] \in PolicyKinds
    BY Keys, Zenon
  <2>2. [obj |-> p, old |-> policies[p], new |-> spec] \in PolicyEvent
    BY <2>1, Zenon DEF TypeOK, PolicyEvent
  <2> QED BY <1>3, <2>1, <2>2, SMTT(30) DEF TypeOK, ChangePolicy, Notify, stores, queues, syncs
<1> QED BY <1>1, <1>2, <1>3, Zenon DEF ApiChange

LEMMA TypeMember ==
    ASSUME TypeOK, HandlePodEvent \/ HandleExternalEntityEvent \/ HandleNamespaceEvent
    PROVE  TypeOK'
<1>1. \A m, attr : /\ AppliedToGroupsFor(m, attr) \subseteq AppliedToKeys
                   /\ AddressGroupsFor(m, attr) \subseteq AddressKeys
  BY Zenon DEF AppliedToGroupsFor, AddressGroupsFor
<1>2. \A l : AddressGroupsForNamespace(l) \subseteq AddressKeys
  BY Zenon DEF AddressGroupsForNamespace
<1>3. \A k \in {"pod", "ee", "ns"} : events[k] # <<>> =>
          Tail(events[k]) \in Seq(MemberEvent \cup NamespaceEvent \cup PolicyEvent)
  BY DEF TypeOK
<1>4. CASE HandlePodEvent
  <2>1. /\ appliedToGroupQueue' \subseteq AppliedToKeys
        /\ addressGroupQueue' \subseteq AddressKeys
        /\ internalNetworkPolicyQueue' = internalNetworkPolicyQueue
    BY <1>4, <1>1, Zenon DEF HandlePodEvent, AddOrDeleteMember, UpdatePod, EnqueueGroups,
                      SymDiff, TypeOK
  <2> QED BY <1>4, <1>3, <2>1, Zenon DEF HandlePodEvent, TypeOK, listers, stores, syncs, bounds
<1>5. CASE HandleExternalEntityEvent
  <2>1. /\ appliedToGroupQueue' \subseteq AppliedToKeys
        /\ addressGroupQueue' \subseteq AddressKeys
        /\ internalNetworkPolicyQueue' = internalNetworkPolicyQueue
    BY <1>5, <1>1, Zenon DEF HandleExternalEntityEvent, AddOrDeleteMember,
                      UpdateExternalEntity, EnqueueGroups, SymDiff, TypeOK
  <2> QED BY <1>5, <1>3, <2>1, Zenon
          DEF HandleExternalEntityEvent, TypeOK, listers, stores, syncs, bounds
<1>6. CASE HandleNamespaceEvent
  BY <1>6, <1>2, <1>3, Zenon DEF HandleNamespaceEvent, EnqueueGroups, SymDiff, TypeOK,
                          listers, stores, syncs, bounds
<1> QED BY <1>4, <1>5, <1>6, Zenon

LEMMA TypePolicy ==
    ASSUME TypeOK, PInv, NEW k \in PolicyKinds, HandlePolicy(k)
    PROVE  TypeOK'
<1>1. events[k] # <<>> =>
          Tail(events[k]) \in Seq(MemberEvent \cup NamespaceEvent \cup PolicyEvent)
  BY DEF TypeOK
<1>2. CASE ProcessPolicy(k)
  <2> DEFINE e == Head(events[k])
  <2>1. e.obj \in Policies /\ e.new \in Specs
    BY <1>2, Found, Zenon DEF ProcessPolicy, PolicyEvent
  <2>2. handler' \in [PolicyKinds -> HandlerCall \cup {Nil}]
    BY <1>2, <2>1, Zenon DEF ProcessPolicy, TypeOK, HandlerCall
  <2>3. NewAppliedToGroup \in AppliedToGroup /\ NewAddressGroup \in AddressGroup
    BY Zenon DEF NewAppliedToGroup, NewAddressGroup, AppliedToGroup, AddressGroup
  <2>4. CreateGroups(e.new)
    BY <1>2, Zenon DEF ProcessPolicy
  <2>5. /\ appliedToGroups' \in [AppliedToKeys -> AppliedToGroup \cup {Nil}]
        /\ addressGroups' \in [AddressKeys -> AddressGroup \cup {Nil}]
    BY <2>3, <2>4, Zenon DEF CreateGroups, TypeOK
  <2>6. /\ appliedToGroupQueue' \subseteq AppliedToKeys
        /\ addressGroupQueue' \subseteq AddressKeys
        /\ UNCHANGED <<internalNetworkPolicyQueue, internalNPs>>
    BY <2>1, <2>4, Keys, Zenon DEF CreateGroups, EnqueueGroups, TypeOK
  <2>7. events' \in [{"pod", "ee", "ns"} \cup PolicyKinds ->
                        Seq(MemberEvent \cup NamespaceEvent \cup PolicyEvent)]
    BY <1>1, <1>2, Zenon DEF ProcessPolicy, TypeOK
  <2> QED BY <1>2, <2>2, <2>5, <2>6, <2>7, Zenon
          DEF ProcessPolicy, TypeOK, listers, syncs, bounds
<1>3. CASE CreateInternalNP(k)
  <2>1. handler[k].key \in Policies /\ handler[k].spec \in Specs
    BY <1>3, Zenon DEF CreateInternalNP, TypeOK, HandlerCall
  <2>2. [appliedToGroups |-> handler[k].spec.appliedTo,
         addressGroups |-> handler[k].spec.peers, span |-> {}] \in InternalNP
    BY <2>1, Keys, Zenon DEF InternalNP
  <2>3. internalNPs' \in [Policies -> InternalNP \cup {Nil}]
    BY <1>3, <2>1, <2>2, Zenon DEF CreateInternalNP, TypeOK
  <2>4. handler' \in [PolicyKinds -> HandlerCall \cup {Nil}]
    BY <1>3, Zenon DEF CreateInternalNP, TypeOK
  <2> QED BY <1>3, <2>1, <2>3, <2>4, Zenon DEF CreateInternalNP, TypeOK, listers, syncs, bounds
<1>4. CASE UpdateInternalNP(k)
  <2> DEFINE p == handler[k].key
  <2>1. p \in Policies /\ handler[k].spec \in Specs
    BY <1>4, Zenon DEF UpdateInternalNP, TypeOK, HandlerCall
  <2>2. internalNPs[p] \in InternalNP
    <3>1. internalNPs[p] # Nil
      BY <1>4, Zenon DEF UpdateInternalNP, PInv, HandlerOK
    <3> QED BY <2>1, <3>1 DEF TypeOK
  <2>3. [appliedToGroups |-> handler[k].spec.appliedTo,
         addressGroups |-> handler[k].spec.peers,
         span |-> internalNPs[p].span] \in InternalNP
    BY <2>1, <2>2, Keys, Zenon DEF InternalNP
  <2>4. internalNPs' \in [Policies -> InternalNP \cup {Nil}]
    BY <1>4, <2>1, <2>3, Zenon DEF UpdateInternalNP, CommitUpdate, TypeOK
  <2>5. handler' \in [PolicyKinds -> HandlerCall \cup {Nil}]
    BY <1>4, <2>2, Zenon DEF UpdateInternalNP, CommitUpdate, TypeOK, HandlerCall, InternalNP
  <2>6. /\ addressGroupQueue' \subseteq AddressKeys
        /\ internalNetworkPolicyQueue' \subseteq Policies
    BY <1>4, <2>1, Keys, Zenon DEF UpdateInternalNP, CommitUpdate, TypeOK
  <2> QED BY <1>4, <2>4, <2>5, <2>6, Zenon
          DEF UpdateInternalNP, CommitUpdate, TypeOK, listers, syncs, bounds
<1>5. CASE DeleteInternalNP(k)
  <2> DEFINE p == Head(events[k]).obj
  <2>1. p \in Policies /\ internalNPs[p] # Nil
    BY <1>5, Found, Zenon DEF DeleteInternalNP, PolicyEvent
  <2>2. internalNPs[p] \in InternalNP
    BY <2>1, Zenon DEF TypeOK
  <2>3. handler' \in [PolicyKinds -> HandlerCall \cup {Nil}]
    BY <1>5, <2>2, Zenon DEF DeleteInternalNP, TypeOK, HandlerCall, InternalNP
  <2>4. internalNPs' \in [Policies -> InternalNP \cup {Nil}]
    BY <1>5, Zenon DEF DeleteInternalNP, TypeOK
  <2>5. events' \in [{"pod", "ee", "ns"} \cup PolicyKinds ->
                        Seq(MemberEvent \cup NamespaceEvent \cup PolicyEvent)]
    BY <1>1, <1>5, Zenon DEF DeleteInternalNP, TypeOK
  <2> QED BY <1>5, <2>3, <2>4, <2>5, Zenon
          DEF DeleteInternalNP, TypeOK, listers, queues, syncs, bounds
<1>6. CASE DeleteDereferencedGroups(k)
  <2>1. /\ appliedToGroups' \in [AppliedToKeys -> AppliedToGroup \cup {Nil}]
        /\ addressGroups' \in [AddressKeys -> AddressGroup \cup {Nil}]
        /\ handler' \in [PolicyKinds -> HandlerCall \cup {Nil}]
    BY <1>6, Zenon DEF DeleteDereferencedGroups, DeleteGroups, TypeOK
  <2> QED BY <1>6, <2>1, Zenon DEF DeleteDereferencedGroups, DeleteGroups, TypeOK,
                            listers, queues, syncs, bounds
<1> QED BY <1>2, <1>3, <1>4, <1>5, <1>6, Zenon DEF HandlePolicy

LEMMA TypeSync ==
    ASSUME TypeOK, Sync PROVE TypeOK'
<1>1. ASSUME NEW g \in AppliedToKeys, SyncAppliedToGroupCompute(g) PROVE TypeOK'
  <2>1. [step |-> "store", members |-> AppliedToMembers(g)] \in AppliedToGroupCall
    BY MembersTyped, Zenon DEF AppliedToGroupCall
  <2> QED BY <1>1, <2>1, Zenon DEF SyncAppliedToGroupCompute, TypeOK, listers, stores, bounds
<1>2. ASSUME NEW g \in AppliedToKeys, SyncAppliedToGroupStore(g) PROVE TypeOK'
  <2>1. appliedToGroupSync[g].members \subseteq AppliedToMember
    BY <1>2, Zenon DEF SyncAppliedToGroupStore, TypeOK, AppliedToGroupCall
  <2>2. appliedToGroups[g] # Nil =>
          [appliedToGroups[g] EXCEPT !.members = appliedToGroupSync[g].members]
              \in AppliedToGroup
    BY <2>1, Zenon DEF TypeOK, AppliedToGroup
  <2>3. appliedToGroups' \in [AppliedToKeys -> AppliedToGroup \cup {Nil}]
    BY <1>2, <2>2, Zenon DEF SyncAppliedToGroupStore, TypeOK
  <2>4. [step |-> "enqueue"] \in AppliedToGroupCall
    BY Zenon DEF AppliedToGroupCall
  <2> QED BY <1>2, <2>3, <2>4, Zenon
          DEF SyncAppliedToGroupStore, TypeOK, listers, queues, bounds
<1>3. ASSUME NEW g \in AppliedToKeys, SyncAppliedToGroupEnqueue(g) PROVE TypeOK'
  BY <1>3, Zenon DEF SyncAppliedToGroupEnqueue, AppliedToGroupReferrers, TypeOK, listers,
              stores, bounds
<1>4. ASSUME NEW g \in AddressKeys, SyncAddressGroupCompute(g) PROVE TypeOK'
  <2> DEFINE span == UNION {internalNPs[p].span : p \in AddressGroupReferrers(g)}
  <2>1. \A p \in AddressGroupReferrers(g) : internalNPs[p].span \subseteq Nodes
    BY Zenon DEF AddressGroupReferrers, TypeOK, InternalNP
  <2>2. [members |-> AddressMembers(g), span |-> span] \in AddressGroup
    BY <2>1, MembersTyped, Zenon DEF AddressGroup
  <2> QED BY <1>4, <2>2, Zenon DEF SyncAddressGroupCompute, TypeOK, listers, stores, bounds
<1>5. ASSUME NEW g \in AddressKeys, SyncAddressGroupStore(g) PROVE TypeOK'
  BY <1>5, Zenon DEF SyncAddressGroupStore, TypeOK, listers, queues, bounds
<1>6. ASSUME NEW p \in Policies, SyncInternalNPRead(p) PROVE TypeOK'
  <2>1. internalNPs[p] \in InternalNP
    BY <1>6, Zenon DEF SyncInternalNPRead, TypeOK
  <2>2. AppliedToSpan(internalNPs[p].appliedToGroups) \subseteq Nodes
    BY <2>1, SpanTyped, Zenon DEF InternalNP
  <2> QED BY <1>6, <2>1, <2>2, Zenon DEF SyncInternalNPRead, TypeOK, listers, stores, bounds
<1>7. ASSUME NEW p \in Policies, SyncInternalNPStore(p) PROVE TypeOK'
  <2>1. /\ internalNetworkPolicySync[p].np \in InternalNP
        /\ internalNetworkPolicySync[p].span \subseteq Nodes
    BY <1>7, Zenon DEF SyncInternalNPStore, TypeOK
  <2>2. [internalNetworkPolicySync[p].np EXCEPT
            !.span = internalNetworkPolicySync[p].span] \in InternalNP
    BY <2>1, Zenon DEF InternalNP
  <2>3. internalNPs' \in [Policies -> InternalNP \cup {Nil}]
    BY <1>7, <2>2, Zenon DEF SyncInternalNPStore, TypeOK
  <2>4. addressGroupQueue' \subseteq AddressKeys
    BY <1>7, <2>1, Zenon DEF SyncInternalNPStore, TypeOK, InternalNP
  <2> QED BY <1>7, <2>3, <2>4, Zenon DEF SyncInternalNPStore, TypeOK, listers, bounds
<1> QED BY <1>1, <1>2, <1>3, <1>4, <1>5, <1>6, <1>7, Zenon DEF Sync
-----------------------------------------------------------------------------

(* The events that are pending for a policy continue what the handlers have *)
(* done with it.                                                            *)
LEMMA PInit == Init => PInv
<1> SUFFICES ASSUME Init PROVE PInv
  BY Zenon
<1>1. \A p \in Policies : Queue(p) = <<>> /\ ~ Known(p) /\ policies[p] = Nil
  BY Keys, Zenon DEF Init, Queue, Known, Creating
<1>2. ASSUME NEW p \in Policies PROVE Linked(p, {})
  BY <1>1 DEF Linked
<1>3. Chain
  BY <1>2, Zenon DEF Chain
<1>4. EventsTyped /\ HandlerOK
  BY DEF Init, EventsTyped, HandlerOK
<1> QED BY <1>3, <1>4, Zenon DEF PInv

(* A step that leaves policy events, handlers and the lister alone, and     *)
(* adds or removes no stored policy.                                        *)
LEMMA PFrame ==
    ASSUME PInv, handler' = handler, policies' = policies,
           \A k \in PolicyKinds : events'[k] = events[k],
           \A p \in Policies : internalNPs'[p] = Nil <=> internalNPs[p] = Nil,
           TypeOK
    PROVE  PInv'
<1>1. \A p \in Policies : Queue(p)' = Queue(p) /\ (Known(p)' <=> Known(p))
  BY Keys, Zenon DEF Queue, Known, Creating
<1>2. ASSUME NEW p \in Policies PROVE \E E \in SUBSET (0 .. Len(Queue(p)')) : Linked(p, E)'
  <2>1. PICK E \in SUBSET (0 .. Len(Queue(p))) : Linked(p, E)
    BY Zenon DEF PInv, Chain
  <2>2. Linked(p, E)'
    BY <1>1, <2>1, Zenon DEF Linked
  <2> QED BY <1>1, <2>1, <2>2, Zenon
<1>3. Chain'
  BY <1>2, Zenon DEF Chain
<1>4. EventsTyped'
  BY DEF PInv, EventsTyped
<1>5. \A k \in PolicyKinds : handler[k] # Nil /\ handler[k].step # "deref" =>
          handler[k].key \in Policies
  BY Zenon DEF TypeOK, HandlerCall
<1>6. HandlerOK'
  BY <1>5, Zenon DEF PInv, HandlerOK
<1> QED BY <1>3, <1>4, <1>6, Zenon DEF PInv

(* A change of a policy in the API is appended to the queue.                *)
LEMMA PAppend ==
    ASSUME TypeOK, PInv, NEW p \in Policies, NEW spec \in SpecsOf[p] \cup {Nil},
           ChangePolicy(p, spec)
    PROVE  PInv'
<1> DEFINE k == PolicyKind[p]
           e == [obj |-> p, old |-> policies[p], new |-> spec]
<1>1. /\ events' = [events EXCEPT ![k] = Append(@, e)]
      /\ policies' = [policies EXCEPT ![p] = spec]
      /\ handler' = handler /\ internalNPs' = internalNPs
      /\ spec # policies[p]
  BY Zenon DEF ChangePolicy, Notify, stores
<1>2. /\ k \in PolicyKinds /\ spec \in Specs \cup {Nil}
      /\ \A q \in Policies : PolicyKind[q] \in PolicyKinds
  BY Keys, Zenon
<1>3. e \in PolicyEvent /\ (e.old # Nil \/ e.new # Nil)
  BY <1>1, <1>2, Zenon DEF TypeOK, PolicyEvent
<1>4. /\ events[k] \in Seq(MemberEvent \cup NamespaceEvent \cup PolicyEvent)
      /\ events'[k] = Append(events[k], e)
      /\ \A j \in PolicyKinds : j # k => events'[j] = events[j]
  BY <1>1, <1>2, Zenon DEF TypeOK
<1>5. EventsTyped'
  <2> SUFFICES ASSUME NEW j \in PolicyKinds, NEW i \in 1 .. Len(events'[j])
               PROVE  /\ events'[j][i] \in PolicyEvent
                      /\ PolicyKind[events'[j][i].obj] = j
                      /\ events'[j][i].old # Nil \/ events'[j][i].new # Nil
    BY Zenon DEF EventsTyped
  <2>1. CASE j # k
    BY <1>4, <2>1 DEF PInv, EventsTyped
  <2>2. CASE j = k
    <3>1. /\ Len(events'[k]) = Len(events[k]) + 1
          /\ events'[k][i] = IF i = Len(events[k]) + 1 THEN e ELSE events[k][i]
          /\ Len(events[k]) \in Nat
      BY <1>4, <2>2
    <3>2. CASE i = Len(events[k]) + 1
      BY <1>3, <2>2, <3>1, <3>2
    <3>3. CASE i \in 1 .. Len(events[k])
      BY <2>2, <3>1, <3>3 DEF PInv, EventsTyped
    <3> QED BY <2>2, <3>1, <3>2, <3>3
  <2> QED BY <2>1, <2>2, Zenon
<1>6. HandlerOK'
  BY <1>1, Zenon DEF PInv, HandlerOK
<1>7. ASSUME NEW q \in Policies PROVE \E E \in SUBSET (0 .. Len(Queue(q)')) : Linked(q, E)'
  <2>1. PICK E \in SUBSET (0 .. Len(Queue(q))) : Linked(q, E)
    BY Zenon DEF PInv, Chain
  <2>2. Known(q)' <=> Known(q)
    BY <1>1, Zenon DEF Known, Creating
  <2>3. CASE PolicyKind[q] # k
    <3>1. Queue(q)' = Queue(q) /\ policies'[q] = policies[q]
      BY <1>1, <1>2, <1>4, <2>3 DEF Queue, TypeOK
    <3>2. Linked(q, E)'
      BY <2>1, <2>2, <3>1, Zenon DEF Linked
    <3> QED BY <2>1, <3>1, <3>2, Zenon
  <2>4. CASE PolicyKind[q] = k
    <3>a. PICK n \in Nat : n = Len(Queue(q))
      BY <1>4, <2>4 DEF Queue
    <3>b. PICK F \in SUBSET (0 .. n + 1) : \A i \in 0 .. n + 1 :
              i \in F <=> IF i = n + 1 THEN policies'[q] # Nil ELSE i \in E
      <4> WITNESS {i \in 0 .. n + 1 : IF i = n + 1 THEN policies'[q] # Nil ELSE i \in E}
                      \in SUBSET (0 .. n + 1)
      <4> QED BY Zenon
    <3>1. /\ Queue(q)' = Append(Queue(q), e)
          /\ Len(Queue(q)') = n + 1
          /\ Queue(q)'[n + 1] = e
          /\ \A i \in 1 .. n : Queue(q)'[i] = Queue(q)[i]
      BY <1>4, <2>4, <3>a DEF Queue
    <3>2. (0 \in F <=> Known(q)') /\ (n + 1 \in F <=> policies'[q] # Nil)
      BY <2>1, <2>2, <3>a, <3>b DEF Linked
    <3>3. ASSUME NEW i \in 1 .. n
          PROVE  IF Queue(q)'[i].obj = q
                 THEN /\ Queue(q)'[i].old # Nil <=> i - 1 \in F
                      /\ Queue(q)'[i].new # Nil <=> i \in F
                 ELSE i \in F <=> i - 1 \in F
      BY <2>1, <3>1, <3>a, <3>b DEF Linked
    <3>4. IF e.obj = q THEN /\ e.old # Nil <=> n \in F
                            /\ e.new # Nil <=> n + 1 \in F
                       ELSE n + 1 \in F <=> n \in F
      <4>1. n \in F <=> policies[q] # Nil
        BY <2>1, <3>a, <3>b DEF Linked
      <4>2. policies'[q] = IF q = p THEN spec ELSE policies[q]
        BY <1>1, Zenon DEF TypeOK
      <4> QED BY <3>2, <4>1, <4>2, Zenon
    <3>5. Linked(q, F)'
      <4>1. ASSUME NEW i \in 1 .. n + 1
            PROVE  IF Queue(q)'[i].obj = q
                   THEN /\ Queue(q)'[i].old # Nil <=> i - 1 \in F
                        /\ Queue(q)'[i].new # Nil <=> i \in F
                   ELSE i \in F <=> i - 1 \in F
        <5>1. CASE i = n + 1
          <6>1. i - 1 = n
            BY <5>1, <3>1
          <6> QED BY <3>1, <3>4, <5>1, <6>1, Zenon
        <5>2. CASE i \in 1 .. n
          BY <3>3, <5>2, Zenon
        <5> QED BY <5>1, <5>2, <3>1
      <4> QED BY <3>1, <3>2, <4>1, Zenon DEF Linked
    <3>6. F \in SUBSET (0 .. Len(Queue(q)'))
      BY <3>1, <3>b, Zenon
    <3> QED BY <3>5, <3>6, Zenon
  <2> QED BY <2>3, <2>4, Zenon
<1>8. Chain'
  BY <1>7, Zenon DEF Chain
<1> QED BY <1>5, <1>6, <1>8, Zenon DEF PInv

(* A handler takes the first event of its queue.                            *)
LEMMA ChainTail ==
    ASSUME TypeOK, PInv, NEW k \in PolicyKinds, events[k] # <<>>,
           events' = [events EXCEPT ![k] = Tail(@)], policies' = policies,
           \A q \in Policies : Known(q)' <=>
               IF Head(events[k]).obj = q THEN Head(events[k]).new # Nil ELSE Known(q)
    PROVE  EventsTyped' /\ Chain'
<1>1. /\ events[k] \in Seq(MemberEvent \cup NamespaceEvent \cup PolicyEvent)
      /\ events'[k] = Tail(events[k])
      /\ \A j \in PolicyKinds : j # k => events'[j] = events[j]
  BY Zenon DEF TypeOK
<1>2. /\ Len(events[k]) \in Nat \ {0}
      /\ Len(events'[k]) = Len(events[k]) - 1
      /\ \A i \in 1 .. Len(events[k]) - 1 : events'[k][i] = events[k][i + 1]
      /\ Head(events[k]) = events[k][1]
  <2>1. Len(events[k]) \in Nat \ {0} /\ Head(events[k]) = events[k][1]
    BY <1>1
  <2>2. Len(Tail(events[k])) = Len(events[k]) - 1
    BY <1>1
  <2>3. \A i \in 1 .. Len(events[k]) - 1 : Tail(events[k])[i] = events[k][i + 1]
    BY <1>1
  <2> QED BY <1>1, <2>1, <2>2, <2>3, Zenon
<1>3. EventsTyped'
  <2> SUFFICES ASSUME NEW j \in PolicyKinds, NEW i \in 1 .. Len(events'[j])
               PROVE  /\ events'[j][i] \in PolicyEvent
                      /\ PolicyKind[events'[j][i].obj] = j
                      /\ events'[j][i].old # Nil \/ events'[j][i].new # Nil
    BY Zenon DEF EventsTyped
  <2>1. CASE j # k
    BY <1>1, <2>1 DEF PInv, EventsTyped
  <2>2. CASE j = k
    <3>1. i + 1 \in 1 .. Len(events[k]) /\ events'[k][i] = events[k][i + 1]
      BY <1>2, <2>2
    <3> QED BY <2>2, <3>1 DEF PInv, EventsTyped
  <2> QED BY <2>1, <2>2, Zenon
<1>4. ASSUME NEW q \in Policies PROVE \E E \in SUBSET (0 .. Len(Queue(q)')) : Linked(q, E)'
  <2>1. PICK E \in SUBSET (0 .. Len(Queue(q))) : Linked(q, E)
    BY Zenon DEF PInv, Chain
  <2>2. PolicyKind[q] \in PolicyKinds
    BY Keys, Zenon
  <2>3. CASE PolicyKind[q] # k
    <3>1. Queue(q)' = Queue(q)
      BY <1>1, <2>2, <2>3, Zenon DEF Queue
    <3>2. Head(events[k]).obj # q
      BY <2>3, Found, Zenon
    <3>3. Linked(q, E)'
      BY <2>1, <3>1, <3>2, Zenon DEF Linked
    <3> QED BY <2>1, <3>1, <3>3, Zenon
  <2>4. CASE PolicyKind[q] = k
    <3>a. PICK n \in Nat : n = Len(Queue(q)) - 1
      <4>1. Len(Queue(q)) \in Nat \ {0}
        BY <1>2, <2>4, Zenon DEF Queue
      <4>2. Len(Queue(q)) - 1 \in Nat
        BY <4>1
      <4> QED BY <4>2, Zenon
    <3>b. PICK F \in SUBSET (0 .. n) : \A i \in 0 .. n : i \in F <=> i + 1 \in E
      <4> WITNESS {i \in 0 .. n : i + 1 \in E} \in SUBSET (0 .. n)
      <4> QED BY Zenon
    <3>1. /\ Len(Queue(q)') = n
          /\ \A i \in 1 .. n : Queue(q)'[i] = Queue(q)[i + 1]
          /\ Head(events[k]) = Queue(q)[1]
          /\ Len(Queue(q)) = n + 1
      BY <1>2, <2>4, <3>a DEF Queue
    <3>2. IF Queue(q)[1].obj = q THEN Queue(q)[1].new # Nil <=> 1 \in E
                                 ELSE 1 \in E <=> 0 \in E
      <4>1. 1 \in 1 .. Len(Queue(q))
        BY <3>1
      <4> QED BY <2>1, <4>1 DEF Linked
    <3>3. 0 \in F <=> Known(q)'
      BY <2>1, <3>1, <3>2, <3>b DEF Linked
    <3>4. n \in F <=> policies'[q] # Nil
      BY <2>1, <3>1, <3>b DEF Linked
    <3>5. ASSUME NEW i \in 1 .. n
          PROVE  IF Queue(q)'[i].obj = q
                 THEN /\ Queue(q)'[i].old # Nil <=> i - 1 \in F
                      /\ Queue(q)'[i].new # Nil <=> i \in F
                 ELSE i \in F <=> i - 1 \in F
      <4>1. i + 1 \in 1 .. Len(Queue(q)) /\ (i + 1) - 1 = i
        BY <3>1
      <4>2. (i - 1 \in F <=> i \in E) /\ (i \in F <=> i + 1 \in E)
        BY <3>b
      <4>3. IF Queue(q)[i + 1].obj = q
            THEN /\ Queue(q)[i + 1].old # Nil <=> (i + 1) - 1 \in E
                 /\ Queue(q)[i + 1].new # Nil <=> i + 1 \in E
            ELSE i + 1 \in E <=> (i + 1) - 1 \in E
        BY <2>1, <4>1, Zenon DEF Linked
      <4> QED BY <3>1, <4>1, <4>2, <4>3, Zenon
    <3>6. Linked(q, F)'
      BY <3>1, <3>3, <3>4, <3>5, Zenon DEF Linked
    <3>7. F \in SUBSET (0 .. Len(Queue(q)'))
      BY <3>1, <3>b, Zenon
    <3> QED BY <3>6, <3>7, Zenon
  <2> QED BY <2>3, <2>4, Zenon
<1>5. Chain'
  BY <1>4, Zenon DEF Chain
<1> QED BY <1>3, <1>5, Zenon

LEMMA PPolicy ==
    ASSUME TypeOK, PInv, NEW k \in PolicyKinds, HandlePolicy(k)
    PROVE  PInv'
<1>1. \A j \in PolicyKinds : handler[j] # Nil /\ handler[j].step # "deref" =>
          handler[j].key \in Policies
  BY Zenon DEF TypeOK, HandlerCall
<1>2. \A q \in Policies : PolicyKind[q] \in PolicyKinds
  BY Keys, Zenon
<1>3. handler \in [PolicyKinds -> HandlerCall \cup {Nil}] /\ Nil \notin HandlerCall
  BY ControllerAssumption, Zenon DEF TypeOK
<1>4. CASE ProcessPolicy(k)
  <2> DEFINE e == Head(events[k])
             h == [step |-> IF e.old = Nil THEN "create" ELSE "update",
                   key |-> e.obj, spec |-> e.new]
  <2>1. /\ handler[k] = Nil /\ events[k] # <<>> /\ e.new # Nil
        /\ handler' = [handler EXCEPT ![k] = h]
        /\ events' = [events EXCEPT ![k] = Tail(@)]
        /\ policies' = policies /\ internalNPs' = internalNPs
    BY <1>4, Zenon DEF ProcessPolicy, CreateGroups, listers
  <2>2. /\ e.obj \in Policies /\ e.new \in Specs /\ PolicyKind[e.obj] = k
        /\ e.old = Nil <=> internalNPs[e.obj] = Nil
    BY <2>1, Found, Zenon DEF PolicyEvent
  <2>3. h \in HandlerCall
    BY <2>2, Zenon DEF HandlerCall
  <2>4. handler'[k] = h /\ h # Nil /\ \A j \in PolicyKinds : j # k => handler'[j] = handler[j]
    BY <1>3, <2>1, <2>3, Zenon
  <2>5. ASSUME NEW q \in Policies
        PROVE  Known(q)' <=> IF e.obj = q THEN e.new # Nil ELSE Known(q)
    <3>1. CASE PolicyKind[q] # k
      BY <1>2, <2>1, <2>2, <2>4, <3>1, Zenon DEF Known, Creating
    <3>2. CASE PolicyKind[q] = k
      BY <2>1, <2>2, <2>4, <3>2 DEF Known, Creating
    <3> QED BY <3>1, <3>2, Zenon
  <2>6. EventsTyped' /\ Chain'
    BY <2>1, <2>5, ChainTail, Zenon
  <2>7. HandlerOK'
    BY <2>1, <2>2, <2>4 DEF PInv, HandlerOK
  <2> QED BY <2>6, <2>7, Zenon DEF PInv
<1>5. CASE CreateInternalNP(k)
  <2> DEFINE p == handler[k].key
             np == [appliedToGroups |-> handler[k].spec.appliedTo,
                    addressGroups |-> handler[k].spec.peers, span |-> {}]
  <2>1. /\ handler[k] # Nil /\ handler[k].step = "create"
        /\ handler' = [handler EXCEPT ![k] = Nil]
        /\ events' = events /\ policies' = policies
        /\ p \in Policies /\ handler[k].spec \in Specs
    BY <1>5, <1>1, Zenon DEF CreateInternalNP, listers, TypeOK, HandlerCall
  <2>2. PolicyKind[p] = k /\ internalNPs[p] = Nil
    BY <2>1, Zenon DEF PInv, HandlerOK
  <2>3. np \in InternalNP /\ np # Nil
    BY <2>1, Keys, ControllerAssumption DEF InternalNP
  <2>4. internalNPs' = [internalNPs EXCEPT ![p] = np]
    BY <1>5, <2>2, Zenon DEF CreateInternalNP
  <2>5. internalNPs'[p] # Nil /\ \A q \in Policies : q # p => internalNPs'[q] = internalNPs[q]
    BY <2>1, <2>3, <2>4, Zenon DEF TypeOK
  <2>6. handler'[k] = Nil /\ \A j \in PolicyKinds : j # k => handler'[j] = handler[j]
    BY <1>3, <2>1, Zenon
  <2>7. ASSUME NEW q \in Policies PROVE Known(q)' <=> Known(q)
    BY <1>2, <2>1, <2>2, <2>5, <2>6 DEF Known, Creating
  <2>8. Chain'
    BY <2>1, <2>7 DEF PInv, Chain, Linked, Queue
  <2>9. EventsTyped'
    BY <2>1, Zenon DEF PInv, EventsTyped
  <2>10. HandlerOK'
    BY <1>1, <2>2, <2>5, <2>6 DEF PInv, HandlerOK
  <2> QED BY <2>8, <2>9, <2>10, Zenon DEF PInv
<1>6. CASE UpdateInternalNP(k)
  <2> DEFINE p == handler[k].key
             np == [appliedToGroups |-> handler[k].spec.appliedTo,
                    addressGroups |-> handler[k].spec.peers,
                    span |-> internalNPs[p].span]
  <2>1. /\ handler[k] # Nil /\ handler[k].step = "update"
        /\ events' = events /\ policies' = policies
        /\ internalNPs' = [internalNPs EXCEPT ![p] = np]
        /\ p \in Policies /\ handler[k].spec \in Specs
    BY <1>6, <1>1, Zenon DEF UpdateInternalNP, CommitUpdate, listers, TypeOK, HandlerCall
  <2>2. PolicyKind[p] = k /\ internalNPs[p] # Nil
    BY <2>1, Zenon DEF PInv, HandlerOK
  <2>3. np # Nil
    <3>1. internalNPs[p].span \subseteq Nodes
      BY <2>1, <2>2, Zenon DEF TypeOK, InternalNP
    <3>2. np \in InternalNP
      BY <2>1, <3>1, Keys, Zenon DEF InternalNP
    <3> QED BY <3>2, ControllerAssumption, Zenon
  <2>4. \A q \in Policies : internalNPs'[q] = Nil <=> internalNPs[q] = Nil
    BY <2>1, <2>2, <2>3, Zenon DEF TypeOK
  <2>5. /\ handler'[k].step = "deref"
        /\ \A j \in PolicyKinds : j # k => handler'[j] = handler[j]
    BY <1>6, <1>3, Zenon DEF UpdateInternalNP, CommitUpdate
  <2>6. ASSUME NEW q \in Policies PROVE Known(q)' <=> Known(q)
    BY <1>2, <2>1, <2>4, <2>5, Zenon DEF Known, Creating
  <2>7. Chain'
    BY <2>1, <2>6 DEF PInv, Chain, Linked, Queue
  <2>8. EventsTyped'
    BY <2>1, Zenon DEF PInv, EventsTyped
  <2>9. HandlerOK'
    BY <1>1, <2>4, <2>5 DEF PInv, HandlerOK
  <2> QED BY <2>7, <2>8, <2>9, Zenon DEF PInv
<1>7. CASE DeleteInternalNP(k)
  <2> DEFINE p == Head(events[k]).obj
  <2>1. /\ handler[k] = Nil /\ events[k] # <<>> /\ Head(events[k]).new = Nil
        /\ events' = [events EXCEPT ![k] = Tail(@)] /\ policies' = policies
        /\ internalNPs' = [internalNPs EXCEPT ![p] = Nil]
    BY <1>7, Zenon DEF DeleteInternalNP, listers
  <2>2. p \in Policies /\ PolicyKind[p] = k
    BY <2>1, Found, Zenon DEF PolicyEvent
  <2>3. /\ handler'[k].step = "deref"
        /\ \A j \in PolicyKinds : j # k => handler'[j] = handler[j]
    BY <1>7, <1>3, Zenon DEF DeleteInternalNP
  <2>4. internalNPs'[p] = Nil /\ \A q \in Policies : q # p => internalNPs'[q] = internalNPs[q]
    BY <2>1, <2>2, Zenon DEF TypeOK
  <2>5. ASSUME NEW q \in Policies
        PROVE  Known(q)' <=> IF p = q THEN Head(events[k]).new # Nil ELSE Known(q)
    BY <1>2, <2>1, <2>2, <2>3, <2>4, Zenon DEF Known, Creating
  <2>6. EventsTyped' /\ Chain'
    BY <2>1, <2>5, ChainTail, Zenon
  <2>7. HandlerOK'
    BY <1>1, <2>2, <2>3, <2>4 DEF PInv, HandlerOK
  <2> QED BY <2>6, <2>7, Zenon DEF PInv
<1>8. CASE DeleteDereferencedGroups(k)
  <2>1. /\ handler[k].step = "deref"
        /\ handler' = [handler EXCEPT ![k] = Nil]
        /\ events' = events /\ policies' = policies /\ internalNPs' = internalNPs
    BY <1>8, Zenon DEF DeleteDereferencedGroups, DeleteGroups, listers
  <2>2. handler'[k] = Nil /\ \A j \in PolicyKinds : j # k => handler'[j] = handler[j]
    BY <1>3, <2>1, Zenon
  <2>3. ASSUME NEW q \in Policies PROVE Known(q)' <=> Known(q)
    BY <1>2, <2>1, <2>2, Zenon DEF Known, Creating
  <2>4. Chain'
    BY <2>1, <2>3 DEF PInv, Chain, Linked, Queue
  <2>5. EventsTyped'
    BY <2>1, Zenon DEF PInv, EventsTyped
  <2>6. HandlerOK'
    BY <2>1, <2>2, ZenonT(40) DEF PInv, HandlerOK
  <2> QED BY <2>4, <2>5, <2>6, Zenon DEF PInv
<1> QED BY <1>4, <1>5, <1>6, <1>7, <1>8, Zenon DEF HandlePolicy

(* A worker stores a policy only under a key that is in the store.          *)
LEMMA StoreKeeps ==
    ASSUME TypeOK, NEW p \in Policies, SyncInternalNPStore(p)
    PROVE  \A q \in Policies : internalNPs'[q] = Nil <=> internalNPs[q] = Nil
<1>1. [internalNetworkPolicySync[p].np EXCEPT
          !.span = internalNetworkPolicySync[p].span] \in InternalNP
  BY DEF SyncInternalNPStore, TypeOK, InternalNP
<1> QED BY <1>1, ControllerAssumption, Zenon DEF SyncInternalNPStore, TypeOK

LEMMA PStep ==
    ASSUME TypeOK, PInv, [Next]_vars PROVE TypeOK' /\ PInv'
<1>1. CASE ApiChange
  <2>1. ASSUME NEW m \in Members, NEW attr, ChangeMember(m, attr) PROVE PInv'
    <3>1. Kind[m] \in {"pod", "ee"}
      BY MembersAssumption, Zenon
    <3>2. \A k \in PolicyKinds : events'[k] = events[k]
      BY <2>1, <3>1, Keys, Zenon DEF ChangeMember, Notify, TypeOK
    <3> QED BY <2>1, <3>2, PFrame, Zenon DEF ChangeMember, stores
  <2>2. ASSUME NEW ns, NEW label, ChangeNamespace(ns, label) PROVE PInv'
    <3>1. \A k \in PolicyKinds : events'[k] = events[k]
      BY <2>2, Keys, Zenon DEF ChangeNamespace, Notify, TypeOK
    <3> QED BY <2>2, <3>1, PFrame, Zenon DEF ChangeNamespace, stores
  <2>3. PInv'
    BY <1>1, <2>1, <2>2, PAppend, Zenon DEF ApiChange
  <2> QED BY <1>1, <2>3, TypeApi, Zenon
<1>2. CASE HandlePodEvent \/ HandleExternalEntityEvent \/ HandleNamespaceEvent
  <2>1. \A k \in PolicyKinds : events'[k] = events[k]
    BY <1>2, Keys, Zenon DEF HandlePodEvent, HandleExternalEntityEvent, HandleNamespaceEvent,
                      TypeOK
  <2>2. handler' = handler /\ policies' = policies /\ internalNPs' = internalNPs
    BY <1>2, Zenon DEF HandlePodEvent, HandleExternalEntityEvent, HandleNamespaceEvent,
                listers, stores
  <2> QED BY <1>2, <2>1, <2>2, PFrame, TypeMember, Zenon
<1>3. CASE HandleNetworkPolicy \/ HandleCNP \/ HandleANP
  <2>1. PICK k \in PolicyKinds : HandlePolicy(k)
    BY <1>3, Zenon DEF HandleNetworkPolicy, HandleCNP, HandleANP, HandlePolicy
  <2> QED BY <2>1, TypePolicy, PPolicy, Zenon
<1>4. CASE Sync
  <2>1. handler' = handler /\ policies' = policies /\ events' = events
    BY <1>4, Zenon DEF Sync, SyncAppliedToGroupCompute, SyncAppliedToGroupStore,
                SyncAppliedToGroupEnqueue, SyncAddressGroupCompute,
                SyncAddressGroupStore, SyncInternalNPRead, SyncInternalNPStore, listers
  <2>2. \A q \in Policies : internalNPs'[q] = Nil <=> internalNPs[q] = Nil
    <3>1. CASE \E p \in Policies : SyncInternalNPStore(p)
      BY <3>1, StoreKeeps, Zenon
    <3>2. CASE ~ \E p \in Policies : SyncInternalNPStore(p)
      BY <1>4, <3>2, Zenon DEF Sync, SyncAppliedToGroupCompute, SyncAppliedToGroupStore,
                SyncAppliedToGroupEnqueue, SyncAddressGroupCompute,
                SyncAddressGroupStore, SyncInternalNPRead, stores
    <3> QED BY <3>1, <3>2, Zenon
  <2> QED BY <1>4, <2>1, <2>2, PFrame, TypeSync, Zenon
<1>5. CASE UNCHANGED vars
  <2>1. TypeOK'
    BY <1>5, Zenon DEF TypeOK, vars, listers, stores, queues, syncs, bounds
  <2>2. PInv'
    BY <1>5, PFrame, Zenon DEF vars, listers, stores
  <2> QED BY <2>1, <2>2, Zenon
<1> QED BY <1>1, <1>2, <1>3, <1>4, <1>5, Zenon DEF Next, Handle

(* The stores, the queues and the local state of handlers and workers       *)
(* always have their types.                                                 *)
THEOREM TypeCorrect == Spec => []TypeOK
<1>1. Init => TypeOK /\ PInv
  BY TypeInit, PInit, Zenon
<1>2. TypeOK /\ PInv /\ [Next]_vars => TypeOK' /\ PInv'
  BY PStep, Zenon
<1> QED BY <1>1, <1>2, PTL DEF Spec

(* updateNetworkPolicy and deleteNetworkPolicy (and those for CNPs and      *)
(* ANPs) use the result of internalNetworkPolicyStore.Get without looking   *)
(* at found: for any policies, re-created ones included, and any            *)
(* interleaving of handlers and workers, it is there.                       *)
THEOREM PolicyAlwaysFound == Spec => []HandlersFindTheirPolicy
<1>1. Init => TypeOK /\ PInv
  BY TypeInit, PInit, Zenon
<1>2. TypeOK /\ PInv /\ [Next]_vars => TypeOK' /\ PInv'
  BY PStep, Zenon
<1>3. TypeOK /\ PInv => HandlersFindTheirPolicy
  <2> SUFFICES ASSUME TypeOK, PInv, NEW k \in PolicyKinds
               PROVE  /\ handler[k] # Nil /\ handler[k].step = "update" =>
                            internalNPs[handler[k].key] # Nil
                      /\ handler[k] = Nil /\ events[k] # <<>> /\ Head(events[k]).new = Nil =>
                            internalNPs[Head(events[k]).obj] # Nil
    BY Zenon DEF HandlersFindTheirPolicy
  <2>1. handler[k] # Nil /\ handler[k].step = "update" => internalNPs[handler[k].key] # Nil
    BY Zenon DEF PInv, HandlerOK
  <2> QED BY <2>1, Found, Zenon
<1> QED BY <1>1, <1>2, <1>3, PTL DEF Spec

(* Whatever selectors the policies use, an object that processSelector      *)
(* lists for a group is found by labelsMatchGroupSelector.                  *)
THEOREM SelectorsAgree == Spec => []ListedIsMatched
<1>1. ASSUME NEW m \in Members, NEW label, NEW nsLabel, NEW sel,
             ProcessSelector(m, label, nsLabel, sel)
      PROVE  LabelsMatchGroupSelector(m, label, nsLabel, sel)
  BY <1>1, MembersAssumption, Zenon DEF ProcessSelector, LabelsMatchGroupSelector, Matches
<1>2. ListedIsMatched
  BY <1>1, Zenon DEF ListedIsMatched, Selected, AppliedToGroupsFor, AddressGroupsFor
<1> QED BY <1>2, PTL
=============================================================================
