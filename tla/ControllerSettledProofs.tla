----------------------- MODULE ControllerSettledProofs ----------------------
(* What the controller serves once nothing is pending: the members and the  *)
(* spans are those of the listers.                                          *)
EXTENDS ControllerStoreProofs, ControllerMembersProofs

(* What the steps of a policy handler leave alone, and that they only add   *)
(* to the queues.                                                           *)
LEMMA PolicyDue ==
    ASSUME TypeOK, NEW k \in PolicyKinds, HandlePolicy(k)
    PROVE  /\ members' = members /\ namespaces' = namespaces
           /\ syncs' = syncs
           /\ \A g : /\ AppliedToDue(g) => AppliedToDue(g)'
                     /\ AddressDue(g) => AddressDue(g)'
                     /\ AppliedToMembers(g)' = AppliedToMembers(g)
                     /\ AddressMembers(g)' = AddressMembers(g)
<1>1. members' = members /\ namespaces' = namespaces /\ syncs' = syncs
  BY Zenon DEF HandlePolicy, ProcessPolicy, CreateInternalNP, UpdateInternalNP, CommitUpdate,
         DeleteInternalNP, DeleteDereferencedGroups, DeleteGroups, listers
<1>2. \A j \in {"pod", "ee", "ns"} : events'[j] = events[j]
  BY Keys, ZenonT(40) DEF HandlePolicy, ProcessPolicy, CreateInternalNP, UpdateInternalNP, CommitUpdate,
              DeleteInternalNP, DeleteDereferencedGroups, DeleteGroups, TypeOK
<1>3. /\ appliedToGroupQueue \subseteq appliedToGroupQueue'
      /\ addressGroupQueue \subseteq addressGroupQueue'
  BY Zenon DEF HandlePolicy, ProcessPolicy, CreateGroups, EnqueueGroups, CreateInternalNP,
         UpdateInternalNP, CommitUpdate, DeleteInternalNP, DeleteDereferencedGroups,
         DeleteGroups, queues
<1>4. \A j \in {"pod", "ee", "ns"} : Kept(j)
  BY <1>2, KeptSame, Zenon
<1>5. \A g : /\ AppliedToDue(g) => AppliedToDue(g)'
             /\ AddressDue(g) => AddressDue(g)'
  BY <1>1, <1>3, <1>4, DueFrame, Zenon
<1> QED BY <1>1, <1>5, MembersFrame, Zenon

LEMMA RightPolicy ==
    ASSUME TypeOK, PInv, NoDanglingGroup, Right, NEW k \in PolicyKinds, HandlePolicy(k)
    PROVE  Right'
<1>1. /\ appliedToGroupSync' = appliedToGroupSync /\ addressGroupSync' = addressGroupSync
      /\ \A g : /\ AppliedToDue(g) => AppliedToDue(g)'
                /\ AddressDue(g) => AddressDue(g)'
                /\ AppliedToMembers(g)' = AppliedToMembers(g)
                /\ AddressMembers(g)' = AddressMembers(g)
  BY PolicyDue, Zenon DEF syncs
(* A new AppliedToGroup is enqueued. *)
<1>2. ASSUME NEW g \in AppliedToKeys PROVE AppliedToRight(g)'
  <2>1. CASE appliedToGroups'[g] = appliedToGroups[g] \/ appliedToGroups'[g] = Nil
    BY <1>1, <2>1, AppliedFrame, Zenon DEF Right
  <2>2. CASE ~ (appliedToGroups'[g] = appliedToGroups[g] \/ appliedToGroups'[g] = Nil)
    <3>1. ProcessPolicy(k)
      BY <2>2, Zenon DEF HandlePolicy, CreateInternalNP, UpdateInternalNP, CommitUpdate,
                  DeleteInternalNP, DeleteDereferencedGroups, DeleteGroups
    <3>2. g \in appliedToGroupQueue'
      BY <2>2, <3>1, Zenon DEF ProcessPolicy, CreateGroups, EnqueueGroups
    <3> QED BY <3>2, Zenon DEF AppliedToRight, AppliedToDue
  <2> QED BY <2>1, <2>2, Zenon
<1>3. ASSUME NEW g \in AddressKeys, addressGroups'[g] = addressGroups[g],
             \A p \in Policies : internalNPs'[p] # Nil =>
                \/ internalNPs'[p].span = {}
                \/ /\ internalNPs[p] # Nil /\ internalNPs'[p].span = internalNPs[p].span
                   /\ \/ internalNPs'[p].addressGroups = internalNPs[p].addressGroups
                      \/ g \in internalNPs'[p].addressGroups => g \in addressGroupQueue'
      PROVE  AddressRight(g)'
  <2>1. CASE g \in addressGroupQueue'
    BY <2>1, Zenon DEF AddressRight, AddressDue
  <2>2. CASE g \notin addressGroupQueue'
    <3>1. \A p \in AddressGroupReferrers(g)' :
              \/ internalNPs'[p].span = {}
              \/ p \in AddressGroupReferrers(g) /\ internalNPs'[p].span = internalNPs[p].span
      BY <1>3, <2>2, Zenon DEF AddressGroupReferrers
    <3> QED BY <1>1, <1>3, <3>1, AddressFrame, Zenon DEF Right
  <2> QED BY <2>1, <2>2, Zenon
(* A new AddressGroup has no referrers yet. *)
<1>4. ASSUME NEW g \in AddressKeys PROVE AddressRight(g)'
  <2>1. CASE ProcessPolicy(k)
    <3>1. internalNPs' = internalNPs
      BY <2>1, Zenon DEF ProcessPolicy, CreateGroups
    <3>2. CASE addressGroups[g] # Nil
      <4>1. addressGroups'[g] = addressGroups[g]
        BY <2>1, <3>2, Zenon DEF ProcessPolicy, CreateGroups
      <4> QED BY <1>3, <3>1, <4>1, Zenon
    <3>3. CASE addressGroups[g] = Nil
      <4>1. AddressGroupReferrers(g)' = {}
        BY <3>1, <3>3, Zenon DEF AddressGroupReferrers, NoDanglingGroup
      <4> QED BY <4>1, Zenon DEF AddressRight
    <3> QED BY <3>2, <3>3, Zenon
  <2>2. CASE CreateInternalNP(k)
    <3>1. addressGroups' = addressGroups
      BY <2>2, Zenon DEF CreateInternalNP
    <3>2. \A p \in Policies : internalNPs'[p] = internalNPs[p] \/ internalNPs'[p].span = {}
      BY <2>2, Zenon DEF CreateInternalNP, TypeOK
    <3> QED BY <1>3, <3>1, <3>2, Zenon
  <2>3. CASE UpdateInternalNP(k)
    <3>1. /\ handler[k].key \in Policies /\ internalNPs[handler[k].key] # Nil
          /\ addressGroups' = addressGroups
      <4>1. handler[k] # Nil /\ handler[k].step = "update" /\ addressGroups' = addressGroups
        BY <2>3, Zenon DEF UpdateInternalNP, CommitUpdate
      <4>2. handler[k].key \in Policies
        BY <4>1, Zenon DEF TypeOK, HandlerCall
      <4>3. internalNPs[handler[k].key] # Nil
        BY <4>1, Zenon DEF PInv, HandlerOK
      <4> QED BY <4>1, <4>2, <4>3, Zenon
    <3>2. \A p \in Policies :
              \/ internalNPs'[p] = internalNPs[p]
              \/ /\ internalNPs[p] # Nil /\ internalNPs'[p].span = internalNPs[p].span
                 /\ internalNPs'[p].addressGroups \subseteq addressGroupQueue'
      BY <2>3, <3>1 DEF UpdateInternalNP, CommitUpdate, TypeOK
    <3> QED BY <1>3, <3>1, <3>2, Zenon
  <2>4. CASE DeleteInternalNP(k)
    <3>1. addressGroups' = addressGroups
      BY <2>4, Zenon DEF DeleteInternalNP
    <3>2. \A p \in Policies : internalNPs'[p] = internalNPs[p] \/ internalNPs'[p] = Nil
      BY <2>4, Zenon DEF DeleteInternalNP, TypeOK
    <3> QED BY <1>3, <3>1, <3>2, Zenon
  <2>5. CASE DeleteDereferencedGroups(k)
    <3>1. /\ internalNPs' = internalNPs
          /\ addressGroups'[g] = addressGroups[g] \/ addressGroups'[g] = Nil
      BY <2>5, Zenon DEF DeleteDereferencedGroups, DeleteGroups
    <3>2. AddressGroupReferrers(g)' = AddressGroupReferrers(g)
      BY <3>1, Zenon DEF AddressGroupReferrers
    <3> QED BY <1>1, <3>1, <3>2, AddressFrame, Zenon DEF Right
  <2> QED BY <2>1, <2>2, <2>3, <2>4, <2>5, Zenon DEF HandlePolicy
<1> QED BY <1>2, <1>4, Zenon DEF Right

LEMMA RightSync ==
    ASSUME TypeOK, FInv, Right, Sync
    PROVE  Right'
<1>1. /\ members' = members /\ namespaces' = namespaces /\ events' = events
  BY Zenon DEF Sync, SyncAppliedToGroupCompute, SyncAppliedToGroupStore,
         SyncAppliedToGroupEnqueue, SyncAddressGroupCompute, SyncAddressGroupStore,
         SyncInternalNPRead, SyncInternalNPStore, listers
<1>2. \A g : /\ AppliedToMembers(g)' = AppliedToMembers(g)
             /\ AddressMembers(g)' = AddressMembers(g)
             /\ AppliedToDue(g) /\ (g \in appliedToGroupQueue => g \in appliedToGroupQueue')
                   => AppliedToDue(g)'
             /\ AddressDue(g) /\ (g \in addressGroupQueue => g \in addressGroupQueue')
                   => AddressDue(g)'
  <2>1. \A k \in {"pod", "ee", "ns"} : Kept(k)
    BY <1>1, KeptSame, Zenon
  <2> QED BY <1>1, <2>1, MembersFrame, DueFrame, Zenon
<1>3. ASSUME NEW g \in AppliedToKeys, g \in appliedToGroupQueue => g \in appliedToGroupQueue',
             appliedToGroups'[g] = appliedToGroups[g],
             appliedToGroupSync'[g] = appliedToGroupSync[g]
      PROVE  AppliedToRight(g)'
  BY <1>2, <1>3, AppliedFrame, Zenon DEF Right
<1>4. ASSUME NEW g \in AddressKeys, g \in addressGroupQueue => g \in addressGroupQueue',
             addressGroups'[g] = addressGroups[g], internalNPs' = internalNPs,
             addressGroupSync'[g] = addressGroupSync[g]
      PROVE  AddressRight(g)'
  <2>1. AddressGroupReferrers(g)' = AddressGroupReferrers(g)
    BY <1>4, Zenon DEF AddressGroupReferrers
  <2> QED BY <1>2, <1>4, <2>1, AddressFrame, Zenon DEF Right
<1>5. ASSUME NEW h \in AppliedToKeys, SyncAppliedToGroupCompute(h) PROVE Right'
  <2>1. AppliedToRight(h)'
    <3>1. CASE appliedToGroups[h] = Nil
      BY <1>5, <3>1, Zenon DEF SyncAppliedToGroupCompute, stores, AppliedToRight
    <3>2. CASE appliedToGroups[h] # Nil
      <4>1. appliedToGroupSync'[h] = [step |-> "store", members |-> AppliedToMembers(h)]
        BY <1>5, <3>2, Zenon DEF SyncAppliedToGroupCompute, TypeOK
      <4>2. [step |-> "store", members |-> AppliedToMembers(h)] # Nil
        BY MembersTyped, ControllerAssumption DEF AppliedToGroupCall
      <4> QED BY <1>2, <4>1, <4>2 DEF AppliedToRight
    <3> QED BY <3>1, <3>2, Zenon
  <2>2. ASSUME NEW g \in AppliedToKeys, g # h PROVE AppliedToRight(g)'
    BY <1>3, <1>5, <2>2 DEF SyncAppliedToGroupCompute, stores, TypeOK
  <2>3. ASSUME NEW g \in AddressKeys PROVE AddressRight(g)'
    BY <1>4, <1>5, Zenon DEF SyncAppliedToGroupCompute, stores
  <2> QED BY <2>1, <2>2, <2>3, Zenon DEF Right
<1>6. ASSUME NEW h \in AppliedToKeys, SyncAppliedToGroupStore(h) PROVE Right'
  <2>1. AppliedToRight(h)'
    <3>1. CASE appliedToGroups[h] = Nil
      BY <1>6, <3>1, Zenon DEF SyncAppliedToGroupStore, AppliedToRight
    <3>2. CASE appliedToGroups[h] # Nil
      <4>1. /\ appliedToGroupSync[h] # Nil /\ appliedToGroupSync[h].step = "store"
            /\ appliedToGroupSync'[h].step # "store"
            /\ appliedToGroups'[h].members = appliedToGroupSync[h].members
            /\ appliedToGroupQueue' = appliedToGroupQueue
        BY <1>6, <3>2 DEF SyncAppliedToGroupStore, TypeOK, AppliedToGroup, queues
      <4> QED BY <1>2, <3>2, <4>1, Zenon DEF AppliedToRight, Right
    <3> QED BY <3>1, <3>2, Zenon
  <2>2. ASSUME NEW g \in AppliedToKeys, g # h PROVE AppliedToRight(g)'
    <3>1. /\ appliedToGroups'[g] = appliedToGroups[g]
          /\ appliedToGroupSync'[g] = appliedToGroupSync[g]
          /\ appliedToGroupQueue' = appliedToGroupQueue
      BY <1>6, <2>2, Zenon DEF SyncAppliedToGroupStore, queues, TypeOK
    <3> QED BY <1>3, <3>1, Zenon
  <2>3. ASSUME NEW g \in AddressKeys PROVE AddressRight(g)'
    BY <1>4, <1>6, Zenon DEF SyncAppliedToGroupStore, queues
  <2> QED BY <2>1, <2>2, <2>3, Zenon DEF Right
<1>7. ASSUME NEW h \in AppliedToKeys, SyncAppliedToGroupEnqueue(h) PROVE Right'
  <2>1. /\ appliedToGroups' = appliedToGroups /\ addressGroups' = addressGroups
        /\ internalNPs' = internalNPs /\ addressGroupSync' = addressGroupSync
        /\ appliedToGroupQueue' = appliedToGroupQueue /\ addressGroupQueue' = addressGroupQueue
        /\ appliedToGroupSync[h].step = "enqueue" /\ appliedToGroupSync'[h] = Nil
        /\ \A g \in AppliedToKeys : g # h => appliedToGroupSync'[g] = appliedToGroupSync[g]
    BY <1>7, Zenon DEF SyncAppliedToGroupEnqueue, stores, TypeOK
  <2>2. AppliedToRight(h)'
    BY <1>2, <2>1, Zenon DEF AppliedToRight, Right
  <2> QED BY <1>3, <1>4, <2>1, <2>2, Zenon DEF Right
<1>8. ASSUME NEW h \in AddressKeys, SyncAddressGroupCompute(h) PROVE Right'
  <2>1. /\ appliedToGroups' = appliedToGroups /\ addressGroups' = addressGroups
        /\ internalNPs' = internalNPs /\ appliedToGroupSync' = appliedToGroupSync
        /\ appliedToGroupQueue' = appliedToGroupQueue
        /\ \A g \in AddressKeys : g # h =>
              /\ addressGroupSync'[g] = addressGroupSync[g]
              /\ g \in addressGroupQueue => g \in addressGroupQueue'
    BY <1>8, Zenon DEF SyncAddressGroupCompute, stores, TypeOK
  <2>2. AddressRight(h)'
    <3>1. CASE addressGroups[h] = Nil
      BY <2>1, <3>1, Zenon DEF AddressRight
    <3>2. CASE addressGroups[h] # Nil
      <4>1. /\ addressGroupSync'[h].members = AddressMembers(h)
            /\ addressGroupSync' = [addressGroupSync EXCEPT ![h] = addressGroupSync'[h]]
        BY <1>8, <3>2, Zenon DEF SyncAddressGroupCompute, TypeOK
      <4>2. addressGroupSync'[h] # Nil
        <5>1. UNION {internalNPs[p].span : p \in AddressGroupReferrers(h)} \subseteq Nodes
          BY Zenon DEF AddressGroupReferrers, TypeOK, InternalNP
        <5>2. addressGroupSync'[h] \in AddressGroup
          BY <1>8, <3>2, <5>1, MembersTyped DEF SyncAddressGroupCompute, TypeOK, AddressGroup
        <5> QED BY <5>2, ControllerAssumption, Zenon
      <4> QED BY <1>2, <4>1, <4>2, Zenon DEF AddressRight, AddressWritten
    <3> QED BY <3>1, <3>2, Zenon
  <2> QED BY <1>3, <1>4, <2>1, <2>2, Zenon DEF Right
<1>9. ASSUME NEW h \in AddressKeys, SyncAddressGroupStore(h) PROVE Right'
  <2>1. /\ appliedToGroups' = appliedToGroups /\ internalNPs' = internalNPs
        /\ appliedToGroupSync' = appliedToGroupSync
        /\ appliedToGroupQueue' = appliedToGroupQueue /\ addressGroupQueue' = addressGroupQueue
        /\ \A g \in AddressKeys : g # h =>
              /\ addressGroups'[g] = addressGroups[g]
              /\ addressGroupSync'[g] = addressGroupSync[g]
    BY <1>9, Zenon DEF SyncAddressGroupStore, queues, TypeOK
  <2>2. AddressRight(h)'
    <3>1. /\ addressGroupSync[h] # Nil /\ addressGroupSync'[h] = Nil
          /\ addressGroups'[h] = IF addressGroups[h] = Nil THEN Nil ELSE addressGroupSync[h]
      BY <1>9, Zenon DEF SyncAddressGroupStore, TypeOK
    <3>2. AddressGroupReferrers(h)' = AddressGroupReferrers(h)
      BY <2>1, Zenon DEF AddressGroupReferrers
    <3> QED BY <1>2, <2>1, <3>1, <3>2, Zenon DEF AddressRight, AddressWritten, Right
  <2> QED BY <1>3, <1>4, <2>1, <2>2, Zenon DEF Right
<1>10. ASSUME NEW p \in Policies, SyncInternalNPRead(p) PROVE Right'
  BY <1>3, <1>4, <1>10, Zenon DEF SyncInternalNPRead, stores, Right
(* A new span: the AddressGroups of the policy are enqueued. *)
<1>11. ASSUME NEW p \in Policies, SyncInternalNPStore(p) PROVE Right'
  <2>1. /\ appliedToGroups' = appliedToGroups /\ addressGroups' = addressGroups
        /\ appliedToGroupSync' = appliedToGroupSync /\ addressGroupSync' = addressGroupSync
        /\ appliedToGroupQueue' = appliedToGroupQueue
        /\ addressGroupQueue \subseteq addressGroupQueue'
        /\ \A q \in Policies : q # p => internalNPs'[q] = internalNPs[q]
        /\ internalNPs[p] = Nil => internalNPs'[p] = Nil
    BY <1>11 DEF SyncInternalNPStore, TypeOK
  <2>2. internalNPs[p] # Nil =>
            /\ internalNPs'[p].addressGroups = internalNPs[p].addressGroups
            /\ \/ internalNPs'[p].span = internalNPs[p].span
               \/ internalNPs[p].addressGroups \subseteq addressGroupQueue'
    <3>1. SyncCurrent(p)
      BY Zenon DEF FInv
    <3> QED BY <1>11, <3>1 DEF SyncInternalNPStore, SyncCurrent, TypeOK, InternalNP
  <2>3. ASSUME NEW g \in AddressKeys PROVE AddressRight(g)'
    <3>1. CASE g \in addressGroupQueue'
      BY <3>1, Zenon DEF AddressRight, AddressDue
    <3>2. CASE g \notin addressGroupQueue'
      <4>1. \A q \in AddressGroupReferrers(g)' :
                q \in AddressGroupReferrers(g) /\ internalNPs'[q].span = internalNPs[q].span
        BY <2>1, <2>2, <3>2, Zenon DEF AddressGroupReferrers
      <4> QED BY <1>2, <2>1, <4>1, AddressFrame, Zenon DEF Right
    <3> QED BY <3>1, <3>2, Zenon
  <2> QED BY <1>3, <2>1, <2>3, Zenon DEF Right
<1> QED BY <1>5, <1>6, <1>7, <1>8, <1>9, <1>10, <1>11 DEF Sync

LEMMA RightStep ==
    ASSUME AppliedToWithoutNamespaces, TypeOK, PInv, FInv, NoDanglingGroup,
           MemberEvents, Right, [Next]_vars
    PROVE  Right'
<1>1. CASE HandleNetworkPolicy \/ HandleCNP \/ HandleANP
  <2>1. PICK k \in PolicyKinds : HandlePolicy(k)
    BY <1>1, Zenon DEF HandleNetworkPolicy, HandleCNP, HandleANP, HandlePolicy
  <2> QED BY <2>1, RightPolicy, Zenon
<1>2. CASE UNCHANGED vars
  <2>1. /\ members' = members /\ namespaces' = namespaces /\ events' = events
        /\ stores' = stores /\ syncs' = syncs /\ appliedToGroupQueue' = appliedToGroupQueue
        /\ addressGroupQueue' = addressGroupQueue
    BY <1>2, Zenon DEF vars, listers, queues
  <2>2. \A k \in {"pod", "ee", "ns"} : Kept(k)
    BY <2>1, KeptSame, Zenon
  <2>3. \A g : /\ AppliedToDue(g) => AppliedToDue(g)'
               /\ AddressDue(g) => AddressDue(g)'
    BY <2>1, <2>2, DueFrame, Zenon
  <2> QED BY <2>1, <2>3, MembersFrame, RightFrame, Zenon
<1> QED BY <1>1, <1>2, RightApi, RightHandler, RightSync DEF Next, Handle
-----------------------------------------------------------------------------
SInv == MemberEvents /\ Right /\ Spans /\ Held

LEMMA SInit == Init => SInv
<1> SUFFICES ASSUME Init PROVE SInv
  BY Zenon
<1>1. MemberEvents
  BY DEF Init, MemberEvents
<1>2. Right
  BY Zenon DEF Init, Right, AppliedToRight, AddressRight
<1>3. Spans
  BY Zenon DEF Init, Spans, SpanRight, Reached
<1>4. Held
  BY Zenon DEF Init, Held
<1> QED BY <1>1, <1>2, <1>3, <1>4, Zenon DEF SInv

(* The whole inductive invariant of the controller.                         *)
CInv == TypeOK /\ PInv /\ FInv /\ DInv /\ SInv

LEMMA CInductive ==
    ASSUME OneInformer, MaxCreations = 1, AppliedToWithoutNamespaces
    PROVE  /\ Init => CInv
           /\ CInv /\ [Next]_vars => CInv'
<1>1. Init => CInv
  BY TypeInit, PInit, FInit, DInit, SInit DEF CInv
<1>2. CInv /\ [Next]_vars => CInv'
  <2> SUFFICES ASSUME CInv, [Next]_vars PROVE CInv'
    BY Zenon
  <2>1. TypeOK /\ PInv /\ FInv /\ DInv /\ NoDanglingGroup
    BY Zenon DEF CInv, DInv
  <2>2. MemberEvents /\ Right /\ Spans /\ Held
    BY Zenon DEF CInv, SInv
  <2>3. TypeOK' /\ PInv' /\ FInv' /\ DInv'
    BY <2>1, PStep, FStep, DStep, Zenon
  <2>4. MemberEvents' /\ Right' /\ Spans' /\ Held'
    BY <2>1, <2>2, EventsMembers, RightStep, SpansStep, HeldStep, Zenon
  <2> QED BY <2>3, <2>4, Zenon DEF CInv, SInv
<1> QED BY <1>1, <1>2, Zenon

(* What the invariant says of a policy when nothing is pending.             *)
LEMMA AtRest ==
    ASSUME CInv, Quiescent, NEW p \in Policies, policies[p] # Nil
    PROVE  /\ internalNPs[p] # Nil
           /\ internalNPs[p].appliedToGroups = policies[p].appliedTo
           /\ internalNPs[p].addressGroups = policies[p].peers
           /\ internalNPs[p].span = AppliedToSpan(policies[p].appliedTo)
           /\ \A g \in policies[p].appliedTo :
                 /\ g \in AppliedToKeys /\ appliedToGroups[g] # Nil
                 /\ appliedToGroups[g].members = AppliedToMembers(g)
           /\ \A g \in policies[p].peers :
                 /\ internalNPs[p].span \subseteq addressGroups[g].span
                 /\ internalNPs[p].span # {} =>
                       addressGroups[g].members = AddressMembers(g)
<1>1. Stored(p)
  <2>1. TypeOK /\ FInv
    BY Zenon DEF CInv
  <2>2. Queue(p) = <<>> /\ handler[PolicyKind[p]] = Nil
    BY <2>1, Keys, Zenon DEF Quiescent, Queue, TypeOK
  <2>3. \A i \in Nat : ~ EventOf(p, i)
    BY <2>2 DEF EventOf
  <2> QED BY <2>1, <2>2, <2>3, Zenon DEF FInv, Latest, HandlerOn
<1>2. /\ internalNPs[p] # Nil
      /\ internalNPs[p].appliedToGroups = policies[p].appliedTo
      /\ internalNPs[p].addressGroups = policies[p].peers
  BY <1>1, Zenon DEF Stored
<1>3. /\ policies[p].appliedTo \subseteq AppliedToKeys
      /\ policies[p].peers \subseteq AddressKeys
  <2>1. policies[p] \in Specs
    BY Zenon DEF CInv, TypeOK
  <2> QED BY <2>1, Keys, Zenon
<1>4. /\ \A g \in policies[p].appliedTo : appliedToGroups[g] # Nil
      /\ \A g \in policies[p].peers : addressGroups[g] # Nil
  BY <1>2, Zenon DEF CInv, DInv, NoDanglingGroup
<1>5. \A k \in {"pod", "ee", "ns"} : events[k] = <<>>
  BY Zenon DEF CInv, TypeOK, Quiescent
<1>6. \A g : ~ AppliedToDue(g) /\ ~ AddressDue(g)
  BY <1>5 DEF Quiescent, AppliedToDue, AddressDue
<1>7. /\ p \notin internalNetworkPolicyQueue /\ internalNetworkPolicySync[p] = Nil
      /\ addressGroupQueue = {}
      /\ \A g \in AppliedToKeys : appliedToGroupSync[g] = Nil
      /\ \A g \in AddressKeys : addressGroupSync[g] = Nil
  BY <1>2, Zenon DEF Quiescent
<1>8. internalNPs[p].span = AppliedToSpan(policies[p].appliedTo)
  BY <1>2, <1>3, <1>7, Zenon DEF CInv, SInv, Spans, SpanRight
<1>9. \A g \in policies[p].appliedTo : appliedToGroups[g].members = AppliedToMembers(g)
  BY <1>3, <1>4, <1>6, <1>7, Zenon DEF CInv, SInv, Right, AppliedToRight
<1>10. ASSUME NEW g \in policies[p].peers
       PROVE  /\ internalNPs[p].span \subseteq addressGroups[g].span
              /\ internalNPs[p].span # {} => addressGroups[g].members = AddressMembers(g)
  <2>1. g \in AddressKeys /\ AddressWritten(g) = addressGroups[g]
    BY <1>3, <1>7, Zenon DEF AddressWritten
  <2>2. internalNPs[p].span \subseteq addressGroups[g].span
    BY <1>2, <1>7, <2>1, Zenon DEF CInv, SInv, Spans, Reached
  <2>3. p \in AddressGroupReferrers(g)
    BY <1>2, Zenon DEF AddressGroupReferrers
  <2> QED BY <1>4, <1>6, <2>1, <2>2, <2>3 DEF CInv, SInv, Right, AddressRight
<1> QED BY <1>2, <1>3, <1>4, <1>8, <1>9, <1>10, Zenon

(* Once nothing is pending, a policy is sent to exactly the Nodes of the    *)
(* objects that it is applied to, and every Node that receives it receives  *)
(* its AddressGroups: syncAppliedToGroup enqueues the policies after it     *)
(* stored the members, syncInternalNetworkPolicy the AddressGroups when the *)
(* span is new, and no order of workers and handlers loses either.          *)
THEOREM SpansAreReached ==
    ASSUME OneInformer, MaxCreations = 1, AppliedToWithoutNamespaces
    PROVE  Spec => []SpansReach
<1>1. CInv => SpansReach
  <2> SUFFICES ASSUME CInv, Quiescent, NEW p \in Policies, policies[p] # Nil
               PROVE  /\ internalNPs[p].span =
                            UNION {NodesOf(AppliedToMembers(g)) : g \in policies[p].appliedTo}
                      /\ \A g \in policies[p].peers :
                            internalNPs[p].span \subseteq addressGroups[g].span
    BY Zenon DEF SpansReach, SpanIsWhereApplied, AddressGroupsReachSpan
  <2>1. {a \in policies[p].appliedTo : appliedToGroups[a] # Nil} = policies[p].appliedTo
    BY AtRest, Zenon
  <2>2. \A g \in policies[p].appliedTo :
            NodesOf(appliedToGroups[g].members) = NodesOf(AppliedToMembers(g))
    BY AtRest, Zenon
  <2>3. AppliedToSpan(policies[p].appliedTo) =
            UNION {NodesOf(AppliedToMembers(g)) : g \in policies[p].appliedTo}
    BY <2>1, <2>2, Zenon DEF AppliedToSpan
  <2> QED BY <2>3, AtRest, Zenon
<1> QED BY <1>1, CInductive, PTL DEF Spec

(* Once nothing is pending, the groups of every policy hold the members     *)
(* that their selectors select now, where the members are needed, and no    *)
(* group is left that no policy refers to: the event handlers enqueue every *)
(* group whose members change (updatePod, updateExternalEntity,             *)
(* updateNamespace), and the policy handlers delete what they dereference.  *)
THEOREM GroupsAreSettled ==
    ASSUME OneInformer, MaxCreations = 1, AppliedToWithoutNamespaces
    PROVE  Spec => []GroupsSettled
<1>1. CInv => GroupsSettled
  <2> SUFFICES ASSUME CInv, Quiescent PROVE GroupsUpToDate /\ NoLeakedGroup
    BY Zenon DEF GroupsSettled, GroupsUpToDate, NoLeakedGroup
  <2>1. GroupsUpToDate
    BY AtRest, Zenon DEF GroupsUpToDate
  <2>2. \A k \in PolicyKinds : handler[k] = Nil
    BY Zenon DEF Quiescent
  <2>3. NoLeakedGroup
    BY <2>2, Zenon DEF CInv, SInv, Held, AppliedToHeld, AddressHeld, NoLeakedGroup,
                AppliedToGroupReferrers, AddressGroupReferrers
  <2> QED BY <2>1, <2>3, Zenon
<1> QED BY <1>1, CInductive, PTL DEF Spec
=============================================================================
