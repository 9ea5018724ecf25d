----------------------- MODULE ControllerMembersProofs ----------------------
(* Changes of objects and Namespaces reach the groups: of each group, what  *)
(* is stored is right, or about to be stored, or a queue or a pending event *)
(* makes sure that it is computed again.  Here the steps of the API and of  *)
(* the handlers of members and Namespaces; those of policy handlers and     *)
(* workers are in ControllerSettledProofs.                                  *)
EXTENDS ControllerPolicyProofs

(* HandleNamespaceEvent does not look up AppliedToGroups: one that selects  *)
(* Namespaces is not computed again when they change.                       *)
AppliedToWithoutNamespaces == \A g \in AppliedToKeys : g.nsSelector = Nil

(* Whether the selector of group g matches an object with attributes attr.  *)
InGroup(m, attr, g) ==
    LabelsMatchGroupSelector(m, attr.label, namespaces[NsOf[m]], g)

(* Whether the handler of a member event enqueues g; moved says that the    *)
(* change is one that concerns every group of the object.                   *)
Hits(e, g, moved) ==
    IF e.old = Nil THEN InGroup(e.obj, e.new, g)
    ELSE IF e.new = Nil THEN InGroup(e.obj, e.old, g)
    ELSE IF moved THEN InGroup(e.obj, e.old, g) \/ InGroup(e.obj, e.new, g)
    ELSE ~ (InGroup(e.obj, e.old, g) <=> InGroup(e.obj, e.new, g))

AppliedToHit(e, g) == Hits(e, g, e.old.addr # e.new.addr \/ e.old.node # e.new.node)

AddressHit(k, e, g) ==
    Hits(e, g, e.old.addr # e.new.addr \/ (k = "ee" /\ e.old.node # e.new.node))

NamespaceHit(e, g) ==
    /\ g.namespace = Nil
    /\ ~ (Matches(g.nsSelector, e.old) <=> Matches(g.nsSelector, e.new))

(* The group is waiting in its queue, or a pending event will put it there. *)
AppliedToDue(g) ==
    \/ g \in appliedToGroupQueue
    \/ \E k \in {"pod", "ee"} : \E i \in 1 .. Len(events[k]) : AppliedToHit(events[k][i], g)

AddressDue(g) ==
    \/ g \in addressGroupQueue
    \/ \E k \in {"pod", "ee"} : \E i \in 1 .. Len(events[k]) : AddressHit(k, events[k][i], g)
    \/ \E i \in 1 .. Len(events["ns"]) : NamespaceHit(events["ns"][i], g)

(* Otherwise its members are right in the store, or about to be stored.     *)
AppliedToRight(g) ==
    appliedToGroups[g] # Nil =>
        \/ AppliedToDue(g)
        \/ AppliedToMembers(g) =
              IF appliedToGroupSync[g] # Nil /\ appliedToGroupSync[g].step = "store"
              THEN appliedToGroupSync[g].members ELSE appliedToGroups[g].members

AddressRight(g) ==
    addressGroups[g] # Nil =>
        \/ AddressDue(g)
        \/ \A p \in AddressGroupReferrers(g) : internalNPs[p].span = {}
        \/ AddressMembers(g) = AddressWritten(g).members

MemberEvents ==
    \A k \in {"pod", "ee"} : \A i \in 1 .. Len(events[k]) : events[k][i].obj \in Members

(* The pending events of informer k stay.                                   *)
Kept(k) == \A i \in 1 .. Len(events[k]) : \E j \in 1 .. Len(events'[k]) :
               events'[k][j] = events[k][i]
-----------------------------------------------------------------------------
(* labelsMatchGroupSelector and processSelector look at the labels of an    *)
(* object, and of its Namespace, in the same way.                           *)
LEMMA SameLabels ==
    ASSUME NEW m \in Members, NEW a, NEW b, NEW n, NEW g,
           LabelsMatchGroupSelector(m, a, n, g) <=> LabelsMatchGroupSelector(m, b, n, g)
    PROVE  ProcessSelector(m, a, n, g) <=> ProcessSelector(m, b, n, g)
BY MembersAssumption DEF ProcessSelector, LabelsMatchGroupSelector, Matches

LEMMA Listed ==
    ASSUME NEW m \in Members, NEW a, NEW n, NEW g, ProcessSelector(m, a, n, g)
    PROVE  LabelsMatchGroupSelector(m, a, n, g)
BY MembersAssumption, Zenon DEF ProcessSelector, LabelsMatchGroupSelector, Matches

LEMMA SameNamespace ==
    ASSUME NEW m, NEW a, NEW n, NEW o, NEW g,
           \/ g.namespace # Nil \/ g.nsSelector = Nil
           \/ Matches(g.nsSelector, n) <=> Matches(g.nsSelector, o)
    PROVE  /\ LabelsMatchGroupSelector(m, a, n, g) <=> LabelsMatchGroupSelector(m, a, o, g)
           /\ ProcessSelector(m, a, n, g) <=> ProcessSelector(m, a, o, g)
BY Zenon DEF ProcessSelector, LabelsMatchGroupSelector, Matches

(* The members of a group are the same when the same objects are listed and *)
(* the addresses and Nodes of those have not changed.                       *)
LEMMA SameApplied ==
    ASSUME NEW g, Selected(g)' = Selected(g),
           \A m \in Selected(g) : /\ members'[m].addr = members[m].addr
                                  /\ members'[m].node = members[m].node
    PROVE  AppliedToMembers(g)' = AppliedToMembers(g)
<1>1. {s \in Selected(g) : members[s].node # Nil}'
         = {s \in Selected(g) : members[s].node # Nil}
  BY Zenon
<1> QED BY <1>1, Zenon DEF AppliedToMembers

LEMMA SameAddresses ==
    ASSUME NEW g, Selected(g)' = Selected(g),
           \A m \in Selected(g) : members'[m].addr = members[m].addr
    PROVE  AddressMembers(g)' = AddressMembers(g)
<1>1. {s \in Selected(g) : Kind[s] = "pod" => members[s].addr # Nil}'
         = {s \in Selected(g) : Kind[s] = "pod" => members[s].addr # Nil}
  BY Zenon
<1> QED BY <1>1, Zenon DEF AddressMembers

(* A change of an object changes the members of a group only if its event   *)
(* hits the group.                                                          *)
LEMMA MemberChange ==
    ASSUME TypeOK, NEW m \in Members, NEW attr \in Attributes \cup {Nil},
           ChangeMember(m, attr), NEW g, NEW e,
           e = [obj |-> m, old |-> members[m], new |-> attr]
    PROVE  /\ AppliedToHit(e, g) \/ AppliedToMembers(g)' = AppliedToMembers(g)
           /\ AddressHit(Kind[m], e, g) \/ AddressMembers(g)' = AddressMembers(g)
<1> DEFINE n == namespaces[NsOf[m]]
           old == members[m]
           In(a) == a # Nil /\ ProcessSelector(m, a.label, n, g)
<1>1. /\ members' = [members EXCEPT ![m] = attr] /\ namespaces' = namespaces
      /\ members'[m] = attr /\ \A s \in Members : s # m => members'[s] = members[s]
  BY Zenon DEF ChangeMember, TypeOK
<1>2. e.obj = m /\ e.old = old /\ e.new = attr
  BY Zenon
<1>3. \A a : In(a) => InGroup(m, a, g)
  BY Listed, Zenon DEF InGroup
<1>4. ASSUME old # Nil, attr # Nil, InGroup(m, old, g) <=> InGroup(m, attr, g)
      PROVE  In(old) <=> In(attr)
  BY <1>4, SameLabels, Zenon DEF InGroup
<1>5. ASSUME NEW moved, ~ Hits(e, g, moved)
      PROVE  /\ In(old) <=> In(attr)
             /\ In(old) => ~ moved
  <2>1. CASE old = Nil
    BY <1>2, <1>3, <1>5, <2>1, Zenon DEF Hits
  <2>2. CASE old # Nil /\ attr = Nil
    BY <1>2, <1>3, <1>5, <2>2, Zenon DEF Hits
  <2>3. CASE old # Nil /\ attr # Nil
    BY <1>2, <1>3, <1>4, <1>5, <2>3, Zenon DEF Hits
  <2> QED BY <2>1, <2>2, <2>3, Zenon
<1>6. ASSUME In(old) <=> In(attr)
      PROVE  Selected(g)' = Selected(g) /\ (m \in Selected(g) => In(old))
  BY <1>1, <1>6, Zenon DEF Selected
<1>7. ASSUME ~ AppliedToHit(e, g) PROVE AppliedToMembers(g)' = AppliedToMembers(g)
  <2>1. (In(old) <=> In(attr)) /\ (In(old) => old.addr = attr.addr /\ old.node = attr.node)
    BY <1>2, <1>5, <1>7, Zenon DEF AppliedToHit
  <2>2. Selected(g)' = Selected(g) /\ (m \in Selected(g) => In(old))
    BY <1>6, <2>1, Zenon
  <2>3. \A s \in Selected(g) : /\ members'[s].addr = members[s].addr
                               /\ members'[s].node = members[s].node
    BY <1>1, <2>1, <2>2, Zenon DEF Selected
  <2> QED BY <2>2, <2>3, SameApplied, Zenon
<1>8. ASSUME ~ AddressHit(Kind[m], e, g) PROVE AddressMembers(g)' = AddressMembers(g)
  <2>1. (In(old) <=> In(attr)) /\ (In(old) => old.addr = attr.addr)
    BY <1>2, <1>5, <1>8, Zenon DEF AddressHit
  <2>2. Selected(g)' = Selected(g) /\ (m \in Selected(g) => In(old))
    BY <1>6, <2>1, Zenon
  <2>3. \A s \in Selected(g) : members'[s].addr = members[s].addr
    BY <1>1, <2>1, <2>2, Zenon DEF Selected
  <2> QED BY <2>2, <2>3, SameAddresses, Zenon
<1> QED BY <1>7, <1>8, Zenon

(* A change of a Namespace changes neither the members of a group nor which *)
(* events hit it, unless its own event does.                                *)
LEMMA NamespaceChange ==
    ASSUME TypeOK, NEW ns \in Namespaces, NEW label, ChangeNamespace(ns, label),
           NEW g, g.namespace # Nil \/ g.nsSelector = Nil
                  \/ (Matches(g.nsSelector, namespaces[ns]) <=> Matches(g.nsSelector, label))
    PROVE  /\ AppliedToMembers(g)' = AppliedToMembers(g)
           /\ AddressMembers(g)' = AddressMembers(g)
           /\ \A e : e.obj \in Members => /\ AppliedToHit(e, g)' <=> AppliedToHit(e, g)
                                          /\ \A k : AddressHit(k, e, g)' <=> AddressHit(k, e, g)
<1>1. /\ members' = members /\ namespaces'[ns] = label
      /\ \A o \in Namespaces : o # ns => namespaces'[o] = namespaces[o]
  BY Zenon DEF ChangeNamespace, TypeOK
<1>2. ASSUME NEW m \in Members, NEW l
      PROVE  /\ LabelsMatchGroupSelector(m, l, namespaces'[NsOf[m]], g)
                   <=> LabelsMatchGroupSelector(m, l, namespaces[NsOf[m]], g)
             /\ ProcessSelector(m, l, namespaces'[NsOf[m]], g)
                   <=> ProcessSelector(m, l, namespaces[NsOf[m]], g)
  <2>1. NsOf[m] \in Namespaces
    BY MembersAssumption, Zenon
  <2>2. \/ g.namespace # Nil \/ g.nsSelector = Nil
        \/ (Matches(g.nsSelector, namespaces'[NsOf[m]])
               <=> Matches(g.nsSelector, namespaces[NsOf[m]]))
    BY <1>1, <2>1, Zenon
  <2> QED BY <2>2, SameNamespace, Zenon
<1>3. Selected(g)' = Selected(g)
  BY <1>1, <1>2, Zenon DEF Selected
<1>4. AppliedToMembers(g)' = AppliedToMembers(g) /\ AddressMembers(g)' = AddressMembers(g)
  BY <1>1, <1>3, SameApplied, SameAddresses, Zenon
<1>5. \A m \in Members : \A a : InGroup(m, a, g)' <=> InGroup(m, a, g)
  BY <1>2, Zenon DEF InGroup
<1>6. ASSUME NEW e, e.obj \in Members
      PROVE  \A moved : Hits(e, g, moved)' <=> Hits(e, g, moved)
  BY <1>5, <1>6, Zenon DEF Hits
<1> QED BY <1>4, <1>6, Zenon DEF AppliedToHit, AddressHit

-----------------------------------------------------------------------------
(* A group that is due stays due while no event is handled.                 *)
LEMMA DueFrame ==
    ASSUME namespaces' = namespaces, NEW g, \A k \in {"pod", "ee", "ns"} : Kept(k)
    PROVE  /\ AppliedToDue(g) /\ (g \in appliedToGroupQueue => g \in appliedToGroupQueue')
                 => AppliedToDue(g)'
           /\ AddressDue(g) /\ (g \in addressGroupQueue => g \in addressGroupQueue')
                 => AddressDue(g)'
<1>1. \A e : /\ AppliedToHit(e, g)' <=> AppliedToHit(e, g)
             /\ \A k : AddressHit(k, e, g)' <=> AddressHit(k, e, g)
             /\ NamespaceHit(e, g)' <=> NamespaceHit(e, g)
  BY DEF AppliedToHit, AddressHit, NamespaceHit, Hits, InGroup
<1>2. ASSUME AppliedToDue(g), g \in appliedToGroupQueue => g \in appliedToGroupQueue'
      PROVE  AppliedToDue(g)'
  BY <1>1, <1>2 DEF AppliedToDue, Kept
<1>3. ASSUME AddressDue(g), g \in addressGroupQueue => g \in addressGroupQueue'
      PROVE  AddressDue(g)'
  <2>1. CASE g \in addressGroupQueue
    BY <1>3, <2>1, Zenon DEF AddressDue
  <2>2. CASE \E k \in {"pod", "ee"} : \E i \in 1 .. Len(events[k]) :
                 AddressHit(k, events[k][i], g)
    <3>0. PICK k \in {"pod", "ee"} :
              \E i \in 1 .. Len(events[k]) : AddressHit(k, events[k][i], g)
      BY <2>2, Zenon
    <3>1. PICK i \in 1 .. Len(events[k]) : AddressHit(k, events[k][i], g)
      BY <3>0, Zenon
    <3>2. PICK j \in 1 .. Len(events'[k]) : events'[k][j] = events[k][i]
      BY DEF Kept
    <3> QED BY <3>1, <3>2, ZenonT(40) DEF AddressDue, AddressHit, Hits, InGroup
  <2>3. CASE \E i \in 1 .. Len(events["ns"]) : NamespaceHit(events["ns"][i], g)
    BY <1>1, <2>3, Zenon DEF AddressDue, Kept
  <2> QED BY <1>3, <2>1, <2>2, <2>3, Zenon DEF AddressDue
<1> QED BY <1>2, <1>3, Zenon

LEMMA KeptSame == ASSUME NEW k, events'[k] = events[k] PROVE Kept(k)
BY Zenon DEF Kept

(* Notify adds an event and keeps the others.                               *)
LEMMA Notified ==
    ASSUME TypeOK, NEW k \in {"pod", "ee", "ns"} \cup PolicyKinds, NEW obj, NEW old, NEW new,
           Notify(k, obj, old, new), [obj |-> obj, old |-> old, new |-> new]
               \in MemberEvent \cup NamespaceEvent \cup PolicyEvent
    PROVE  /\ \A j \in {"pod", "ee", "ns"} \cup PolicyKinds : Kept(j)
           /\ \E i \in 1 .. Len(events'[k]) :
                 events'[k][i] = [obj |-> obj, old |-> old, new |-> new]
           /\ \A i \in 1 .. Len(events'[k]) :
                 \/ i \in 1 .. Len(events[k]) /\ events'[k][i] = events[k][i]
                 \/ events'[k][i] = [obj |-> obj, old |-> old, new |-> new]
           /\ \A j \in {"pod", "ee", "ns"} \cup PolicyKinds : j # k => events'[j] = events[j]
<1> DEFINE e == [obj |-> obj, old |-> old, new |-> new]
<1>1. /\ events'[k] = Append(events[k], e)
      /\ \A j \in {"pod", "ee", "ns"} \cup PolicyKinds : j # k => events'[j] = events[j]
  BY Zenon DEF Notify, TypeOK
<1>2. /\ events[k] \in Seq(MemberEvent \cup NamespaceEvent \cup PolicyEvent)
      /\ e \in MemberEvent \cup NamespaceEvent \cup PolicyEvent
  BY Zenon DEF TypeOK
<1> HIDE DEF e
<1>3. /\ Len(events[k]) \in Nat /\ Len(events'[k]) = Len(events[k]) + 1
      /\ \A i \in 1 .. Len(events[k]) : events'[k][i] = events[k][i]
      /\ events'[k][Len(events[k]) + 1] = e
  BY <1>1, <1>2
<1>4. Kept(k)
  BY <1>3 DEF Kept
<1>5. \E i \in 1 .. Len(events'[k]) : events'[k][i] = e
  BY <1>3
<1>6. \A i \in 1 .. Len(events'[k]) :
          \/ i \in 1 .. Len(events[k]) /\ events'[k][i] = events[k][i]
          \/ events'[k][i] = e
  BY <1>3
<1> QED BY <1>1, <1>4, <1>5, <1>6, KeptSame, Zenon DEF e

(* A handler takes the first event of its informer.                         *)
LEMMA Taken ==
    ASSUME TypeOK, NEW k \in {"pod", "ee", "ns"} \cup PolicyKinds, events[k] # <<>>,
           events' = [events EXCEPT ![k] = Tail(@)]
    PROVE  /\ \A j \in {"pod", "ee", "ns"} \cup PolicyKinds : j # k => events'[j] = events[j]
           /\ \A i \in 1 .. Len(events[k]) :
                 \/ events[k][i] = Head(events[k])
                 \/ \E j \in 1 .. Len(events'[k]) : events'[k][j] = events[k][i]
           /\ \A j \in 1 .. Len(events'[k]) : \E i \in 1 .. Len(events[k]) :
                 events'[k][j] = events[k][i]
<1>1. /\ events'[k] = Tail(events[k])
      /\ \A j \in {"pod", "ee", "ns"} \cup PolicyKinds : j # k => events'[j] = events[j]
  BY Zenon DEF TypeOK
<1>2. events[k] \in Seq(MemberEvent \cup NamespaceEvent \cup PolicyEvent)
  BY Zenon DEF TypeOK
<1>3. /\ Len(events[k]) \in Nat /\ Len(events'[k]) = Len(events[k]) - 1
      /\ Head(events[k]) = events[k][1]
      /\ \A j \in 1 .. Len(events[k]) - 1 : events'[k][j] = events[k][j + 1]
  <2>1. Len(events[k]) \in Nat /\ Head(events[k]) = events[k][1]
    BY <1>2
  <2>2. Len(Tail(events[k])) = Len(events[k]) - 1
    BY <1>2
  <2>3. \A j \in 1 .. Len(events[k]) - 1 : Tail(events[k])[j] = events[k][j + 1]
    BY <1>2
  <2> QED BY <1>1, <2>1, <2>2, <2>3
<1>4. ASSUME NEW i \in 1 .. Len(events[k]), i # 1
      PROVE  \E j \in 1 .. Len(events'[k]) : events'[k][j] = events[k][i]
  <2>1. i - 1 \in 1 .. Len(events'[k]) /\ events'[k][i - 1] = events[k][i]
    BY <1>3, <1>4
  <2> QED BY <2>1, Zenon
<1>5. ASSUME NEW j \in 1 .. Len(events'[k])
      PROVE  \E i \in 1 .. Len(events[k]) : events'[k][j] = events[k][i]
  <2>1. j + 1 \in 1 .. Len(events[k]) /\ events'[k][j] = events[k][j + 1]
    BY <1>3, <1>5
  <2> QED BY <2>1, Zenon
<1>6. \A i \in 1 .. Len(events[k]) :
          \/ events[k][i] = Head(events[k])
          \/ \E j \in 1 .. Len(events'[k]) : events'[k][j] = events[k][i]
  BY <1>3, <1>4, Zenon
<1> QED BY <1>1, <1>5, <1>6, Zenon

(* The handlers of member events enqueue the groups that the event hits.    *)
LEMMA PodHandled ==
    ASSUME HandlePodEvent, NEW e, e = Head(events["pod"])
    PROVE  /\ \A g \in AppliedToKeys : appliedToGroups[g] # Nil /\ AppliedToHit(e, g)
                 => g \in appliedToGroupQueue'
           /\ \A g \in AddressKeys : addressGroups[g] # Nil /\ AddressHit("pod", e, g)
                 => g \in addressGroupQueue'
           /\ appliedToGroupQueue \subseteq appliedToGroupQueue'
           /\ addressGroupQueue \subseteq addressGroupQueue'
<1>1. CASE e.old = Nil
  BY <1>1, Zenon DEF HandlePodEvent, AddOrDeleteMember, EnqueueGroups, AppliedToGroupsFor,
              AddressGroupsFor, AppliedToHit, AddressHit, Hits, InGroup
<1>2. CASE e.old # Nil /\ e.new = Nil
  BY <1>2, Zenon DEF HandlePodEvent, AddOrDeleteMember, EnqueueGroups, AppliedToGroupsFor,
              AddressGroupsFor, AppliedToHit, AddressHit, Hits, InGroup
<1>3. CASE e.old # Nil /\ e.new # Nil
  BY <1>3, Zenon DEF HandlePodEvent, UpdatePod, EnqueueGroups, AppliedToGroupsFor, SymDiff,
              AddressGroupsFor, AppliedToHit, AddressHit, Hits, InGroup
<1> QED BY <1>1, <1>2, <1>3, Zenon

LEMMA EntityHandled ==
    ASSUME HandleExternalEntityEvent, NEW e, e = Head(events["ee"])
    PROVE  /\ \A g \in AppliedToKeys : appliedToGroups[g] # Nil /\ AppliedToHit(e, g)
                 => g \in appliedToGroupQueue'
           /\ \A g \in AddressKeys : addressGroups[g] # Nil /\ AddressHit("ee", e, g)
                 => g \in addressGroupQueue'
           /\ appliedToGroupQueue \subseteq appliedToGroupQueue'
           /\ addressGroupQueue \subseteq addressGroupQueue'
<1>1. CASE e.old = Nil
  BY <1>1, Zenon DEF HandleExternalEntityEvent, AddOrDeleteMember, EnqueueGroups,
              AppliedToGroupsFor, AddressGroupsFor, AppliedToHit, AddressHit, Hits, InGroup
<1>2. CASE e.old # Nil /\ e.new = Nil
  BY <1>2, Zenon DEF HandleExternalEntityEvent, AddOrDeleteMember, EnqueueGroups,
              AppliedToGroupsFor, AddressGroupsFor, AppliedToHit, AddressHit, Hits, InGroup
<1>3. CASE e.old # Nil /\ e.new # Nil
  BY <1>3, Zenon DEF HandleExternalEntityEvent, UpdateExternalEntity, EnqueueGroups, SymDiff,
              AppliedToGroupsFor, AddressGroupsFor, AppliedToHit, AddressHit, Hits, InGroup
<1> QED BY <1>1, <1>2, <1>3, Zenon

LEMMA NamespaceHandled ==
    ASSUME HandleNamespaceEvent, NEW e, e = Head(events["ns"])
    PROVE  /\ \A g \in AddressKeys : addressGroups[g] # Nil /\ NamespaceHit(e, g)
                 => g \in addressGroupQueue'
           /\ appliedToGroupQueue \subseteq appliedToGroupQueue'
           /\ addressGroupQueue \subseteq addressGroupQueue'
BY Zenon DEF HandleNamespaceEvent, EnqueueGroups, SymDiff, AddressGroupsForNamespace, NamespaceHit

-----------------------------------------------------------------------------
(* The members of AppliedToGroups.                                          *)
LEMMA AppliedFrame ==
    ASSUME NEW g \in AppliedToKeys, AppliedToRight(g), AppliedToDue(g) => AppliedToDue(g)',
           AppliedToMembers(g)' = AppliedToMembers(g) \/ AppliedToDue(g)',
           appliedToGroups'[g] = appliedToGroups[g] \/ appliedToGroups'[g] = Nil,
           appliedToGroupSync'[g] = appliedToGroupSync[g]
    PROVE  AppliedToRight(g)'
BY Zenon DEF AppliedToRight

LEMMA AddressFrame ==
    ASSUME NEW g \in AddressKeys, AddressRight(g), AddressDue(g) => AddressDue(g)',
           AddressMembers(g)' = AddressMembers(g) \/ AddressDue(g)',
           addressGroups'[g] = addressGroups[g] \/ addressGroups'[g] = Nil,
           addressGroupSync'[g] = addressGroupSync[g],
           \/ AddressDue(g)'
           \/ \A p \in AddressGroupReferrers(g)' :
                 \/ internalNPs'[p].span = {}
                 \/ p \in AddressGroupReferrers(g) /\ internalNPs'[p].span = internalNPs[p].span
    PROVE  AddressRight(g)'
BY Zenon DEF AddressRight, AddressWritten

(* The listers of members and Namespaces determine the members of groups.   *)
LEMMA MembersFrame ==
    ASSUME members' = members, namespaces' = namespaces, NEW g
    PROVE  AppliedToMembers(g)' = AppliedToMembers(g) /\ AddressMembers(g)' = AddressMembers(g)
BY Zenon DEF AppliedToMembers, AddressMembers, Selected

Right == /\ \A g \in AppliedToKeys : AppliedToRight(g)
         /\ \A g \in AddressKeys : AddressRight(g)

(* A step that leaves stores and syncs alone.                               *)
LEMMA RightFrame ==
    ASSUME Right, stores' = stores, syncs' = syncs,
           \A g \in AppliedToKeys : appliedToGroups[g] # Nil =>
               /\ AppliedToDue(g) => AppliedToDue(g)'
               /\ AppliedToMembers(g)' = AppliedToMembers(g) \/ AppliedToDue(g)',
           \A g \in AddressKeys : addressGroups[g] # Nil =>
               /\ AddressDue(g) => AddressDue(g)'
               /\ AddressMembers(g)' = AddressMembers(g) \/ AddressDue(g)'
    PROVE  Right'
<1>0. /\ appliedToGroups' = appliedToGroups /\ addressGroups' = addressGroups
      /\ internalNPs' = internalNPs /\ appliedToGroupSync' = appliedToGroupSync
      /\ addressGroupSync' = addressGroupSync
  BY Zenon DEF stores, syncs
<1>1. ASSUME NEW g \in AppliedToKeys PROVE AppliedToRight(g)'
  <2>1. CASE appliedToGroups[g] # Nil
    BY <1>0, <2>1, AppliedFrame, Zenon DEF Right
  <2>2. CASE appliedToGroups[g] = Nil
    BY <1>0, <2>2, Zenon DEF AppliedToRight
  <2> QED BY <2>1, <2>2, Zenon
<1>2. ASSUME NEW g \in AddressKeys PROVE AddressRight(g)'
  <2>1. CASE addressGroups[g] # Nil
    <3>1. AddressGroupReferrers(g)' = AddressGroupReferrers(g)
      BY <1>0, Zenon DEF AddressGroupReferrers
    <3> QED BY <1>0, <2>1, <3>1, AddressFrame, Zenon DEF Right
  <2>2. CASE addressGroups[g] = Nil
    BY <1>0, <2>2, Zenon DEF AddressRight
  <2> QED BY <2>1, <2>2, Zenon
<1> QED BY <1>1, <1>2, Zenon DEF Right

LEMMA EventsMembers ==
    ASSUME TypeOK, PInv, MemberEvents, [Next]_vars
    PROVE  MemberEvents'
<1>1. ASSUME \A k \in {"pod", "ee"} : events'[k] = events[k]
      PROVE  MemberEvents'
  BY <1>1, Zenon DEF MemberEvents
<1>2. CASE ApiChange
  <2>1. ASSUME NEW m \in Members, NEW attr \in Attrs[m] \cup {Nil}, ChangeMember(m, attr)
        PROVE  MemberEvents'
    <3>1. [obj |-> m, old |-> members[m], new |-> attr] \in MemberEvent
      BY ControllerAssumption, Zenon DEF MemberEvent, TypeOK
    <3>2. Kind[m] \in {"pod", "ee"} /\ Notify(Kind[m], m, members[m], attr)
      BY <2>1, MembersAssumption, Zenon DEF ChangeMember
    <3>3. /\ \A i \in 1 .. Len(events'[Kind[m]]) :
                 \/ i \in 1 .. Len(events[Kind[m]]) /\ events'[Kind[m]][i] = events[Kind[m]][i]
                 \/ events'[Kind[m]][i] = [obj |-> m, old |-> members[m], new |-> attr]
          /\ \A j \in {"pod", "ee", "ns"} \cup PolicyKinds :
                 j # Kind[m] => events'[j] = events[j]
      BY <3>1, <3>2, Notified
    <3> QED BY <3>3 DEF MemberEvents
  <2>2. ASSUME NEW ns \in Namespaces, NEW label \in NsLabels \cup {Nil},
               ChangeNamespace(ns, label)
        PROVE  MemberEvents'
    BY <1>1, <2>2, Zenon DEF ChangeNamespace, Notify, TypeOK
  <2>3. ASSUME NEW p \in Policies, NEW spec, ChangePolicy(p, spec) PROVE MemberEvents'
    BY <1>1, <2>3, Keys DEF ChangePolicy, Notify, TypeOK
  <2> QED BY <1>2, <2>1, <2>2, <2>3, Zenon DEF ApiChange
<1>3. ASSUME NEW k \in {"pod", "ee", "ns"} \cup PolicyKinds, events[k] # <<>>,
             events' = [events EXCEPT ![k] = Tail(@)]
      PROVE  MemberEvents'
  <2>1. /\ \A j \in {"pod", "ee", "ns"} \cup PolicyKinds : j # k => events'[j] = events[j]
        /\ \A j \in 1 .. Len(events'[k]) : \E i \in 1 .. Len(events[k]) :
              events'[k][j] = events[k][i]
    BY <1>3, Taken, Zenon
  <2> QED BY <2>1 DEF MemberEvents
<1>4. CASE Handle
  <2>1. CASE HandlePodEvent \/ HandleExternalEntityEvent \/ HandleNamespaceEvent
    BY <1>3, <2>1, Zenon DEF HandlePodEvent, HandleExternalEntityEvent, HandleNamespaceEvent
  <2>2. ASSUME NEW k \in PolicyKinds, HandlePolicy(k) PROVE MemberEvents'
    BY <1>1, <1>3, <2>2, Zenon DEF HandlePolicy, ProcessPolicy, CreateInternalNP, UpdateInternalNP,
           CommitUpdate, DeleteInternalNP, DeleteDereferencedGroups, DeleteGroups
  <2> QED BY <1>4, <2>1, <2>2, Zenon DEF Handle, HandleNetworkPolicy, HandleCNP, HandleANP, HandlePolicy
<1>5. CASE Sync
  BY <1>1, <1>5, Zenon DEF Sync, SyncAppliedToGroupCompute, SyncAppliedToGroupStore,
         SyncAppliedToGroupEnqueue, SyncAddressGroupCompute, SyncAddressGroupStore,
         SyncInternalNPRead, SyncInternalNPStore
<1> QED BY <1>1, <1>2, <1>4, <1>5, Zenon DEF Next, vars

LEMMA RightApi ==
    ASSUME AppliedToWithoutNamespaces, TypeOK, MemberEvents, Right, ApiChange
    PROVE  Right'
<1>1. stores' = stores /\ syncs' = syncs /\ queues' = queues
  BY Zenon DEF ApiChange, ChangeMember, ChangeNamespace, ChangePolicy
<1>2. appliedToGroupQueue' = appliedToGroupQueue /\ addressGroupQueue' = addressGroupQueue
  BY <1>1, Zenon DEF queues
<1>3. ASSUME NEW m \in Members, NEW attr \in Attrs[m] \cup {Nil}, ChangeMember(m, attr)
      PROVE  Right'
  <2>1. PICK e : e = [obj |-> m, old |-> members[m], new |-> attr]
    BY Zenon
  <2>2. attr \in Attributes \cup {Nil} /\ e \in MemberEvent
    BY <2>1, ControllerAssumption, Zenon DEF MemberEvent, TypeOK
  <2>3. Kind[m] \in {"pod", "ee"} /\ Notify(Kind[m], m, members[m], attr)
    BY <1>3, MembersAssumption, Zenon DEF ChangeMember
  <2>4. /\ \A j \in {"pod", "ee", "ns"} : Kept(j)
        /\ \E i \in 1 .. Len(events'[Kind[m]]) : events'[Kind[m]][i] = e
    <3>1. /\ Kind[m] \in {"pod", "ee", "ns"} \cup PolicyKinds
          /\ [obj |-> m, old |-> members[m], new |-> attr]
                \in MemberEvent \cup NamespaceEvent \cup PolicyEvent
      BY <2>1, <2>2, <2>3, Zenon
    <3>2. /\ \A j \in {"pod", "ee", "ns"} \cup PolicyKinds : Kept(j)
          /\ \E i \in 1 .. Len(events'[Kind[m]]) :
                events'[Kind[m]][i] = [obj |-> m, old |-> members[m], new |-> attr]
      BY <2>3, <3>1, Notified
    <3> QED BY <2>1, <3>2, Zenon
  <2>5. namespaces' = namespaces
    BY <1>3, Zenon DEF ChangeMember
  <2>6. \A g : /\ AppliedToDue(g) => AppliedToDue(g)'
               /\ AddressDue(g) => AddressDue(g)'
    BY <1>2, <2>4, <2>5, DueFrame, Zenon
  <2>7. \A g : /\ AppliedToHit(e, g) => AppliedToDue(g)'
               /\ AddressHit(Kind[m], e, g) => AddressDue(g)'
    <3>1. PICK i \in 1 .. Len(events'[Kind[m]]) : events'[Kind[m]][i] = e
      BY <2>4, Zenon
    <3>2. ASSUME NEW g, AppliedToHit(e, g) PROVE AppliedToDue(g)'
      BY <2>3, <2>5, <3>1, <3>2, Zenon DEF AppliedToDue, AppliedToHit, Hits, InGroup
    <3>3. ASSUME NEW g, AddressHit(Kind[m], e, g) PROVE AddressDue(g)'
      BY <2>3, <2>5, <3>1, <3>3, Zenon DEF AddressDue, AddressHit, Hits, InGroup
    <3> QED BY <3>2, <3>3, Zenon
  <2>8. \A g : /\ AppliedToHit(e, g) \/ AppliedToMembers(g)' = AppliedToMembers(g)
               /\ AddressHit(Kind[m], e, g) \/ AddressMembers(g)' = AddressMembers(g)
    BY <1>3, <2>1, <2>2, MemberChange, Zenon
  <2> QED BY <1>1, <2>6, <2>7, <2>8, RightFrame, Zenon
<1>4. ASSUME NEW ns \in Namespaces, NEW label \in NsLabels \cup {Nil},
             ChangeNamespace(ns, label)
      PROVE  Right'
  <2>1. PICK e : e = [obj |-> ns, old |-> namespaces[ns], new |-> label]
    BY Zenon
  <2>2. e \in NamespaceEvent /\ Notify("ns", ns, namespaces[ns], label)
    BY <1>4, <2>1, Zenon DEF NamespaceEvent, TypeOK, ChangeNamespace
  <2>3. /\ events'["pod"] = events["pod"] /\ events'["ee"] = events["ee"] /\ Kept("ns")
        /\ \E i \in 1 .. Len(events'["ns"]) : events'["ns"][i] = e
    BY <2>1, <2>2, Notified
  <2>4. ASSUME NEW g \in AppliedToKeys
        PROVE  /\ AppliedToMembers(g)' = AppliedToMembers(g)
               /\ AppliedToDue(g) => AppliedToDue(g)'
    <3>1. g.nsSelector = Nil
      BY Zenon DEF AppliedToWithoutNamespaces
    <3>2. /\ AppliedToMembers(g)' = AppliedToMembers(g)
          /\ \A x : x.obj \in Members => (AppliedToHit(x, g)' <=> AppliedToHit(x, g))
      BY <1>4, <3>1, NamespaceChange, Zenon
    <3>3. ASSUME NEW k \in {"pod", "ee"}, NEW i \in 1 .. Len(events[k]), AppliedToHit(events[k][i], g)
          PROVE  AppliedToDue(g)'
      <4>1. PICK x : x = events[k][i]
        BY Zenon
      <4>2. AppliedToHit(x, g)' /\ i \in 1 .. Len(events'[k]) /\ x = events'[k][i]
        BY <2>3, <3>2, <3>3, <4>1, Zenon DEF MemberEvents
      <4> QED BY <4>2, Zenon DEF AppliedToDue, AppliedToHit, Hits, InGroup
    <3> QED BY <1>2, <3>2, <3>3, Zenon DEF AppliedToDue
  <2>5. ASSUME NEW g \in AddressKeys
        PROVE  /\ AddressMembers(g)' = AddressMembers(g) \/ AddressDue(g)'
               /\ AddressDue(g) => AddressDue(g)'
    <3>1. CASE NamespaceHit(e, g)
      BY <2>3, <3>1, Zenon DEF AddressDue, NamespaceHit
    <3>2. CASE ~ NamespaceHit(e, g)
      <4>1. g.namespace # Nil
            \/ (Matches(g.nsSelector, namespaces[ns]) <=> Matches(g.nsSelector, label))
        BY <2>1, <3>2, Zenon DEF NamespaceHit
      <4>2. /\ AddressMembers(g)' = AddressMembers(g)
            /\ \A x : x.obj \in Members =>
                   \A k : AddressHit(k, x, g)' <=> AddressHit(k, x, g)
        BY <1>4, <4>1, NamespaceChange, Zenon
      <4>3. ASSUME NEW k \in {"pod", "ee"}, NEW i \in 1 .. Len(events[k]),
                   AddressHit(k, events[k][i], g)
            PROVE  AddressDue(g)'
        <5>1. PICK x : x = events[k][i]
          BY Zenon
        <5>2. AddressHit(k, x, g)' /\ i \in 1 .. Len(events'[k]) /\ x = events'[k][i]
          BY <2>3, <4>2, <4>3, <5>1, Zenon DEF MemberEvents
        <5> QED BY <5>2, Zenon DEF AddressDue, AddressHit, Hits, InGroup
      <4>4. ASSUME NEW i \in 1 .. Len(events["ns"]), NamespaceHit(events["ns"][i], g)
            PROVE  AddressDue(g)'
        BY <2>3, <4>4, Zenon DEF AddressDue, NamespaceHit, Kept
      <4> QED BY <1>2, <4>2, <4>3, <4>4, Zenon DEF AddressDue
    <3> QED BY <3>1, <3>2, Zenon
  <2> QED BY <1>1, <2>4, <2>5, RightFrame, Zenon
<1>5. ASSUME NEW p \in Policies, NEW spec \in SpecsOf[p] \cup {Nil}, ChangePolicy(p, spec)
      PROVE  Right'
  <2>1. members' = members /\ namespaces' = namespaces
    BY <1>5, Zenon DEF ChangePolicy
  <2>2. \A k \in {"pod", "ee", "ns"} : events'[k] = events[k]
    BY <1>5, Keys, Zenon DEF ChangePolicy, Notify, TypeOK
  <2>3. \A k \in {"pod", "ee", "ns"} : Kept(k)
    BY <2>2, KeptSame, Zenon
  <2>4. \A g : /\ AppliedToDue(g) => AppliedToDue(g)'
               /\ AddressDue(g) => AddressDue(g)'
    BY <1>2, <2>1, <2>3, DueFrame, Zenon
  <2> QED BY <1>1, <2>1, <2>4, MembersFrame, RightFrame, Zenon
<1> QED BY <1>3, <1>4, <1>5, Zenon DEF ApiChange

(* A handler that takes an event enqueues the groups that it hits.          *)
LEMMA RightHandler ==
    ASSUME TypeOK, Right, HandlePodEvent \/ HandleExternalEntityEvent \/ HandleNamespaceEvent
    PROVE  Right'
<1>1. /\ members' = members /\ namespaces' = namespaces /\ stores' = stores /\ syncs' = syncs
      /\ appliedToGroups' = appliedToGroups /\ addressGroups' = addressGroups
  BY Zenon DEF HandlePodEvent, HandleExternalEntityEvent, HandleNamespaceEvent, listers, stores
<1>2. PICK k \in {"pod", "ee", "ns"} :
          /\ k = "pod" => HandlePodEvent
          /\ k = "ee" => HandleExternalEntityEvent
          /\ k = "ns" => HandleNamespaceEvent
  BY Zenon
<1>3. events[k] # <<>> /\ events' = [events EXCEPT ![k] = Tail(@)]
  BY <1>2, Zenon DEF HandlePodEvent, HandleExternalEntityEvent, HandleNamespaceEvent
<1>4. PICK e : e = Head(events[k])
  BY Zenon
<1>5. /\ \A j \in {"pod", "ee", "ns"} \cup PolicyKinds : j # k => events'[j] = events[j]
      /\ \A i \in 1 .. Len(events[k]) :
            \/ events[k][i] = e
            \/ \E j \in 1 .. Len(events'[k]) : events'[k][j] = events[k][i]
  <2>1. k \in {"pod", "ee", "ns"} \cup PolicyKinds
    BY Zenon
  <2> QED BY <1>3, <1>4, <2>1, Taken, Zenon
<1>6. /\ \A g \in AppliedToKeys : appliedToGroups[g] # Nil /\ k # "ns" /\ AppliedToHit(e, g)
            => g \in appliedToGroupQueue'
      /\ \A g \in AddressKeys : addressGroups[g] # Nil /\ k # "ns" /\ AddressHit(k, e, g)
            => g \in addressGroupQueue'
      /\ \A g \in AddressKeys : addressGroups[g] # Nil /\ k = "ns" /\ NamespaceHit(e, g)
            => g \in addressGroupQueue'
      /\ appliedToGroupQueue \subseteq appliedToGroupQueue'
      /\ addressGroupQueue \subseteq addressGroupQueue'
  <2>1. CASE k = "pod"
    BY <1>2, <1>4, <2>1, PodHandled, Zenon
  <2>2. CASE k = "ee"
    BY <1>2, <1>4, <2>2, EntityHandled, Zenon
  <2>3. CASE k = "ns"
    BY <1>2, <1>4, <2>3, NamespaceHandled, Zenon
  <2> QED BY <2>1, <2>2, <2>3, Zenon
<1>7. \A j \in {"pod", "ee", "ns"} : \A i \in 1 .. Len(events[j]) :
          \/ j = k /\ events[j][i] = e
          \/ \E l \in 1 .. Len(events'[j]) : events'[j][l] = events[j][i]
  BY <1>5, Zenon
<1>8. ASSUME NEW g \in AppliedToKeys, appliedToGroups[g] # Nil, AppliedToDue(g)
      PROVE  AppliedToDue(g)'
  <2>1. CASE g \in appliedToGroupQueue
    BY <1>6, <2>1, Zenon DEF AppliedToDue
  <2>2. ASSUME NEW j \in {"pod", "ee"}, NEW i \in 1 .. Len(events[j]),
               AppliedToHit(events[j][i], g)
        PROVE  AppliedToDue(g)'
    <3>1. CASE j = k /\ events[j][i] = e
      BY <1>6, <1>8, <2>2, <3>1 DEF AppliedToDue
    <3>2. CASE \E l \in 1 .. Len(events'[j]) : events'[j][l] = events[j][i]
      <4>1. PICK l \in 1 .. Len(events'[j]) : events'[j][l] = events[j][i]
        BY <3>2, Zenon
      <4>2. PICK x : x = events[j][i]
        BY Zenon
      <4>3. AppliedToHit(x, g)' /\ x = events'[j][l]
        BY <1>1, <2>2, <4>1, <4>2, Zenon DEF AppliedToHit, Hits, InGroup
      <4> QED BY <4>1, <4>3, Zenon DEF AppliedToDue, AppliedToHit, Hits, InGroup
    <3> QED BY <1>7, <3>1, <3>2, ZenonT(40)
  <2> QED BY <1>8, <2>1, <2>2, Zenon DEF AppliedToDue
<1>9. ASSUME NEW g \in AddressKeys, addressGroups[g] # Nil, AddressDue(g)
      PROVE  AddressDue(g)'
  <2>1. CASE g \in addressGroupQueue
    BY <1>6, <2>1, Zenon DEF AddressDue
  <2>2. ASSUME NEW j \in {"pod", "ee"}, NEW i \in 1 .. Len(events[j]),
               AddressHit(j, events[j][i], g)
        PROVE  AddressDue(g)'
    <3>1. CASE j = k /\ events[j][i] = e
      BY <1>6, <1>9, <2>2, <3>1 DEF AddressDue
    <3>2. CASE \E l \in 1 .. Len(events'[j]) : events'[j][l] = events[j][i]
      <4>1. PICK l \in 1 .. Len(events'[j]) : events'[j][l] = events[j][i]
        BY <3>2, Zenon
      <4>2. PICK x : x = events[j][i]
        BY Zenon
      <4>3. AddressHit(j, x, g)' /\ x = events'[j][l]
        BY <1>1, <2>2, <4>1, <4>2, Zenon DEF AddressHit, Hits, InGroup
      <4> QED BY <4>1, <4>3, Zenon DEF AddressDue, AddressHit, Hits, InGroup
    <3> QED BY <1>7, <3>1, <3>2, ZenonT(40)
  <2>3. ASSUME NEW i \in 1 .. Len(events["ns"]), NamespaceHit(events["ns"][i], g)
        PROVE  AddressDue(g)'
    <3>1. CASE "ns" = k /\ events["ns"][i] = e
      BY <1>6, <1>9, <2>3, <3>1 DEF AddressDue
    <3>2. CASE \E l \in 1 .. Len(events'["ns"]) : events'["ns"][l] = events["ns"][i]
      BY <1>1, <2>3, <3>2, Zenon DEF AddressDue, NamespaceHit
    <3> QED BY <1>7, <3>1, <3>2, Zenon
  <2> QED BY <1>9, <2>1, <2>2, <2>3, Zenon DEF AddressDue
<1> QED BY <1>1, <1>8, <1>9, MembersFrame, RightFrame, Zenon
=============================================================================
