----------------------- MODULE ControllerStoreProofs ------------------------
(* The internal policy store follows the API, for any number of informers,  *)
(* if names of policies are not used again.  The inductive invariant FInv   *)
(* says of every policy that nothing of an earlier life of it is left when  *)
(* it is created (Fresh), that a worker which holds the mutex holds what is *)
(* stored (SyncCurrent), and how far its latest version has come (Latest).  *)
EXTENDS ControllerPolicyProofs

HandlerOn(p) == /\ handler[PolicyKind[p]] # Nil
                /\ handler[PolicyKind[p]].step # "deref"
                /\ handler[PolicyKind[p]].key = p

Untouched(p) == /\ ~ HandlerOn(p)
                /\ internalNPs[p] = Nil
                /\ internalNetworkPolicySync[p] = Nil

EventOf(p, i) == i \in 1 .. Len(Queue(p)) /\ Queue(p)[i].obj = p

Fresh(p) ==
    /\ creations[p] = 0 => /\ policies[p] = Nil /\ Untouched(p)
                           /\ \A i \in Nat : ~ EventOf(p, i)
    /\ \A i \in Nat : EventOf(p, i) /\ Queue(p)[i].old = Nil =>
          /\ Untouched(p)
          /\ \A j \in Nat : EventOf(p, j) /\ j # i => i < j /\ Queue(p)[j].old # Nil
    /\ Creating(p) => /\ internalNetworkPolicySync[p] = Nil
                      /\ \A i \in Nat : EventOf(p, i) => Queue(p)[i].old # Nil

SyncCurrent(p) ==
    internalNetworkPolicySync[p] # Nil /\ internalNPs[p] # Nil =>
        internalNetworkPolicySync[p].np = internalNPs[p]

Stored(p) ==
    IF policies[p] = Nil THEN internalNPs[p] = Nil
    ELSE /\ internalNPs[p] # Nil
         /\ internalNPs[p].appliedToGroups = policies[p].appliedTo
         /\ internalNPs[p].addressGroups = policies[p].peers

(* The latest version is in the last event, in the handler or in the store. *)
Latest(p) ==
    /\ \A i \in Nat : EventOf(p, i) =>
          Queue(p)[i].new = policies[p] \/ \E j \in Nat : i < j /\ EventOf(p, j)
    /\ (\A i \in Nat : ~ EventOf(p, i)) =>
          IF HandlerOn(p) THEN handler[PolicyKind[p]].spec = policies[p]
          ELSE Stored(p)

FInv == \A p \in Policies : Fresh(p) /\ SyncCurrent(p) /\ Latest(p)

LEMMA FInit == Init => FInv
<1> SUFFICES ASSUME Init PROVE FInv
  BY Zenon
<1>1. \A p \in Policies : Queue(p) = <<>> /\ ~ HandlerOn(p) /\ ~ Creating(p)
  BY Keys, Zenon DEF Init, Queue, HandlerOn, Creating
<1>2. \A p \in Policies : \A i \in Nat : ~ EventOf(p, i)
  BY <1>1 DEF EventOf
<1>3. \A p \in Policies : Fresh(p)
  BY <1>1, <1>2, Zenon DEF Init, Fresh, Untouched
<1>4. \A p \in Policies : Latest(p)
  BY <1>1, <1>2, Zenon DEF Init, Latest, Stored
<1> QED BY <1>3, <1>4, Zenon DEF Init, FInv, SyncCurrent

(* A step that keeps the events, the handler and the syncs of a policy, and *)
(* its groups.                                                              *)
LEMMA FreshFrame ==
    ASSUME NEW p \in Policies, Fresh(p), Queue(p)' = Queue(p),
           HandlerOn(p)' <=> HandlerOn(p), Creating(p)' <=> Creating(p),
           policies'[p] = policies[p], creations'[p] = creations[p],
           internalNPs'[p] = Nil <=> internalNPs[p] = Nil,
           internalNetworkPolicySync'[p] = Nil <=> internalNetworkPolicySync[p] = Nil
    PROVE  Fresh(p)'
<1>1. \A i \in Nat : EventOf(p, i)' <=> EventOf(p, i)
  BY Zenon DEF EventOf
<1>2. Untouched(p)' <=> Untouched(p)
  BY Zenon DEF Untouched
<1> QED BY <1>1, <1>2, Zenon DEF Fresh

LEMMA LatestFrame ==
    ASSUME NEW p \in Policies, Latest(p), Queue(p)' = Queue(p),
           HandlerOn(p)' <=> HandlerOn(p),
           HandlerOn(p) => handler'[PolicyKind[p]] = handler[PolicyKind[p]],
           policies'[p] = policies[p],
           ~ HandlerOn(p) =>
               /\ internalNPs'[p] = Nil <=> internalNPs[p] = Nil
               /\ internalNPs[p] # Nil =>
                    /\ internalNPs'[p].appliedToGroups = internalNPs[p].appliedToGroups
                    /\ internalNPs'[p].addressGroups = internalNPs[p].addressGroups
    PROVE  Latest(p)'
<1>1. \A i \in Nat : EventOf(p, i)' <=> EventOf(p, i)
  BY Zenon DEF EventOf
<1>2. ~ HandlerOn(p) => (Stored(p)' <=> Stored(p))
  BY Zenon DEF Stored
<1> QED BY <1>1, <1>2, Zenon DEF Latest

LEMMA FFrame ==
    ASSUME FInv, handler' = handler, policies' = policies,
           creations' = creations, internalNPs' = internalNPs,
           internalNetworkPolicySync' = internalNetworkPolicySync,
           \A k \in PolicyKinds : events'[k] = events[k]
    PROVE  FInv'
<1> SUFFICES ASSUME NEW p \in Policies
             PROVE  Fresh(p)' /\ SyncCurrent(p)' /\ Latest(p)'
  BY Zenon DEF FInv
<1>1. Queue(p)' = Queue(p)
  BY Keys, Zenon DEF Queue
<1>2. (HandlerOn(p)' <=> HandlerOn(p)) /\ (Creating(p)' <=> Creating(p))
  BY Zenon DEF HandlerOn, Creating
<1>3. Fresh(p) /\ SyncCurrent(p) /\ Latest(p)
  BY Zenon DEF FInv
<1> QED BY <1>1, <1>2, <1>3, FreshFrame, LatestFrame, Zenon DEF SyncCurrent

(* The handler of kind k takes the first event: the events of its policies  *)
(* move up.                                                                 *)
LEMMA TailShift ==
    ASSUME TypeOK, NEW k \in PolicyKinds, events[k] # <<>>,
           events' = [events EXCEPT ![k] = Tail(@)], NEW q \in Policies
    PROVE  /\ PolicyKind[q] # k => Queue(q)' = Queue(q)
           /\ PolicyKind[q] = k =>
                /\ \A i \in Nat : EventOf(q, i)' =>
                      /\ EventOf(q, i + 1) /\ i + 1 \in Nat /\ i >= 1
                      /\ Queue(q)'[i] = Queue(q)[i + 1]
                /\ \A i \in Nat : EventOf(q, i) /\ i # 1 => EventOf(q, i - 1)'
                /\ Head(events[k]).obj = q => EventOf(q, 1)
                /\ Queue(q)[1] = Head(events[k])
<1>1. /\ events[k] \in Seq(MemberEvent \cup NamespaceEvent \cup PolicyEvent)
      /\ events'[k] = Tail(events[k])
      /\ \A j \in PolicyKinds : j # k => events'[j] = events[j]
  BY Zenon DEF TypeOK
<1>2. /\ Len(events[k]) \in Nat \ {0} /\ Head(events[k]) = events[k][1]
      /\ Len(events'[k]) = Len(events[k]) - 1
      /\ \A i \in 1 .. Len(events[k]) - 1 : events'[k][i] = events[k][i + 1]
  <2>1. Len(events[k]) \in Nat \ {0} /\ Head(events[k]) = events[k][1]
    BY <1>1
  <2>2. Len(Tail(events[k])) = Len(events[k]) - 1
    BY <1>1
  <2>3. \A i \in 1 .. Len(events[k]) - 1 : Tail(events[k])[i] = events[k][i + 1]
    BY <1>1
  <2> QED BY <1>1, <2>1, <2>2, <2>3, Zenon
<1>3. PolicyKind[q] # k => Queue(q)' = Queue(q)
  BY <1>1, Keys, Zenon DEF Queue
<1>4. ASSUME PolicyKind[q] = k, NEW i \in Nat, EventOf(q, i)'
      PROVE  /\ EventOf(q, i + 1) /\ i + 1 \in Nat /\ i >= 1
             /\ Queue(q)'[i] = Queue(q)[i + 1]
  <2>1. i \in 1 .. Len(events[k]) - 1
    BY <1>2, <1>4, Zenon DEF EventOf, Queue
  <2> QED BY <1>2, <1>4, <2>1 DEF EventOf, Queue
<1>5. ASSUME PolicyKind[q] = k, NEW i \in Nat, EventOf(q, i), i # 1 PROVE EventOf(q, i - 1)'
  <2>1. i - 1 \in 1 .. Len(events[k]) - 1
    BY <1>2, <1>5 DEF EventOf, Queue
  <2> QED BY <1>2, <1>5, <2>1 DEF EventOf, Queue
<1>6. PolicyKind[q] = k => /\ Head(events[k]).obj = q => EventOf(q, 1)
                           /\ Queue(q)[1] = Head(events[k])
  BY <1>2 DEF EventOf, Queue
<1> QED BY <1>3, <1>4, <1>5, <1>6, Zenon

LEMMA FreshTail ==
    ASSUME TypeOK, PInv, NEW k \in PolicyKinds, events[k] # <<>>, handler[k] = Nil,
           \A p \in Policies : Fresh(p),
           events' = [events EXCEPT ![k] = Tail(@)],
           policies' = policies, creations' = creations,
           internalNetworkPolicySync' = internalNetworkPolicySync,
           \A j \in PolicyKinds : j # k => handler'[j] = handler[j],
           \/ handler'[k].step = "deref"
           \/ /\ handler'[k].key = Head(events[k]).obj
              /\ handler'[k].step = "create" => Head(events[k]).old = Nil,
           \A q \in Policies : q # Head(events[k]).obj => internalNPs'[q] = internalNPs[q]
    PROVE  \A p \in Policies : Fresh(p)'
<1>1. PICK p \in Policies : p = Head(events[k]).obj /\ PolicyKind[p] = k
  BY Found, Zenon DEF PolicyEvent
<1>2. \A q \in Policies : PolicyKind[q] # k => Queue(q)' = Queue(q)
  BY TailShift, Zenon
<1>4. ASSUME NEW q \in Policies, PolicyKind[q] # k PROVE Fresh(q)'
  <2>1. PolicyKind[q] \in PolicyKinds /\ q # p
    BY <1>1, <1>4, Keys, Zenon
  <2>2. Queue(q)' = Queue(q)
    BY <1>2, <1>4, Zenon
  <2>3. (HandlerOn(q)' <=> HandlerOn(q)) /\ (Creating(q)' <=> Creating(q))
    BY <1>4, <2>1, Zenon DEF HandlerOn, Creating
  <2> QED BY <1>1, <2>1, <2>2, <2>3, FreshFrame, Zenon
<1>5. ASSUME NEW q \in Policies, PolicyKind[q] = k
      PROVE  \A i \in Nat : EventOf(q, i)' =>
                 /\ EventOf(q, i + 1) /\ i + 1 \in Nat /\ i >= 1
                 /\ Queue(q)'[i] = Queue(q)[i + 1]
  BY <1>5, TailShift, Zenon
<1>6. EventOf(p, 1) /\ Queue(p)[1] = Head(events[k])
  BY <1>1, TailShift, Zenon
<1>7. Fresh(p)'
  <2>1. creations'[p] # 0
    BY <1>1, <1>6, Zenon DEF Fresh
  <2>2. \A i \in Nat : EventOf(p, i)' => Queue(p)'[i].old # Nil
    <3> SUFFICES ASSUME NEW i \in Nat, EventOf(p, i)', Queue(p)'[i].old = Nil
                 PROVE  FALSE
      BY Zenon
    <3>1. EventOf(p, i + 1) /\ i + 1 \in Nat /\ i >= 1 /\ Queue(p)[i + 1].old = Nil
      BY <1>5, <1>1, Zenon
    <3>2. 1 # i + 1 => i + 1 < 1
      BY <1>1, <1>6, <3>1, Zenon DEF Fresh
    <3> QED BY <3>1, <3>2
  <2>3. Creating(p)' => internalNetworkPolicySync'[p] = Nil
    <3>1. Creating(p)' => Head(events[k]).old = Nil
      BY <1>1, Zenon DEF Creating
    <3>2. Head(events[k]).old = Nil => Untouched(p)
      BY <1>1, <1>6, Zenon DEF Fresh
    <3> QED BY <3>1, <3>2, Zenon DEF Untouched
  <2> QED BY <2>1, <2>2, <2>3, Zenon DEF Fresh
<1>8. ASSUME NEW q \in Policies, PolicyKind[q] = k, q # p PROVE Fresh(q)'
  <2>1. ~ HandlerOn(q) /\ ~ HandlerOn(q)' /\ ~ Creating(q)'
    BY <1>1, <1>8, Zenon DEF HandlerOn, Creating
  <2>2. Untouched(q)' <=> Untouched(q)
    BY <1>1, <1>8, <2>1, Zenon DEF Untouched
  <2>3. Fresh(q)
    BY Zenon
  <2>4. creations'[q] = 0 => policies'[q] = Nil /\ Untouched(q)' /\ \A i \in Nat : ~ EventOf(q, i)'
    BY <1>5, <1>8, <2>2, <2>3, Zenon DEF Fresh
  <2>5. ASSUME NEW i \in Nat, EventOf(q, i)', Queue(q)'[i].old = Nil
        PROVE  /\ Untouched(q)'
               /\ \A j \in Nat : EventOf(q, j)' /\ j # i => i < j /\ Queue(q)'[j].old # Nil
    <3>1. EventOf(q, i + 1) /\ i + 1 \in Nat /\ Queue(q)[i + 1].old = Nil
      BY <1>5, <1>8, <2>5, Zenon
    <3>2. \A j \in Nat : EventOf(q, j) /\ j # i + 1 => i + 1 < j /\ Queue(q)[j].old # Nil
      BY <2>3, <3>1, Zenon DEF Fresh
    <3>3. Untouched(q)
      BY <2>3, <3>1, Zenon DEF Fresh
    <3>4. ASSUME NEW j \in Nat, EventOf(q, j)', j # i
          PROVE  i < j /\ Queue(q)'[j].old # Nil
      <4>1. EventOf(q, j + 1) /\ j + 1 \in Nat /\ Queue(q)'[j] = Queue(q)[j + 1]
        BY <1>5, <1>8, <3>4, Zenon
      <4>2. j + 1 # i + 1
        BY <3>4
      <4>3. i + 1 < j + 1 /\ Queue(q)[j + 1].old # Nil
        BY <3>2, <4>1, <4>2, Zenon
      <4> QED BY <4>1, <4>3
    <3> QED BY <2>2, <3>3, <3>4, Zenon
  <2> QED BY <2>1, <2>4, <2>5, Zenon DEF Fresh
<1> QED BY <1>4, <1>7, <1>8, Zenon

LEMMA LatestTail ==
    ASSUME TypeOK, PInv, NEW k \in PolicyKinds, events[k] # <<>>, handler[k] = Nil,
           \A p \in Policies : Latest(p),
           events' = [events EXCEPT ![k] = Tail(@)], policies' = policies,
           \A j \in PolicyKinds : j # k => handler'[j] = handler[j],
           handler'[k] # Nil,
           \/ /\ handler'[k].step = "deref" /\ Head(events[k]).new = Nil
              /\ internalNPs'[Head(events[k]).obj] = Nil
           \/ /\ handler'[k].step # "deref" /\ handler'[k].key = Head(events[k]).obj
              /\ handler'[k].spec = Head(events[k]).new,
           \A q \in Policies : q # Head(events[k]).obj => internalNPs'[q] = internalNPs[q]
    PROVE  \A p \in Policies : Latest(p)'
<1>1. PICK p \in Policies : p = Head(events[k]).obj /\ PolicyKind[p] = k
  BY Found, Zenon DEF PolicyEvent
<1>a. \A q \in Policies : PolicyKind[q] = k =>
          \A i \in Nat : EventOf(q, i)' =>
              EventOf(q, i + 1) /\ i + 1 \in Nat /\ Queue(q)'[i] = Queue(q)[i + 1]
  BY TailShift, Zenon
<1>b. \A q \in Policies : PolicyKind[q] = k =>
          \A i \in Nat : EventOf(q, i) /\ i # 1 => EventOf(q, i - 1)'
  BY TailShift, Zenon
<1>2. ASSUME NEW q \in Policies, PolicyKind[q] # k PROVE Latest(q)'
  <2>1. PolicyKind[q] \in PolicyKinds /\ q # p /\ Queue(q)' = Queue(q)
    BY <1>1, <1>2, Keys, TailShift, Zenon
  <2>2. HandlerOn(q)' <=> HandlerOn(q)
    BY <1>2, <2>1, Zenon DEF HandlerOn
  <2> QED BY <1>1, <1>2, <2>1, <2>2, LatestFrame, Zenon
<1>3. ASSUME NEW q \in Policies, PolicyKind[q] = k
      PROVE  \A i \in Nat : EventOf(q, i)' =>
                 Queue(q)'[i].new = policies'[q] \/ \E j \in Nat : i < j /\ EventOf(q, j)'
  <2> SUFFICES ASSUME NEW i \in Nat, EventOf(q, i)', Queue(q)'[i].new # policies'[q]
               PROVE  \E j \in Nat : i < j /\ EventOf(q, j)'
    BY Zenon
  <2>1. EventOf(q, i + 1) /\ i + 1 \in Nat /\ Queue(q)[i + 1].new # policies[q]
    BY <1>3, <1>a, Zenon
  <2>2. PICK j \in Nat : i + 1 < j /\ EventOf(q, j)
    BY <2>1, Zenon DEF Latest
  <2>3. EventOf(q, j - 1)' /\ j - 1 \in Nat /\ i < j - 1
    <3>1. j - 1 \in Nat /\ i < j - 1 /\ j # 1
      BY <2>2
    <3> QED BY <1>3, <1>b, <2>2, <3>1, Zenon
  <2> QED BY <2>3, Zenon
<1>4. ASSUME NEW q \in Policies, PolicyKind[q] = k, q # p PROVE Latest(q)'
  <2>1. ~ HandlerOn(q) /\ ~ HandlerOn(q)'
    BY <1>1, <1>4, Zenon DEF HandlerOn
  <2>2. Stored(q)' <=> Stored(q)
    BY <1>1, <1>4, Zenon DEF Stored
  <2>3. (\A i \in Nat : ~ EventOf(q, i)') => \A i \in Nat : ~ EventOf(q, i)
    <3>1. ~ EventOf(q, 1)
      BY <1>1, <1>4, TailShift, Zenon DEF EventOf
    <3>2. \A i \in Nat : EventOf(q, i) => i # 0
      BY DEF EventOf
    <3>3. \A i \in Nat : i # 0 => i - 1 \in Nat
      OBVIOUS
    <3> QED BY <1>4, <1>b, <3>1, <3>2, <3>3, Zenon
  <2> QED BY <1>3, <1>4, <2>1, <2>2, <2>3, Zenon DEF Latest
<1>5. Latest(p)'
  <2>1. EventOf(p, 1) /\ Queue(p)[1] = Head(events[k])
    BY <1>1, TailShift, Zenon
  <2>2. (\A i \in Nat : ~ EventOf(p, i)') => Head(events[k]).new = policies[p]
    <3> SUFFICES ASSUME \A i \in Nat : ~ EventOf(p, i)', Head(events[k]).new # policies[p]
                 PROVE  FALSE
      BY Zenon
    <3>1. PICK j \in Nat : 1 < j /\ EventOf(p, j)
      BY <2>1, Zenon DEF Latest
    <3>2. EventOf(p, j - 1)' /\ j - 1 \in Nat
      <4>1. j - 1 \in Nat /\ j # 1
        BY <3>1
      <4> QED BY <1>1, <1>b, <3>1, <4>1, Zenon
    <3> QED BY <3>2, Zenon
  <2>3. HandlerOn(p)' <=> handler'[k].step # "deref"
    BY <1>1, Zenon DEF HandlerOn
  <2> QED BY <1>1, <1>3, <2>2, <2>3, Zenon DEF Latest, Stored
<1> QED BY <1>2, <1>4, <1>5, Zenon

LEMMA FAppend ==
    ASSUME MaxCreations = 1, TypeOK, FInv,
           NEW p \in Policies, NEW spec \in SpecsOf[p] \cup {Nil}, ChangePolicy(p, spec)
    PROVE  FInv'
<1>1. PICK k \in PolicyKinds : k = PolicyKind[p]
  BY Keys, Zenon
<1>2. PICK e : e = [obj |-> p, old |-> policies[p], new |-> spec]
  BY Zenon
<1>3. /\ events' = [events EXCEPT ![k] = Append(@, e)]
      /\ policies' = [policies EXCEPT ![p] = spec]
      /\ policies[p] = Nil => creations[p] < MaxCreations
      /\ creations' = [creations EXCEPT ![p] = IF policies[p] = Nil THEN @ + 1 ELSE @]
      /\ handler' = handler /\ internalNPs' = internalNPs
      /\ appliedToGroups' = appliedToGroups /\ addressGroups' = addressGroups
      /\ internalNetworkPolicySync' = internalNetworkPolicySync
  BY <1>1, <1>2, Zenon DEF ChangePolicy, Notify, stores, syncs
<1>4. /\ events[k] \in Seq(MemberEvent \cup NamespaceEvent \cup PolicyEvent)
      /\ events'[k] = Append(events[k], e)
      /\ \A j \in PolicyKinds : j # k => events'[j] = events[j]
  BY <1>3, Zenon DEF TypeOK
<1>5. /\ Len(events[k]) \in Nat
      /\ Len(events'[k]) = Len(events[k]) + 1
      /\ events'[k][Len(events[k]) + 1] = e
      /\ \A i \in 1 .. Len(events[k]) : events'[k][i] = events[k][i]
  BY <1>4
<1>6. \A q \in Policies : Creating(q)' = Creating(q) /\ Untouched(q)' = Untouched(q)
  BY <1>3, Zenon DEF Creating, Untouched, HandlerOn
<1>7. PICK n \in Nat : n = Len(events[k])
  BY <1>5, Zenon
<1>8. ASSUME NEW q \in Policies, PolicyKind[q] = k
      PROVE  \A i \in Nat : /\ EventOf(q, i)' <=> EventOf(q, i) \/ (i = n + 1 /\ q = p)
                            /\ EventOf(q, i) => i < n + 1 /\ Queue(q)'[i] = Queue(q)[i]
  BY <1>2, <1>5, <1>7, <1>8 DEF EventOf, Queue
<1>9. \A q \in Policies : Fresh(q)
  BY Zenon DEF FInv
<1>10. ASSUME NEW q \in Policies, q # p PROVE Fresh(q)'
  <2>1. policies'[q] = policies[q] /\ creations'[q] = creations[q]
    BY <1>3, <1>10, Zenon DEF TypeOK
  <2>2. CASE PolicyKind[q] # k
    <3>1. Queue(q)' = Queue(q)
      BY <1>4, <2>2, Keys, Zenon DEF Queue
    <3> QED BY <1>3, <1>6, <1>9, <2>1, <3>1, FreshFrame, Zenon DEF Untouched, HandlerOn
  <2>3. CASE PolicyKind[q] = k
    <3>1. \A i \in Nat : /\ EventOf(q, i)' <=> EventOf(q, i)
                         /\ EventOf(q, i) => Queue(q)'[i] = Queue(q)[i]
      BY <1>8, <1>10, <2>3, Zenon
    <3> QED BY <1>3, <1>6, <1>9, <2>1, <3>1, Zenon DEF Fresh
  <2> QED BY <2>2, <2>3, Zenon
<1>11. Fresh(p)'
  <2>1. creations[p] \in Nat /\ creations'[p] \in Nat
    BY <1>3 DEF TypeOK
  <2>2. creations'[p] # 0
    BY <1>3, <1>9, <2>1 DEF TypeOK, Fresh
  <2>3. \A i \in Nat : /\ EventOf(p, i)' <=> EventOf(p, i) \/ i = n + 1
                       /\ EventOf(p, i) => i < n + 1 /\ Queue(p)'[i] = Queue(p)[i]
    BY <1>1, <1>8, Zenon
  <2>4. Queue(p)'[n + 1] = e /\ e.old = policies[p] /\ n + 1 \in Nat
    <3>1. Queue(p)' = events'[k]
      BY <1>1, Zenon DEF Queue
    <3>2. events'[k][n + 1] = e
      BY <1>5, <1>7, Zenon
    <3>3. e.old = policies[p]
      BY <1>2, Zenon
    <3>4. n + 1 \in Nat
      BY <1>7
    <3> QED BY <3>1, <3>2, <3>3, <3>4, Zenon
  <2>5. CASE policies[p] = Nil
    <3>1. creations[p] = 0
      <4>1. creations[p] < MaxCreations
        BY <1>3, <2>5, Zenon
      <4> QED BY <2>1, <4>1
    <3>2. Untouched(p) /\ \A i \in Nat : ~ EventOf(p, i)
      BY <1>9, <3>1, Zenon DEF Fresh
    <3>3. ~ Creating(p)
      BY <3>2, Zenon DEF Untouched, HandlerOn, Creating
    <3>4. \A i \in Nat : EventOf(p, i)' => i = n + 1
      BY <2>3, <3>2, Zenon
    <3> QED BY <1>6, <2>2, <3>2, <3>3, <3>4, Zenon DEF Fresh
  <2>6. CASE policies[p] # Nil
    <3>1. ASSUME NEW i \in Nat, EventOf(p, i)', Queue(p)'[i].old = Nil
          PROVE  EventOf(p, i) /\ Queue(p)[i].old = Nil /\ i < n + 1
      BY <2>3, <2>4, <2>6, <3>1, Zenon
    <3>2. ASSUME NEW i \in Nat, EventOf(p, i)', Queue(p)'[i].old = Nil
          PROVE  /\ Untouched(p)'
                 /\ \A j \in Nat : EventOf(p, j)' /\ j # i =>
                        i < j /\ Queue(p)'[j].old # Nil
      <4>1. EventOf(p, i) /\ Queue(p)[i].old = Nil /\ i < n + 1
        BY <3>1, <3>2, Zenon
      <4>2. /\ Untouched(p)
            /\ \A j \in Nat : EventOf(p, j) /\ j # i => i < j /\ Queue(p)[j].old # Nil
        BY <1>9, <4>1, Zenon DEF Fresh
      <4>3. ASSUME NEW j \in Nat, EventOf(p, j)', j # i
            PROVE  i < j /\ Queue(p)'[j].old # Nil
        BY <2>3, <2>4, <2>6, <4>1, <4>2, <4>3, Zenon
      <4> QED BY <1>6, <4>2, <4>3, Zenon
    <3>3. Creating(p)' => /\ internalNetworkPolicySync'[p] = Nil
                          /\ \A i \in Nat : EventOf(p, i)' => Queue(p)'[i].old # Nil
      BY <1>3, <1>6, <1>9, <2>3, <2>4, <2>6, Zenon DEF Fresh
    <3> QED BY <2>2, <3>2, <3>3, Zenon DEF Fresh
  <2> QED BY <2>5, <2>6, Zenon
<1>12. \A q \in Policies : SyncCurrent(q)'
  BY <1>3, Zenon DEF FInv, SyncCurrent
<1>13. ASSUME NEW q \in Policies, q # p PROVE Latest(q)'
  <2>1. policies'[q] = policies[q] /\ Latest(q) /\ (HandlerOn(q)' <=> HandlerOn(q))
    BY <1>3, <1>13, Zenon DEF TypeOK, FInv, HandlerOn
  <2>2. CASE PolicyKind[q] # k
    <3>1. Queue(q)' = Queue(q)
      BY <1>4, <2>2, Keys, Zenon DEF Queue
    <3> QED BY <1>3, <2>1, <3>1, LatestFrame, Zenon
  <2>3. CASE PolicyKind[q] = k
    <3>1. \A i \in Nat : /\ EventOf(q, i)' <=> EventOf(q, i)
                         /\ EventOf(q, i) => Queue(q)'[i] = Queue(q)[i]
      BY <1>8, <1>13, <2>3, Zenon
    <3>2. Stored(q)' <=> Stored(q)
      BY <1>3, <2>1, Zenon DEF Stored
    <3> QED BY <1>3, <2>1, <3>1, <3>2, Zenon DEF Latest
  <2> QED BY <2>2, <2>3, Zenon
<1>14. Latest(p)'
  <2>1. \A i \in Nat : EventOf(p, i)' <=> EventOf(p, i) \/ i = n + 1
    BY <1>1, <1>8, Zenon
  <2>2. \A i \in Nat : EventOf(p, i) => i < n + 1
    BY <1>1, <1>8, Zenon
  <2>3. Queue(p)'[n + 1] = e /\ n + 1 \in Nat
    BY <1>1, <1>5, <1>7 DEF Queue
  <2>4. e.new = policies'[p]
    BY <1>2, <1>3, Zenon DEF TypeOK
  <2> QED BY <2>1, <2>2, <2>3, <2>4, Zenon DEF Latest
<1> QED BY <1>10, <1>11, <1>12, <1>13, <1>14, Zenon DEF FInv

(* A handler's step leaves the policies alone that it is not about.         *)
LEMMA OtherPolicies ==
    ASSUME TypeOK, FInv, NEW k \in PolicyKinds, NEW q \in Policies,
           \A j \in PolicyKinds : j # k => handler'[j] = handler[j],
           PolicyKind[q] = k => ~ HandlerOn(q) /\ ~ HandlerOn(q)',
           events' = events, policies' = policies, creations' = creations,
           internalNetworkPolicySync' = internalNetworkPolicySync,
           internalNPs'[q] = internalNPs[q]
    PROVE  Fresh(q)' /\ SyncCurrent(q)' /\ Latest(q)'
<1>1. Queue(q)' = Queue(q)
  BY Zenon DEF Queue
<1>2. PolicyKind[q] # k => handler'[PolicyKind[q]] = handler[PolicyKind[q]]
  BY Keys, Zenon
<1>3. (HandlerOn(q)' <=> HandlerOn(q)) /\ (Creating(q)' <=> Creating(q))
  BY <1>2, Zenon DEF HandlerOn, Creating
<1>4. HandlerOn(q) => handler'[PolicyKind[q]] = handler[PolicyKind[q]]
  BY <1>2, Zenon
<1>5. Fresh(q) /\ SyncCurrent(q) /\ Latest(q)
  BY Zenon DEF FInv
<1>6. Fresh(q)'
  BY <1>1, <1>3, <1>5, FreshFrame, Zenon
<1>7. Latest(q)'
  BY <1>1, <1>3, <1>4, <1>5, LatestFrame, Zenon
<1> QED BY <1>5, <1>6, <1>7, Zenon DEF SyncCurrent

LEMMA FPolicy ==
    ASSUME TypeOK, PInv, FInv, NEW k \in PolicyKinds, HandlePolicy(k)
    PROVE  FInv'
<1>1. handler \in [PolicyKinds -> HandlerCall \cup {Nil}] /\ Nil \notin HandlerCall
  BY ControllerAssumption, Zenon DEF TypeOK
<1>2. \A q \in Policies : Fresh(q) /\ SyncCurrent(q) /\ Latest(q)
  BY Zenon DEF FInv
<1>3. handler[k] # Nil /\ handler[k].step # "deref" =>
          /\ handler[k].key \in Policies /\ PolicyKind[handler[k].key] = k
          /\ handler[k].spec \in Specs
          /\ handler[k].step = "create" <=> internalNPs[handler[k].key] = Nil
  BY DEF TypeOK, HandlerCall, PInv, HandlerOK
<1>4. Nil \notin Specs
  BY ControllerAssumption, Zenon
<1>5. CASE ProcessPolicy(k)
  <2>1. PICK e : e = Head(events[k])
    BY Zenon
  <2>2. /\ handler[k] = Nil /\ events[k] # <<>> /\ e.new # Nil
        /\ handler' = [handler EXCEPT ![k] =
              [step |-> IF e.old = Nil THEN "create" ELSE "update",
               key |-> e.obj, spec |-> e.new]]
        /\ events' = [events EXCEPT ![k] = Tail(@)]
        /\ policies' = policies /\ creations' = creations
        /\ internalNetworkPolicySync' = internalNetworkPolicySync
        /\ internalNPs' = internalNPs
    BY <1>5, <2>1, Zenon DEF ProcessPolicy, CreateGroups, listers, syncs, bounds
  <2>3. e \in PolicyEvent /\ e.new \in Specs
    BY <2>1, <2>2, Found, Zenon DEF PolicyEvent
  <2>4. /\ handler'[k].step = IF e.old = Nil THEN "create" ELSE "update"
        /\ handler'[k].key = e.obj /\ handler'[k].spec = e.new
        /\ \A j \in PolicyKinds : j # k => handler'[j] = handler[j]
    BY <1>1, <2>2, Zenon
  <2>5. handler'[k] # Nil
    <3>1. [step |-> IF e.old = Nil THEN "create" ELSE "update",
           key |-> e.obj, spec |-> e.new] \in HandlerCall
      BY <2>3, Zenon DEF HandlerCall, PolicyEvent
    <3> QED BY <1>1, <2>2, <3>1, Zenon
  <2>6. /\ handler'[k].key = Head(events[k]).obj /\ handler'[k].spec = Head(events[k]).new
        /\ handler'[k].step # "deref"
        /\ handler'[k].step = "create" => Head(events[k]).old = Nil
    BY <2>1, <2>4, Zenon
  <2>7. \A q \in Policies : internalNPs'[q] = internalNPs[q]
    BY <2>2, Zenon
  <2>8. \A q \in Policies : Fresh(q)'
    BY <1>2, <2>2, <2>4, <2>6, <2>7, FreshTail, Zenon
  <2>9. \A q \in Policies : Latest(q)'
    BY <1>2, <2>2, <2>4, <2>5, <2>6, <2>7, LatestTail, Zenon
  <2> QED BY <1>2, <2>2, <2>8, <2>9, Zenon DEF FInv, SyncCurrent
<1>6. CASE CreateInternalNP(k)
  <2>1. PICK p \in Policies : p = handler[k].key /\ PolicyKind[p] = k /\ internalNPs[p] = Nil
    BY <1>3, <1>6, Zenon DEF CreateInternalNP
  <2>2. /\ handler[k] # Nil /\ handler[k].step = "create"
        /\ handler' = [handler EXCEPT ![k] = Nil]
        /\ events' = events /\ policies' = policies /\ creations' = creations
        /\ internalNetworkPolicySync' = internalNetworkPolicySync
        /\ internalNPs' = [internalNPs EXCEPT ![p] =
              [appliedToGroups |-> handler[k].spec.appliedTo,
               addressGroups |-> handler[k].spec.peers, span |-> {}]]
    BY <1>6, <2>1, Zenon DEF CreateInternalNP, listers, syncs, bounds
  <2>3. /\ \A q \in Policies : q # p => internalNPs'[q] = internalNPs[q]
        /\ internalNPs'[p] = [appliedToGroups |-> handler[k].spec.appliedTo,
                              addressGroups |-> handler[k].spec.peers, span |-> {}]
        /\ handler'[k] = Nil /\ \A j \in PolicyKinds : j # k => handler'[j] = handler[j]
    BY <1>1, <2>2, Zenon DEF TypeOK
  <2>4. \A q \in Policies : q # p => Fresh(q)' /\ SyncCurrent(q)' /\ Latest(q)'
    <3>1. \A q \in Policies : q # p /\ PolicyKind[q] = k => ~ HandlerOn(q) /\ ~ HandlerOn(q)'
      BY <2>1, <2>3, Zenon DEF HandlerOn
    <3> QED BY <2>2, <2>3, <3>1, OtherPolicies, Zenon
  <2>5. /\ Creating(p) /\ HandlerOn(p) /\ ~ HandlerOn(p)' /\ ~ Creating(p)'
        /\ Queue(p)' = Queue(p) /\ \A i \in Nat : EventOf(p, i)' <=> EventOf(p, i)
    BY <2>1, <2>2, <2>3, Zenon DEF Creating, HandlerOn, Queue, EventOf
  <2>6. Fresh(p)'
    <3>1. creations[p] # 0 /\ \A i \in Nat : EventOf(p, i) => Queue(p)[i].old # Nil
      BY <1>2, <2>5, Zenon DEF Fresh, Untouched
    <3> QED BY <2>2, <2>5, <3>1, Zenon DEF Fresh
  <2>7. SyncCurrent(p)'
    BY <1>2, <2>2, <2>5, Zenon DEF Fresh, SyncCurrent
  <2>8. Latest(p)'
    <3>1. internalNPs'[p] # Nil
      <4>1. internalNPs'[p] \in InternalNP
        BY <1>3, <2>2, <2>3, Keys DEF InternalNP
      <4> QED BY <4>1, ControllerAssumption, Zenon
    <3>2. (\A i \in Nat : ~ EventOf(p, i)) => Stored(p)'
      BY <1>2, <1>3, <1>4, <2>1, <2>2, <2>3, <2>5, <3>1, SMTT(30) DEF Latest, Stored
    <3> QED BY <1>2, <2>2, <2>5, <3>2, Zenon DEF Latest
  <2> QED BY <2>4, <2>6, <2>7, <2>8, Zenon DEF FInv
<1>7. CASE UpdateInternalNP(k)
  <2>1. PICK p \in Policies : p = handler[k].key /\ PolicyKind[p] = k /\ internalNPs[p] # Nil
    BY <1>3, <1>7, Zenon DEF UpdateInternalNP
  <2>2. /\ handler[k] # Nil /\ handler[k].step = "update" /\ MutexFree
        /\ events' = events /\ policies' = policies /\ creations' = creations
        /\ internalNetworkPolicySync' = internalNetworkPolicySync
        /\ internalNPs' = [internalNPs EXCEPT ![p] =
              [appliedToGroups |-> handler[k].spec.appliedTo,
               addressGroups |-> handler[k].spec.peers,
               span |-> internalNPs[p].span]]
    BY <1>7, <2>1, Zenon DEF UpdateInternalNP, CommitUpdate, listers, syncs, bounds
  <2>3. /\ \A q \in Policies : q # p => internalNPs'[q] = internalNPs[q]
        /\ internalNPs'[p] = [appliedToGroups |-> handler[k].spec.appliedTo,
                              addressGroups |-> handler[k].spec.peers,
                              span |-> internalNPs[p].span]
    BY <2>2, Zenon DEF TypeOK
  <2>4. handler'[k].step = "deref" /\ \A j \in PolicyKinds : j # k => handler'[j] = handler[j]
    BY <1>7, <1>1, Zenon DEF UpdateInternalNP, CommitUpdate
  <2>5. \A q \in Policies : q # p => Fresh(q)' /\ SyncCurrent(q)' /\ Latest(q)'
    <3>1. \A q \in Policies : q # p /\ PolicyKind[q] = k => ~ HandlerOn(q) /\ ~ HandlerOn(q)'
      BY <2>1, <2>4, Zenon DEF HandlerOn
    <3> QED BY <2>2, <2>3, <2>4, <3>1, OtherPolicies, Zenon
  <2>6. /\ HandlerOn(p) /\ ~ HandlerOn(p)' /\ ~ Creating(p)'
        /\ Queue(p)' = Queue(p) /\ \A i \in Nat : EventOf(p, i)' <=> EventOf(p, i)
    BY <2>1, <2>2, <2>4, Zenon DEF Creating, HandlerOn, Queue, EventOf
  <2>7. Fresh(p)'
    <3>1. creations[p] # 0 /\ \A i \in Nat : EventOf(p, i) => Queue(p)[i].old # Nil
      BY <1>2, <2>6, Zenon DEF Fresh, Untouched
    <3> QED BY <2>2, <2>6, <3>1, Zenon DEF Fresh
  <2>8. SyncCurrent(p)'
    BY <2>2, Zenon DEF SyncCurrent, MutexFree
  <2>9. Latest(p)'
    <3>1. internalNPs'[p] # Nil
      <4>1. internalNPs[p].span \in SUBSET Nodes
        BY <2>1, Zenon DEF TypeOK, InternalNP
      <4>2. internalNPs'[p] \in InternalNP
        BY <1>3, <2>2, <2>3, <4>1, Keys DEF InternalNP
      <4> QED BY <4>2, ControllerAssumption, Zenon
    <3>2. (\A i \in Nat : ~ EventOf(p, i)) => Stored(p)'
      BY <1>2, <1>3, <1>4, <2>1, <2>2, <2>3, <2>6, <3>1, SMTT(30) DEF Latest, Stored
    <3> QED BY <1>2, <2>2, <2>6, <3>2, Zenon DEF Latest
  <2> QED BY <2>5, <2>7, <2>8, <2>9, Zenon DEF FInv
<1>8. CASE DeleteInternalNP(k)
  <2>1. PICK p \in Policies : p = Head(events[k]).obj
    BY <1>8, Found, Zenon DEF DeleteInternalNP, PolicyEvent
  <2>2. /\ handler[k] = Nil /\ events[k] # <<>> /\ Head(events[k]).new = Nil
        /\ events' = [events EXCEPT ![k] = Tail(@)]
        /\ policies' = policies /\ creations' = creations
        /\ internalNetworkPolicySync' = internalNetworkPolicySync
        /\ internalNPs' = [internalNPs EXCEPT ![p] = Nil]
        /\ handler' = [handler EXCEPT ![k] =
              [step |-> "deref",
               appliedToGroups |-> internalNPs[p].appliedToGroups,
               addressGroups |-> internalNPs[p].addressGroups]]
    BY <1>8, <2>1, Zenon DEF DeleteInternalNP, listers, syncs, bounds
  <2>3. handler'[k].step = "deref" /\ \A j \in PolicyKinds : j # k => handler'[j] = handler[j]
    BY <1>1, <2>2, Zenon
  <2>4. internalNPs'[p] = Nil /\ \A q \in Policies : q # p => internalNPs'[q] = internalNPs[q]
    BY <2>2, Zenon DEF TypeOK
  <2>5. \A q \in Policies : Fresh(q)'
    BY <1>2, <2>1, <2>2, <2>3, <2>4, FreshTail, Zenon
  <2>6. handler'[k] # Nil
    <3>1. internalNPs[p] \in InternalNP
      <4>1. handler[k] = Nil /\ events[k] # <<>>
        BY <2>2, Zenon
      <4>2. internalNPs[p] # Nil
        BY <2>1, <2>2, <4>1, Found, Zenon
      <4> QED BY <4>2, Zenon DEF TypeOK
    <3>2. [step |-> "deref", appliedToGroups |-> internalNPs[p].appliedToGroups,
           addressGroups |-> internalNPs[p].addressGroups] \in HandlerCall
      BY <3>1, Zenon DEF HandlerCall, InternalNP
    <3> QED BY <1>1, <2>2, <3>2, Zenon
  <2>7. \A q \in Policies : Latest(q)'
    BY <1>2, <2>1, <2>2, <2>3, <2>4, <2>6, LatestTail, Zenon
  <2> QED BY <1>2, <2>2, <2>4, <2>5, <2>7, Zenon DEF FInv, SyncCurrent
<1>9. CASE DeleteDereferencedGroups(k)
  <2>1. /\ handler[k] # Nil /\ handler[k].step = "deref"
        /\ handler' = [handler EXCEPT ![k] = Nil]
        /\ events' = events /\ policies' = policies /\ creations' = creations
        /\ internalNPs' = internalNPs
        /\ internalNetworkPolicySync' = internalNetworkPolicySync
    BY <1>9, Zenon DEF DeleteDereferencedGroups, DeleteGroups, listers, syncs, bounds
  <2>2. handler'[k] = Nil /\ \A j \in PolicyKinds : j # k => handler'[j] = handler[j]
    BY <1>1, <2>1, Zenon
  <2>3. \A q \in Policies : PolicyKind[q] = k => ~ HandlerOn(q) /\ ~ HandlerOn(q)'
    BY <2>1, <2>2, Zenon DEF HandlerOn
  <2> QED BY <2>1, <2>2, <2>3, OtherPolicies, Zenon DEF FInv
<1> QED BY <1>5, <1>6, <1>7, <1>8, <1>9, Zenon DEF HandlePolicy

LEMMA FSync ==
    ASSUME TypeOK, PInv, FInv, Sync PROVE FInv'
<1>1. /\ handler' = handler /\ policies' = policies /\ events' = events
      /\ creations' = creations
  BY Zenon DEF Sync, SyncAppliedToGroupCompute, SyncAppliedToGroupStore,
         SyncAppliedToGroupEnqueue, SyncAddressGroupCompute, SyncAddressGroupStore,
         SyncInternalNPRead, SyncInternalNPStore, listers, bounds
<1>2. \A p \in Policies : /\ Queue(p)' = Queue(p)
                          /\ HandlerOn(p)' <=> HandlerOn(p)
                          /\ Creating(p)' <=> Creating(p)
                          /\ \A i \in Nat : EventOf(p, i)' <=> EventOf(p, i)
                          /\ handler'[PolicyKind[p]] = handler[PolicyKind[p]]
  BY <1>1, Zenon DEF Queue, HandlerOn, Creating, EventOf
<1>3. \A p \in Policies : Fresh(p) /\ SyncCurrent(p) /\ Latest(p)
  BY Zenon DEF FInv
<1>4. ASSUME NEW g, \/ SyncAppliedToGroupCompute(g) \/ SyncAppliedToGroupStore(g)
                    \/ SyncAppliedToGroupEnqueue(g) \/ SyncAddressGroupCompute(g)
                    \/ SyncAddressGroupStore(g)
      PROVE  FInv'
  <2>1. internalNPs' = internalNPs /\ internalNetworkPolicySync' = internalNetworkPolicySync
    BY <1>4, Zenon DEF SyncAppliedToGroupCompute, SyncAppliedToGroupStore, SyncAppliedToGroupEnqueue,
                SyncAddressGroupCompute, SyncAddressGroupStore, stores
  <2> QED BY <1>1, <2>1, FFrame, Zenon
<1>5. ASSUME NEW p \in Policies, SyncInternalNPRead(p) PROVE FInv'
  <2>1. /\ internalNPs' = internalNPs /\ internalNPs[p] # Nil
        /\ internalNetworkPolicySync' = [internalNetworkPolicySync EXCEPT ![p] =
              [np |-> internalNPs[p],
               span |-> AppliedToSpan(internalNPs[p].appliedToGroups)]]
    BY <1>5, Zenon DEF SyncInternalNPRead, stores
  <2>2. /\ \A q \in Policies : q # p =>
              internalNetworkPolicySync'[q] = internalNetworkPolicySync[q]
        /\ internalNetworkPolicySync'[p].np = internalNPs[p]
    BY <2>1, Zenon DEF TypeOK
  <2>3. \A q \in Policies : q # p => Fresh(q)'
    BY <1>1, <1>2, <1>3, <2>1, <2>2, FreshFrame, Zenon
  <2>4. Fresh(p)'
    <3>1. ~ Creating(p)
      <4>1. PICK k \in PolicyKinds : k = PolicyKind[p]
        BY Keys, Zenon
      <4>2. Creating(p) => handler[k] # Nil /\ handler[k].step = "create" /\ handler[k].key = p
        BY <4>1, Zenon DEF Creating
      <4>3. handler[k] # Nil /\ handler[k].step = "create" => internalNPs[handler[k].key] = Nil
        BY <4>1, Zenon DEF PInv, HandlerOK
      <4> QED BY <2>1, <4>2, <4>3, Zenon
    <3>2. creations[p] # 0 /\ \A i \in Nat : EventOf(p, i) => Queue(p)[i].old # Nil
      BY <1>3, <2>1, Zenon DEF Fresh, Untouched
    <3> QED BY <1>1, <1>2, <3>1, <3>2, Zenon DEF Fresh
  <2>5. \A q \in Policies : Latest(q)'
    BY <1>1, <1>2, <1>3, <2>1, LatestFrame, Zenon
  <2> QED BY <1>3, <2>1, <2>2, <2>3, <2>4, <2>5, Zenon DEF FInv, SyncCurrent
<1>6. ASSUME NEW p \in Policies, SyncInternalNPStore(p) PROVE FInv'
  <2>1. /\ internalNetworkPolicySync[p] # Nil
        /\ internalNetworkPolicySync' = [internalNetworkPolicySync EXCEPT ![p] = Nil]
    BY <1>6, Zenon DEF SyncInternalNPStore
  <2>2. \A q \in Policies : internalNPs'[q] = Nil <=> internalNPs[q] = Nil
    BY <1>6, StoreKeeps, Zenon
  <2>3. \A q \in Policies : q # p =>
            /\ internalNetworkPolicySync'[q] = internalNetworkPolicySync[q]
            /\ internalNPs'[q] = internalNPs[q]
    BY <1>6, <2>1, Zenon DEF SyncInternalNPStore, TypeOK
  <2>4. internalNetworkPolicySync'[p] = Nil
    BY <2>1, Zenon DEF TypeOK
  <2>5. \A q \in Policies : q # p => Fresh(q)'
    BY <1>1, <1>2, <1>3, <2>2, <2>3, FreshFrame, Zenon
  <2>6. Fresh(p)'
    <3>1. creations[p] # 0 /\ ~ Creating(p)
          /\ \A i \in Nat : EventOf(p, i) => Queue(p)[i].old # Nil
      BY <1>3, <2>1, Zenon DEF Fresh, Untouched
    <3> QED BY <1>1, <1>2, <3>1, Zenon DEF Fresh
  <2>7. \A q \in Policies : internalNPs[q] # Nil =>
            /\ internalNPs'[q].appliedToGroups = internalNPs[q].appliedToGroups
            /\ internalNPs'[q].addressGroups = internalNPs[q].addressGroups
    BY <1>3, <1>6, <2>1, <2>3 DEF SyncCurrent, SyncInternalNPStore, TypeOK, InternalNP
  <2>8. \A q \in Policies : Latest(q)'
    BY <1>1, <1>2, <1>3, <2>2, <2>7, LatestFrame, Zenon
  <2> QED BY <1>3, <2>3, <2>4, <2>5, <2>6, <2>8, Zenon DEF FInv, SyncCurrent
<1> QED BY <1>4, <1>5, <1>6, Zenon DEF Sync

LEMMA FStep ==
    ASSUME MaxCreations = 1, TypeOK, PInv, FInv, [Next]_vars
    PROVE  FInv'
<1>1. CASE ApiChange
  <2>1. ASSUME NEW m \in Members, NEW attr, ChangeMember(m, attr) PROVE FInv'
    <3>1. \A k \in PolicyKinds : events'[k] = events[k]
      BY <2>1, Keys, MembersAssumption, Zenon DEF ChangeMember, Notify, TypeOK
    <3> QED BY <2>1, <3>1, FFrame, Zenon DEF ChangeMember, stores, syncs
  <2>2. ASSUME NEW ns, NEW label, ChangeNamespace(ns, label) PROVE FInv'
    <3>1. \A k \in PolicyKinds : events'[k] = events[k]
      BY <2>2, Keys, Zenon DEF ChangeNamespace, Notify, TypeOK
    <3> QED BY <2>2, <3>1, FFrame, Zenon DEF ChangeNamespace, stores, syncs
  <2> QED BY <1>1, <2>1, <2>2, FAppend, Zenon DEF ApiChange
<1>2. CASE HandlePodEvent \/ HandleExternalEntityEvent \/ HandleNamespaceEvent
  <2>1. \A k \in PolicyKinds : events'[k] = events[k]
    BY <1>2, Keys, Zenon DEF HandlePodEvent, HandleExternalEntityEvent, HandleNamespaceEvent,
                      TypeOK
  <2> QED BY <1>2, <2>1, FFrame, Zenon DEF HandlePodEvent, HandleExternalEntityEvent,
                HandleNamespaceEvent, listers, stores, syncs, bounds
<1>3. CASE HandleNetworkPolicy \/ HandleCNP \/ HandleANP
  <2>1. PICK k \in PolicyKinds : HandlePolicy(k)
    BY <1>3, Zenon DEF HandleNetworkPolicy, HandleCNP, HandleANP, HandlePolicy
  <2> QED BY <2>1, FPolicy, Zenon
<1>4. CASE Sync
  BY <1>4, FSync, Zenon
<1>5. CASE UNCHANGED vars
  BY <1>5, FFrame, Zenon DEF vars, listers, stores, syncs, bounds
<1> QED BY <1>1, <1>2, <1>3, <1>4, <1>5, Zenon DEF Next, Handle

(* Once nothing is pending the store holds the policies of the API with     *)
(* their groups, whatever the three informers, the workers and the mutex    *)
(* do in between: no sync brings back what an update replaced or a delete   *)
(* removed (syncInternalNetworkPolicy, updateNetworkPolicy).  A name must   *)
(* not be used twice: see the run controller_recreate.                      *)
THEOREM StoreFollows ==
    ASSUME MaxCreations = 1 PROVE Spec => []StoredAsSpecified
<1>1. Init => TypeOK /\ PInv /\ FInv
  BY TypeInit, PInit, FInit, Zenon
<1>2. TypeOK /\ PInv /\ FInv /\ [Next]_vars => TypeOK' /\ PInv' /\ FInv'
  BY PStep, FStep, Zenon
<1>3. TypeOK /\ FInv => StoredAsSpecified
  <2> SUFFICES ASSUME TypeOK, FInv, Quiescent, NEW p \in Policies PROVE Stored(p)
    BY Zenon DEF StoredAsSpecified, Stored
  <2>1. Queue(p) = <<>> /\ handler[PolicyKind[p]] = Nil
    BY Keys, Zenon DEF Quiescent, Queue, TypeOK
  <2>2. \A i \in Nat : ~ EventOf(p, i)
    BY <2>1 DEF EventOf
  <2> QED BY <2>1, <2>2, Zenon DEF FInv, Latest, HandlerOn
<1> QED BY <1>1, <1>2, <1>3, PTL DEF Spec

-----------------------------------------------------------------------------
(* No stored policy refers to a group that is gone, if there is one policy  *)
(* informer and names of policies are not used again: DInv adds the groups  *)
(* of the policies that the handlers are about to store.                    *)

(* All policies come from one informer.                                     *)
OneInformer == \A p, q \in Policies : PolicyKind[p] = PolicyKind[q]

(* The groups of a policy about to be stored exist.                         *)
SpecGroups(k) ==
    handler[k] # Nil /\ handler[k].step # "deref" =>
        /\ \A g \in handler[k].spec.appliedTo : appliedToGroups[g] # Nil
        /\ \A g \in handler[k].spec.peers : addressGroups[g] # Nil

DInv == NoDanglingGroup /\ \A k \in PolicyKinds : SpecGroups(k)

LEMMA DInit == Init => DInv
BY ZenonT(40) DEF Init, DInv, NoDanglingGroup, SpecGroups

(* A step that keeps the handlers and the groups that policies refer to,    *)
(* and deletes no group.                                                    *)
LEMMA DFrame ==
    ASSUME TypeOK, DInv, handler' = handler,
           \A p \in Policies : internalNPs'[p] # Nil =>
               /\ internalNPs[p] # Nil
               /\ internalNPs'[p].appliedToGroups = internalNPs[p].appliedToGroups
               /\ internalNPs'[p].addressGroups = internalNPs[p].addressGroups,
           \A g \in AppliedToKeys : appliedToGroups[g] # Nil => appliedToGroups'[g] # Nil,
           \A g \in AddressKeys : addressGroups[g] # Nil => addressGroups'[g] # Nil
    PROVE  DInv'
<1>1. ASSUME NEW k \in PolicyKinds PROVE SpecGroups(k)'
  <2>1. handler[k] # Nil /\ handler[k].step # "deref" =>
            /\ handler[k].spec.appliedTo \subseteq AppliedToKeys
            /\ handler[k].spec.peers \subseteq AddressKeys
    BY Keys DEF TypeOK, HandlerCall
  <2> QED BY <2>1, Zenon DEF DInv, SpecGroups
<1>2. NoDanglingGroup'
  BY DEF DInv, NoDanglingGroup, TypeOK, InternalNP
<1> QED BY <1>1, <1>2, Zenon DEF DInv

LEMMA DPolicy ==
    ASSUME OneInformer, TypeOK, PInv, DInv, NEW k \in PolicyKinds, HandlePolicy(k)
    PROVE  DInv'
<1>1. \A j \in PolicyKinds : j = k
  BY DEF OneInformer, PolicyKinds
<1>2. handler \in [PolicyKinds -> HandlerCall \cup {Nil}] /\ Nil \notin HandlerCall
  BY ControllerAssumption, Zenon DEF TypeOK
<1>3. CASE ProcessPolicy(k)
  <2>1. PICK e : e = Head(events[k])
    BY Zenon
  <2>2. /\ handler[k] = Nil /\ events[k] # <<>> /\ e.new # Nil
        /\ handler' = [handler EXCEPT ![k] =
              [step |-> IF e.old = Nil THEN "create" ELSE "update",
               key |-> e.obj, spec |-> e.new]]
        /\ CreateGroups(e.new) /\ internalNPs' = internalNPs
    BY <1>3, <2>1, Zenon DEF ProcessPolicy, CreateGroups
  <2>3. e.new \in Specs
    BY <2>1, <2>2, Found, Zenon DEF PolicyEvent
  <2>4. NewAppliedToGroup # Nil /\ NewAddressGroup # Nil
    <3>1. NewAppliedToGroup \in AppliedToGroup /\ NewAddressGroup \in AddressGroup
      BY Zenon DEF NewAppliedToGroup, NewAddressGroup, AppliedToGroup, AddressGroup
    <3> QED BY <3>1, ControllerAssumption, Zenon
  <2>5. /\ \A g \in AppliedToKeys : appliedToGroups[g] # Nil => appliedToGroups'[g] # Nil
        /\ \A g \in AddressKeys : addressGroups[g] # Nil => addressGroups'[g] # Nil
        /\ \A g \in e.new.appliedTo : appliedToGroups'[g] # Nil
        /\ \A g \in e.new.peers : addressGroups'[g] # Nil
    BY <2>2, <2>3, <2>4, Keys, Zenon DEF CreateGroups
  <2>6. SpecGroups(k)'
    <3>1. handler'[k].spec = e.new
      BY <1>2, <2>2, Zenon
    <3> QED BY <2>5, <3>1, Zenon DEF SpecGroups
  <2>7. NoDanglingGroup'
    BY <2>2, <2>5, Zenon DEF DInv, NoDanglingGroup, TypeOK, InternalNP
  <2> QED BY <1>1, <2>6, <2>7, Zenon DEF DInv
<1>4. ASSUME NEW p \in Policies, NEW span, handler[k] # Nil, handler[k].step # "deref",
             appliedToGroups' = appliedToGroups, addressGroups' = addressGroups,
             handler'[k] = Nil \/ handler'[k].step = "deref",
             internalNPs' = [internalNPs EXCEPT ![p] =
                 [appliedToGroups |-> handler[k].spec.appliedTo,
                  addressGroups |-> handler[k].spec.peers, span |-> span]]
      PROVE  DInv'
  <2>1. SpecGroups(k)'
    BY <1>4, Zenon DEF SpecGroups
  <2>2. /\ \A q \in Policies : q # p => internalNPs'[q] = internalNPs[q]
        /\ internalNPs'[p].appliedToGroups = handler[k].spec.appliedTo
        /\ internalNPs'[p].addressGroups = handler[k].spec.peers
    BY <1>4, Zenon DEF TypeOK
  <2>3. NoDanglingGroup'
    BY <1>4, <2>2 DEF DInv, NoDanglingGroup, SpecGroups
  <2> QED BY <1>1, <2>1, <2>3, Zenon DEF DInv
<1>5. CASE CreateInternalNP(k)
  <2>1. handler[k].key \in Policies /\ internalNPs[handler[k].key] = Nil /\ handler'[k] = Nil
    BY <1>2, <1>5 DEF CreateInternalNP, TypeOK, HandlerCall, PInv, HandlerOK
  <2> QED BY <1>4, <1>5, <2>1, Zenon DEF CreateInternalNP
<1>6. CASE UpdateInternalNP(k)
  <2>1. handler[k].key \in Policies /\ handler'[k].step = "deref"
    BY <1>2, <1>6, Zenon DEF UpdateInternalNP, CommitUpdate, TypeOK, HandlerCall
  <2> QED BY <1>4, <1>6, <2>1, Zenon DEF UpdateInternalNP, CommitUpdate
<1>7. CASE DeleteInternalNP(k)
  <2>1. PICK p \in Policies : p = Head(events[k]).obj
    BY <1>7, Found, Zenon DEF DeleteInternalNP, PolicyEvent
  <2>2. /\ appliedToGroups' = appliedToGroups /\ addressGroups' = addressGroups
        /\ internalNPs' = [internalNPs EXCEPT ![p] = Nil] /\ handler'[k].step = "deref"
    BY <1>2, <1>7, <2>1, Zenon DEF DeleteInternalNP
  <2>3. internalNPs'[p] = Nil /\ \A q \in Policies : q # p => internalNPs'[q] = internalNPs[q]
    BY <2>2, Zenon DEF TypeOK
  <2>4. NoDanglingGroup' /\ SpecGroups(k)'
    BY <2>2, <2>3, Zenon DEF DInv, NoDanglingGroup, SpecGroups
  <2> QED BY <1>1, <2>4, Zenon DEF DInv
<1>8. CASE DeleteDereferencedGroups(k)
  <2>1. handler'[k] = Nil /\ internalNPs' = internalNPs
    BY <1>2, <1>8, Zenon DEF DeleteDereferencedGroups, DeleteGroups
  <2>2. SpecGroups(k)'
    BY <2>1, Zenon DEF SpecGroups
  <2>3. NoDanglingGroup'
    <3> SUFFICES ASSUME NEW q \in Policies, internalNPs[q] # Nil
                 PROVE  /\ \A g \in internalNPs[q].appliedToGroups : appliedToGroups'[g] # Nil
                        /\ \A g \in internalNPs[q].addressGroups : addressGroups'[g] # Nil
      BY <2>1, Zenon DEF NoDanglingGroup
    <3>1. /\ internalNPs[q].appliedToGroups \subseteq AppliedToKeys
          /\ internalNPs[q].addressGroups \subseteq AddressKeys
      BY Zenon DEF TypeOK, InternalNP
    <3>2. \A g \in internalNPs[q].appliedToGroups :
              AppliedToGroupReferrers(g) # {} /\ appliedToGroups[g] # Nil
      BY Zenon DEF AppliedToGroupReferrers, DInv, NoDanglingGroup
    <3>3. \A g \in internalNPs[q].addressGroups :
              AddressGroupReferrers(g) # {} /\ addressGroups[g] # Nil
      BY Zenon DEF AddressGroupReferrers, DInv, NoDanglingGroup
    <3> QED BY <1>8, <3>1, <3>2, <3>3, Zenon DEF DeleteDereferencedGroups, DeleteGroups
  <2> QED BY <1>1, <2>2, <2>3, Zenon DEF DInv
<1> QED BY <1>3, <1>5, <1>6, <1>7, <1>8, Zenon DEF HandlePolicy

(* What the syncs change of the stores.                                     *)
LEMMA SyncStores ==
    ASSUME TypeOK, FInv, Sync
    PROVE  /\ handler' = handler /\ events' = events
           /\ UNCHANGED <<members, namespaces, policies>>
           /\ \A p \in Policies : internalNPs'[p] = Nil <=> internalNPs[p] = Nil
           /\ \A p \in Policies : internalNPs[p] # Nil =>
                 /\ internalNPs'[p].appliedToGroups = internalNPs[p].appliedToGroups
                 /\ internalNPs'[p].addressGroups = internalNPs[p].addressGroups
           /\ \A g \in AppliedToKeys : appliedToGroups'[g] = Nil <=> appliedToGroups[g] = Nil
           /\ \A g \in AddressKeys : addressGroups'[g] = Nil <=> addressGroups[g] = Nil
<1>1. handler' = handler /\ events' = events /\ UNCHANGED <<members, namespaces, policies>>
  BY Zenon DEF Sync, SyncAppliedToGroupCompute, SyncAppliedToGroupStore,
         SyncAppliedToGroupEnqueue, SyncAddressGroupCompute, SyncAddressGroupStore,
         SyncInternalNPRead, SyncInternalNPStore, listers, bounds
<1>2. ASSUME NEW g \in AppliedToKeys, SyncAppliedToGroupStore(g)
      PROVE  /\ internalNPs' = internalNPs /\ addressGroups' = addressGroups
             /\ \A h \in AppliedToKeys : appliedToGroups'[h] = Nil <=> appliedToGroups[h] = Nil
  <2>1. [appliedToGroups[g] EXCEPT !.members = appliedToGroupSync[g].members] # Nil
             \/ appliedToGroups[g] = Nil
    BY <1>2, ControllerAssumption, Zenon DEF SyncAppliedToGroupStore, TypeOK, AppliedToGroup,
                                      AppliedToGroupCall
  <2> QED BY <1>2, <2>1, Zenon DEF SyncAppliedToGroupStore, TypeOK
<1>3. ASSUME NEW g \in AddressKeys, SyncAddressGroupStore(g)
      PROVE  /\ internalNPs' = internalNPs /\ appliedToGroups' = appliedToGroups
             /\ \A h \in AddressKeys : addressGroups'[h] = Nil <=> addressGroups[h] = Nil
  BY <1>3, Zenon DEF SyncAddressGroupStore, TypeOK
<1>4. ASSUME NEW g, \/ SyncAppliedToGroupCompute(g) \/ SyncAppliedToGroupEnqueue(g)
                    \/ SyncAddressGroupCompute(g) \/ SyncInternalNPRead(g)
      PROVE  UNCHANGED stores
  BY <1>4, Zenon DEF SyncAppliedToGroupCompute, SyncAppliedToGroupEnqueue, SyncAddressGroupCompute,
              SyncInternalNPRead
<1>5. ASSUME NEW p \in Policies, SyncInternalNPStore(p)
      PROVE  /\ appliedToGroups' = appliedToGroups /\ addressGroups' = addressGroups
             /\ \A q \in Policies : internalNPs'[q] = Nil <=> internalNPs[q] = Nil
             /\ \A q \in Policies : internalNPs[q] # Nil =>
                   /\ internalNPs'[q].appliedToGroups = internalNPs[q].appliedToGroups
                   /\ internalNPs'[q].addressGroups = internalNPs[q].addressGroups
  <2>1. \A q \in Policies : internalNPs'[q] = Nil <=> internalNPs[q] = Nil
    BY <1>5, StoreKeeps, Zenon
  <2>2. SyncCurrent(p)
    BY Zenon DEF FInv
  <2> QED BY <1>5, <2>1, <2>2 DEF SyncCurrent, SyncInternalNPStore, TypeOK, InternalNP
<1> QED BY <1>1, <1>2, <1>3, <1>4, <1>5, Zenon DEF Sync, stores

LEMMA DStep ==
    ASSUME OneInformer, TypeOK, PInv, FInv, DInv, [Next]_vars
    PROVE  DInv'
<1>1. CASE ApiChange
  BY <1>1, DFrame, Zenon DEF ApiChange, ChangeMember, ChangeNamespace, ChangePolicy, stores
<1>2. CASE HandlePodEvent \/ HandleExternalEntityEvent \/ HandleNamespaceEvent
  BY <1>2, DFrame, Zenon DEF HandlePodEvent, HandleExternalEntityEvent, HandleNamespaceEvent, stores
<1>3. CASE HandleNetworkPolicy \/ HandleCNP \/ HandleANP
  <2>1. PICK k \in PolicyKinds : HandlePolicy(k)
    BY <1>3, Zenon DEF HandleNetworkPolicy, HandleCNP, HandleANP, HandlePolicy
  <2> QED BY <2>1, DPolicy, Zenon
<1>4. CASE Sync
  BY <1>4, SyncStores, DFrame, Zenon
<1>5. CASE UNCHANGED vars
  BY <1>5, DFrame, Zenon DEF vars, stores
<1> QED BY <1>1, <1>2, <1>3, <1>4, <1>5, Zenon DEF Next, Handle

(* When all policies come from one informer and no policy name is used      *)
(* twice, a stored policy never names a group that deleteDereferenced...    *)
(* has removed, for any number of policies, groups, workers and changes.    *)
(* With more informers it may: see the run controller_dangling.             *)
THEOREM NoDangling ==
    ASSUME OneInformer, MaxCreations = 1 PROVE Spec => []NoDanglingGroup
<1>1. Init => TypeOK /\ PInv /\ FInv /\ DInv
  BY TypeInit, PInit, FInit, DInit, Zenon
<1>2. TypeOK /\ PInv /\ FInv /\ DInv /\ [Next]_vars => TypeOK' /\ PInv' /\ FInv' /\ DInv'
  BY PStep, FStep, DStep, Zenon
<1>3. DInv => NoDanglingGroup
  BY Zenon DEF DInv
<1> QED BY <1>1, <1>2, <1>3, PTL DEF Spec

-----------------------------------------------------------------------------
(* Spans.  The span of a policy is that of its AppliedToGroups, or is about *)
(* to be.                                                                   *)
SpanRight(p) ==
    internalNPs[p] # Nil =>
        \/ p \in internalNetworkPolicyQueue
        \/ \E g \in internalNPs[p].appliedToGroups :
              appliedToGroupSync[g] # Nil /\ appliedToGroupSync[g].step = "enqueue"
        \/ AppliedToSpan(internalNPs[p].appliedToGroups) =
              IF internalNetworkPolicySync[p] # Nil THEN internalNetworkPolicySync[p].span
              ELSE internalNPs[p].span

(* The AddressGroups of a policy reach its span, or are about to.           *)
Reached(p) ==
    internalNPs[p] # Nil => \A g \in internalNPs[p].addressGroups :
        g \in addressGroupQueue \/ internalNPs[p].span \subseteq AddressWritten(g).span

Spans == \A p \in Policies : SpanRight(p) /\ Reached(p)

LEMMA SpanFrame ==
    ASSUME NEW p \in Policies, SpanRight(p),
           internalNPs[p] # Nil => internalNPs[p].appliedToGroups \subseteq AppliedToKeys,
           internalNPs'[p] = Nil \/ internalNPs'[p] = internalNPs[p],
           p \in internalNetworkPolicyQueue => p \in internalNetworkPolicyQueue',
           internalNetworkPolicySync'[p] = internalNetworkPolicySync[p],
           internalNPs[p] # Nil => \A g \in internalNPs[p].appliedToGroups :
               /\ appliedToGroupSync'[g] = appliedToGroupSync[g]
               /\ appliedToGroups'[g] = appliedToGroups[g]
    PROVE  SpanRight(p)'
<1> SUFFICES ASSUME internalNPs[p] # Nil, internalNPs'[p] = internalNPs[p]
             PROVE  SpanRight(p)'
  BY Zenon DEF SpanRight
<1>1. AppliedToSpan(internalNPs[p].appliedToGroups)' = AppliedToSpan(internalNPs[p].appliedToGroups)
  BY Zenon DEF AppliedToSpan
<1> QED BY <1>1, Zenon DEF SpanRight

LEMMA ReachedFrame ==
    ASSUME NEW p \in Policies, Reached(p),
           internalNPs'[p] = Nil \/ internalNPs'[p] = internalNPs[p],
           internalNPs[p] # Nil => \A g \in internalNPs[p].addressGroups :
               /\ g \in addressGroupQueue => g \in addressGroupQueue'
               /\ AddressWritten(g)' = AddressWritten(g)
    PROVE  Reached(p)'
BY Zenon DEF Reached

(* A step that leaves stores and syncs alone and only adds to the queues.   *)
LEMMA SpansFrame ==
    ASSUME TypeOK, Spans, stores' = stores, syncs' = syncs,
           addressGroupQueue \subseteq addressGroupQueue',
           internalNetworkPolicyQueue \subseteq internalNetworkPolicyQueue'
    PROVE  Spans'
<1> SUFFICES ASSUME NEW p \in Policies PROVE SpanRight(p)' /\ Reached(p)'
  BY Zenon DEF Spans
<1>1. /\ appliedToGroups' = appliedToGroups /\ addressGroups' = addressGroups
      /\ internalNPs' = internalNPs /\ appliedToGroupSync' = appliedToGroupSync
      /\ addressGroupSync' = addressGroupSync
      /\ internalNetworkPolicySync' = internalNetworkPolicySync
  BY Zenon DEF stores, syncs
<1>2. internalNPs[p] # Nil => internalNPs[p].appliedToGroups \subseteq AppliedToKeys
  BY Zenon DEF TypeOK, InternalNP
<1>3. SpanRight(p) /\ Reached(p)
  BY Zenon DEF Spans
<1>4. SpanRight(p)'
  BY <1>1, <1>2, <1>3, SpanFrame, Zenon
<1>5. \A g : AddressWritten(g)' = AddressWritten(g)
  BY <1>1, Zenon DEF AddressWritten
<1> QED BY <1>1, <1>3, <1>4, <1>5, ReachedFrame, Zenon

LEMMA SpansPolicy ==
    ASSUME TypeOK, PInv, NoDanglingGroup, Spans, NEW k \in PolicyKinds, HandlePolicy(k)
    PROVE  Spans'
<1> SUFFICES ASSUME NEW p \in Policies PROVE SpanRight(p)' /\ Reached(p)'
  BY Zenon DEF Spans
<1>1. SpanRight(p) /\ Reached(p)
  BY Zenon DEF Spans
<1>2. internalNPs[p] # Nil =>
          /\ internalNPs[p].appliedToGroups \subseteq AppliedToKeys
          /\ internalNPs[p].addressGroups \subseteq AddressKeys
          /\ \A g \in internalNPs[p].appliedToGroups : appliedToGroups[g] # Nil
          /\ \A g \in internalNPs[p].addressGroups : addressGroups[g] # Nil
  BY Zenon DEF TypeOK, InternalNP, NoDanglingGroup
<1>3. /\ appliedToGroupSync' = appliedToGroupSync /\ addressGroupSync' = addressGroupSync
      /\ internalNetworkPolicySync' = internalNetworkPolicySync
  BY Zenon DEF HandlePolicy, ProcessPolicy, CreateInternalNP, UpdateInternalNP, CommitUpdate,
         DeleteInternalNP, DeleteDereferencedGroups, DeleteGroups, syncs
<1>4. ASSUME addressGroupQueue \subseteq addressGroupQueue',
             internalNetworkPolicyQueue \subseteq internalNetworkPolicyQueue',
             internalNPs'[p] = Nil \/ internalNPs'[p] = internalNPs[p],
             internalNPs[p] # Nil =>
                 /\ \A g \in internalNPs[p].appliedToGroups : appliedToGroups'[g] = appliedToGroups[g]
                 /\ \A g \in internalNPs[p].addressGroups : addressGroups'[g] = addressGroups[g]
      PROVE  SpanRight(p)' /\ Reached(p)'
  <2>1. SpanRight(p)'
    BY <1>1, <1>2, <1>3, <1>4, SpanFrame, Zenon
  <2>2. internalNPs[p] # Nil =>
            \A g \in internalNPs[p].addressGroups : AddressWritten(g)' = AddressWritten(g)
    BY <1>3, <1>4, Zenon DEF AddressWritten
  <2> QED BY <1>1, <1>4, <2>1, <2>2, ReachedFrame, Zenon
<1>5. CASE ProcessPolicy(k)
  <2>1. /\ addressGroupQueue \subseteq addressGroupQueue'
        /\ internalNetworkPolicyQueue' = internalNetworkPolicyQueue
        /\ internalNPs' = internalNPs
        /\ \A g \in AppliedToKeys : appliedToGroups[g] # Nil => appliedToGroups'[g] = appliedToGroups[g]
        /\ \A g \in AddressKeys : addressGroups[g] # Nil => addressGroups'[g] = addressGroups[g]
    BY <1>5, Zenon DEF ProcessPolicy, CreateGroups, EnqueueGroups
  <2> QED BY <1>2, <1>4, <2>1, Zenon
<1>6. CASE CreateInternalNP(k)
  <2>1. /\ appliedToGroups' = appliedToGroups /\ addressGroups' = addressGroups
        /\ addressGroupQueue' = addressGroupQueue
        /\ internalNetworkPolicyQueue \subseteq internalNetworkPolicyQueue'
        /\ \/ internalNPs'[p] = internalNPs[p]
           \/ internalNPs'[p].span = {} /\ p \in internalNetworkPolicyQueue'
    BY <1>6, Zenon DEF CreateInternalNP, TypeOK
  <2>2. CASE internalNPs'[p] = internalNPs[p]
    BY <1>4, <2>1, <2>2, Zenon
  <2>3. CASE internalNPs'[p] # internalNPs[p]
    BY <2>1, <2>3, Zenon DEF SpanRight, Reached
  <2> QED BY <2>2, <2>3, Zenon
<1>7. CASE UpdateInternalNP(k)
  <2>1. /\ appliedToGroups' = appliedToGroups /\ addressGroups' = addressGroups
        /\ addressGroupQueue \subseteq addressGroupQueue'
        /\ internalNetworkPolicyQueue \subseteq internalNetworkPolicyQueue'
        /\ \/ internalNPs'[p] = internalNPs[p]
           \/ /\ internalNPs'[p].addressGroups \subseteq addressGroupQueue'
              /\ p \in internalNetworkPolicyQueue'
    BY <1>7, Zenon DEF UpdateInternalNP, CommitUpdate, TypeOK
  <2>2. CASE internalNPs'[p] = internalNPs[p]
    BY <1>4, <2>1, <2>2, Zenon
  <2>3. CASE internalNPs'[p] # internalNPs[p]
    BY <2>1, <2>3, Zenon DEF SpanRight, Reached
  <2> QED BY <2>2, <2>3, Zenon
<1>8. CASE DeleteInternalNP(k)
  <2>1. /\ appliedToGroups' = appliedToGroups /\ addressGroups' = addressGroups
        /\ addressGroupQueue' = addressGroupQueue
        /\ internalNetworkPolicyQueue' = internalNetworkPolicyQueue
        /\ internalNPs'[p] = internalNPs[p] \/ internalNPs'[p] = Nil
    BY <1>8, Zenon DEF DeleteInternalNP, queues, TypeOK
  <2> QED BY <1>4, <2>1, Zenon
(* Only groups without referrers are deleted. *)
<1>9. CASE DeleteDereferencedGroups(k)
  <2>1. /\ addressGroupQueue' = addressGroupQueue
        /\ internalNetworkPolicyQueue' = internalNetworkPolicyQueue
        /\ internalNPs' = internalNPs
        /\ \A g \in AppliedToKeys :
              AppliedToGroupReferrers(g) # {} => appliedToGroups'[g] = appliedToGroups[g]
        /\ \A g \in AddressKeys :
              AddressGroupReferrers(g) # {} => addressGroups'[g] = addressGroups[g]
    BY <1>9, Zenon DEF DeleteDereferencedGroups, DeleteGroups, queues
  <2>2. internalNPs[p] # Nil =>
            /\ \A g \in internalNPs[p].appliedToGroups : p \in AppliedToGroupReferrers(g)
            /\ \A g \in internalNPs[p].addressGroups : p \in AddressGroupReferrers(g)
    BY Zenon DEF AppliedToGroupReferrers, AddressGroupReferrers
  <2> QED BY <1>2, <1>4, <2>1, <2>2, Zenon
<1> QED BY <1>5, <1>6, <1>7, <1>8, <1>9, Zenon DEF HandlePolicy

LEMMA SpansSync ==
    ASSUME TypeOK, FInv, NoDanglingGroup, Spans, Sync
    PROVE  Spans'
<1> SUFFICES ASSUME NEW p \in Policies PROVE SpanRight(p)' /\ Reached(p)'
  BY Zenon DEF Spans
<1>1. SpanRight(p) /\ Reached(p) /\ SyncCurrent(p)
  BY Zenon DEF Spans, FInv
<1>2. internalNPs[p] # Nil =>
          /\ internalNPs[p].appliedToGroups \subseteq AppliedToKeys
          /\ internalNPs[p].addressGroups \subseteq AddressKeys
          /\ \A g \in internalNPs[p].appliedToGroups : appliedToGroups[g] # Nil
          /\ \A g \in internalNPs[p].addressGroups : addressGroups[g] # Nil
  BY Zenon DEF TypeOK, InternalNP, NoDanglingGroup
<1>3. ASSUME NEW h \in AppliedToKeys, SyncAppliedToGroupCompute(h)
      PROVE  SpanRight(p)' /\ Reached(p)'
  <2>1. /\ appliedToGroups' = appliedToGroups /\ addressGroups' = addressGroups
        /\ internalNPs' = internalNPs /\ addressGroupSync' = addressGroupSync
        /\ internalNetworkPolicySync' = internalNetworkPolicySync
        /\ addressGroupQueue' = addressGroupQueue
        /\ internalNetworkPolicyQueue' = internalNetworkPolicyQueue
        /\ appliedToGroupSync[h] = Nil
        /\ \A g \in AppliedToKeys : g # h => appliedToGroupSync'[g] = appliedToGroupSync[g]
    BY <1>3, Zenon DEF SyncAppliedToGroupCompute, stores, TypeOK
  <2>2. SpanRight(p)'
    BY <1>1, <1>2, <2>1, Zenon DEF SpanRight, AppliedToSpan
  <2> QED BY <1>1, <2>1, <2>2, Zenon DEF Reached, AddressWritten
(* The referrers of the group are enqueued after it is stored. *)
<1>4. ASSUME NEW h \in AppliedToKeys, SyncAppliedToGroupStore(h)
      PROVE  SpanRight(p)' /\ Reached(p)'
  <2>1. /\ addressGroups' = addressGroups
        /\ internalNPs' = internalNPs /\ addressGroupSync' = addressGroupSync
        /\ internalNetworkPolicySync' = internalNetworkPolicySync
        /\ addressGroupQueue' = addressGroupQueue
        /\ internalNetworkPolicyQueue' = internalNetworkPolicyQueue
        /\ appliedToGroupSync'[h] = [step |-> "enqueue"]
        /\ \A g \in AppliedToKeys : g # h =>
              /\ appliedToGroupSync'[g] = appliedToGroupSync[g]
              /\ appliedToGroups'[g] = appliedToGroups[g]
    BY <1>4, Zenon DEF SyncAppliedToGroupStore, queues, TypeOK
  <2>2. [step |-> "enqueue"] # Nil
    BY ControllerAssumption DEF AppliedToGroupCall
  <2>3. SpanRight(p)'
    <3>1. CASE internalNPs[p] # Nil /\ h \in internalNPs[p].appliedToGroups
      BY <2>1, <2>2, <3>1 DEF SpanRight
    <3>2. CASE internalNPs[p] = Nil \/ h \notin internalNPs[p].appliedToGroups
      BY <1>1, <1>2, <2>1, <3>2, SpanFrame, Zenon
    <3> QED BY <3>1, <3>2, Zenon
  <2> QED BY <1>1, <2>1, <2>3, Zenon DEF Reached, AddressWritten
<1>5. ASSUME NEW h \in AppliedToKeys, SyncAppliedToGroupEnqueue(h)
      PROVE  SpanRight(p)' /\ Reached(p)'
  <2>1. /\ appliedToGroups' = appliedToGroups /\ addressGroups' = addressGroups
        /\ internalNPs' = internalNPs /\ addressGroupSync' = addressGroupSync
        /\ internalNetworkPolicySync' = internalNetworkPolicySync
        /\ addressGroupQueue' = addressGroupQueue
        /\ internalNetworkPolicyQueue' = internalNetworkPolicyQueue \cup AppliedToGroupReferrers(h)
        /\ \A g \in AppliedToKeys : g # h => appliedToGroupSync'[g] = appliedToGroupSync[g]
    BY <1>5, Zenon DEF SyncAppliedToGroupEnqueue, stores, TypeOK
  <2>2. SpanRight(p)'
    <3>1. CASE internalNPs[p] # Nil /\ h \in internalNPs[p].appliedToGroups
      BY <2>1, <3>1, Zenon DEF SpanRight, AppliedToGroupReferrers
    <3>2. CASE internalNPs[p] = Nil \/ h \notin internalNPs[p].appliedToGroups
      BY <1>1, <1>2, <2>1, <3>2, SpanFrame, Zenon
    <3> QED BY <3>1, <3>2, Zenon
  <2> QED BY <1>1, <2>1, <2>2, Zenon DEF Reached, AddressWritten
<1>6. ASSUME NEW h \in AddressKeys, SyncAddressGroupCompute(h)
      PROVE  SpanRight(p)' /\ Reached(p)'
  <2>1. /\ appliedToGroups' = appliedToGroups /\ addressGroups' = addressGroups
        /\ internalNPs' = internalNPs /\ appliedToGroupSync' = appliedToGroupSync
        /\ internalNetworkPolicySync' = internalNetworkPolicySync
        /\ addressGroupQueue' = addressGroupQueue \ {h}
        /\ internalNetworkPolicyQueue' = internalNetworkPolicyQueue
        /\ \A g \in AddressKeys : g # h => addressGroupSync'[g] = addressGroupSync[g]
        /\ addressGroups[h] # Nil => addressGroupSync'[h] =
              [members |-> AddressMembers(h),
               span |-> UNION {internalNPs[q].span : q \in AddressGroupReferrers(h)}]
    BY <1>6, Zenon DEF SyncAddressGroupCompute, stores, TypeOK
  <2>2. SpanRight(p)'
    BY <1>1, <1>2, <2>1, SpanFrame, Zenon
  <2>3. ASSUME internalNPs[p] # Nil, NEW g \in internalNPs[p].addressGroups, g # h
        PROVE  g \in addressGroupQueue' \/ internalNPs[p].span \subseteq (AddressWritten(g).span)'
    <3>1. AddressWritten(g)' = AddressWritten(g)
      BY <1>2, <2>1, <2>3, Zenon DEF AddressWritten
    <3> QED BY <1>1, <2>1, <2>3, <3>1, Zenon DEF Reached
  <2>4. ASSUME internalNPs[p] # Nil, h \in internalNPs[p].addressGroups
        PROVE  internalNPs[p].span \subseteq (AddressWritten(h).span)'
    <3>1. UNION {internalNPs[q].span : q \in AddressGroupReferrers(h)} \subseteq Nodes
      BY DEF AddressGroupReferrers, TypeOK, InternalNP
    <3>2. addressGroupSync'[h] \in AddressGroup
      BY <1>2, <2>1, <2>4, <3>1, MembersTyped DEF AddressGroup
    <3>3. addressGroupSync'[h] # Nil
      BY <3>2, ControllerAssumption, Zenon
    <3>4. p \in AddressGroupReferrers(h)
      BY <2>4, Zenon DEF AddressGroupReferrers
    <3>5. internalNPs[p].span \subseteq addressGroupSync'[h].span
      BY <1>2, <2>1, <2>4, <3>4
    <3> QED BY <3>3, <3>5, Zenon DEF AddressWritten
  <2> QED BY <2>1, <2>2, <2>3, <2>4, Zenon DEF Reached
<1>7. ASSUME NEW h \in AddressKeys, SyncAddressGroupStore(h)
      PROVE  SpanRight(p)' /\ Reached(p)'
  <2>1. /\ appliedToGroups' = appliedToGroups
        /\ internalNPs' = internalNPs /\ appliedToGroupSync' = appliedToGroupSync
        /\ internalNetworkPolicySync' = internalNetworkPolicySync
        /\ addressGroupQueue' = addressGroupQueue
        /\ internalNetworkPolicyQueue' = internalNetworkPolicyQueue
        /\ \A g \in AddressKeys : g # h => /\ addressGroupSync'[g] = addressGroupSync[g]
                                           /\ addressGroups'[g] = addressGroups[g]
        /\ addressGroupSync[h] # Nil /\ addressGroupSync'[h] = Nil
        /\ addressGroups[h] # Nil => addressGroups'[h] = addressGroupSync[h]
    BY <1>7, Zenon DEF SyncAddressGroupStore, queues, TypeOK
  <2>2. SpanRight(p)'
    BY <1>1, <1>2, <2>1, SpanFrame, Zenon
  <2>3. internalNPs[p] # Nil =>
            \A g \in internalNPs[p].addressGroups : AddressWritten(g)' = AddressWritten(g)
    BY <1>2, <2>1, Zenon DEF AddressWritten
  <2> QED BY <1>1, <2>1, <2>2, <2>3, ReachedFrame, Zenon
<1>8. ASSUME NEW q \in Policies, SyncInternalNPRead(q)
      PROVE  SpanRight(p)' /\ Reached(p)'
  <2>1. /\ appliedToGroups' = appliedToGroups /\ addressGroups' = addressGroups
        /\ internalNPs' = internalNPs /\ appliedToGroupSync' = appliedToGroupSync
        /\ addressGroupSync' = addressGroupSync
        /\ addressGroupQueue' = addressGroupQueue
    BY <1>8, Zenon DEF SyncInternalNPRead, stores
  <2>2. SpanRight(p)'
    <3>1. CASE p # q
      <4>1. /\ internalNetworkPolicySync'[p] = internalNetworkPolicySync[p]
            /\ p \in internalNetworkPolicyQueue => p \in internalNetworkPolicyQueue'
        BY <1>8, <3>1, Zenon DEF SyncInternalNPRead, TypeOK
      <4> QED BY <1>1, <1>2, <2>1, <4>1, SpanFrame, Zenon
    <3>2. CASE p = q
      <4>1. /\ internalNPs[p] # Nil
            /\ internalNetworkPolicySync'[p] =
                  [np |-> internalNPs[p], span |-> AppliedToSpan(internalNPs[p].appliedToGroups)]
        BY <1>8, <3>2, Zenon DEF SyncInternalNPRead, TypeOK
      <4>2. /\ internalNPs[p] \in InternalNP
            /\ AppliedToSpan(internalNPs[p].appliedToGroups) \subseteq Nodes
        BY <1>2, <4>1, SpanTyped, Zenon DEF TypeOK
      <4>3. internalNetworkPolicySync'[p] # Nil
        BY <4>1, <4>2, ControllerAssumption
      <4>4. AppliedToSpan(internalNPs[p].appliedToGroups)'
               = AppliedToSpan(internalNPs[p].appliedToGroups)
        BY <2>1, Zenon DEF AppliedToSpan
      <4> QED BY <4>1, <4>3, <4>4 DEF SpanRight
    <3> QED BY <3>1, <3>2, Zenon
  <2> QED BY <1>1, <2>1, <2>2, Zenon DEF Reached, AddressWritten
<1>9. ASSUME NEW q \in Policies, SyncInternalNPStore(q)
      PROVE  SpanRight(p)' /\ Reached(p)'
  <2>1. /\ appliedToGroups' = appliedToGroups /\ addressGroups' = addressGroups
        /\ appliedToGroupSync' = appliedToGroupSync
        /\ addressGroupSync' = addressGroupSync
        /\ addressGroupQueue \subseteq addressGroupQueue'
        /\ internalNetworkPolicyQueue' = internalNetworkPolicyQueue
        /\ p # q => /\ internalNetworkPolicySync'[p] = internalNetworkPolicySync[p]
                    /\ internalNPs'[p] = internalNPs[p]
        /\ internalNPs[p] = Nil => internalNPs'[p] = Nil
    BY <1>9, Zenon DEF SyncInternalNPStore, TypeOK
  <2>2. \A g : AddressWritten(g)' = AddressWritten(g)
    BY <2>1, Zenon DEF AddressWritten
  <2>3. CASE p # q
    BY <1>1, <1>2, <2>1, <2>2, <2>3, SpanFrame, ReachedFrame, Zenon
  <2>4. CASE p = q /\ internalNPs[p] = Nil
    BY <2>1, <2>4, Zenon DEF SpanRight, Reached
  <2>5. CASE p = q /\ internalNPs[p] # Nil
    <3>1. /\ internalNetworkPolicySync[p] # Nil /\ internalNetworkPolicySync'[p] = Nil
          /\ internalNPs'[p].appliedToGroups = internalNPs[p].appliedToGroups
          /\ internalNPs'[p].addressGroups = internalNPs[p].addressGroups
          /\ internalNPs'[p].span = internalNetworkPolicySync[p].span
          /\ \/ internalNPs'[p].span = internalNPs[p].span
             \/ internalNPs[p].addressGroups \subseteq addressGroupQueue'
      BY <1>1, <1>9, <2>5, ZenonT(40) DEF SyncInternalNPStore, SyncCurrent, TypeOK, InternalNP
    <3>2. AppliedToSpan(internalNPs[p].appliedToGroups)'
             = AppliedToSpan(internalNPs[p].appliedToGroups)
      BY <2>1, <3>1, Zenon DEF AppliedToSpan
    <3>3. SpanRight(p)'
      BY <1>1, <2>1, <2>5, <3>1, <3>2, Zenon DEF SpanRight
    <3>4. Reached(p)'
      BY <1>1, <2>1, <2>2, <2>5, <3>1 DEF Reached
    <3> QED BY <3>3, <3>4, Zenon
  <2> QED BY <2>3, <2>4, <2>5, Zenon
<1> QED BY <1>3, <1>4, <1>5, <1>6, <1>7, <1>8, <1>9, Zenon DEF Sync

LEMMA SpansStep ==
    ASSUME TypeOK, PInv, FInv, NoDanglingGroup, Spans, [Next]_vars
    PROVE  Spans'
<1>1. CASE ApiChange
  BY <1>1, SpansFrame, Zenon DEF ApiChange, ChangeMember, ChangeNamespace, ChangePolicy, queues
<1>2. CASE HandlePodEvent \/ HandleExternalEntityEvent \/ HandleNamespaceEvent
  <2>1. stores' = stores /\ syncs' = syncs
    BY <1>2, Zenon DEF HandlePodEvent, HandleExternalEntityEvent, HandleNamespaceEvent
  <2>2. \E A, B : EnqueueGroups(A, B)
    BY <1>2, Zenon DEF HandlePodEvent, HandleExternalEntityEvent, HandleNamespaceEvent,
                AddOrDeleteMember, UpdatePod, UpdateExternalEntity
  <2>3. /\ addressGroupQueue \subseteq addressGroupQueue'
        /\ internalNetworkPolicyQueue \subseteq internalNetworkPolicyQueue'
    BY <2>2, Zenon DEF EnqueueGroups
  <2> QED BY <2>1, <2>3, SpansFrame, Zenon
<1>3. CASE HandleNetworkPolicy \/ HandleCNP \/ HandleANP
  <2>1. PICK k \in PolicyKinds : HandlePolicy(k)
    BY <1>3, Zenon DEF HandleNetworkPolicy, HandleCNP, HandleANP, HandlePolicy
  <2> QED BY <2>1, SpansPolicy, Zenon
<1>4. CASE Sync
  BY <1>4, SpansSync, Zenon
<1>5. CASE UNCHANGED vars
  BY <1>5, SpansFrame, Zenon DEF vars, queues
<1> QED BY <1>1, <1>2, <1>3, <1>4, <1>5, Zenon DEF Next, Handle

-----------------------------------------------------------------------------
(* A group that no policy refers to is one of a policy about to be stored,  *)
(* or about to be deleted: a handler holds it.                              *)
AppliedToOf(call) == IF call.step = "deref" THEN call.appliedToGroups ELSE call.spec.appliedTo

AddressesOf(call) == IF call.step = "deref" THEN call.addressGroups ELSE call.spec.peers

AppliedToHeld(g) ==
    \/ \E p \in Policies : internalNPs[p] # Nil /\ g \in internalNPs[p].appliedToGroups
    \/ \E k \in PolicyKinds : handler[k] # Nil /\ g \in AppliedToOf(handler[k])

AddressHeld(g) ==
    \/ \E p \in Policies : internalNPs[p] # Nil /\ g \in internalNPs[p].addressGroups
    \/ \E k \in PolicyKinds : handler[k] # Nil /\ g \in AddressesOf(handler[k])

Held == /\ \A g \in AppliedToKeys : appliedToGroups[g] # Nil => AppliedToHeld(g)
        /\ \A g \in AddressKeys : addressGroups[g] # Nil => AddressHeld(g)

LEMMA HeldFrame ==
    ASSUME Held, handler' = handler,
           \A p \in Policies : internalNPs'[p] = Nil <=> internalNPs[p] = Nil,
           \A p \in Policies : internalNPs[p] # Nil =>
              /\ internalNPs'[p].appliedToGroups = internalNPs[p].appliedToGroups
              /\ internalNPs'[p].addressGroups = internalNPs[p].addressGroups,
           \A g \in AppliedToKeys : appliedToGroups'[g] = Nil <=> appliedToGroups[g] = Nil,
           \A g \in AddressKeys : addressGroups'[g] = Nil <=> addressGroups[g] = Nil
    PROVE  Held'
<1>1. \A g : (AppliedToHeld(g)' <=> AppliedToHeld(g)) /\ (AddressHeld(g)' <=> AddressHeld(g))
  BY Zenon DEF AppliedToHeld, AddressHeld, AppliedToOf, AddressesOf
<1> QED BY <1>1, Zenon DEF Held

(* What a handler holds, or policy p refers to, is held after the step.     *)
LEMMA HeldOn ==
    ASSUME NEW k \in PolicyKinds, NEW p \in Policies,
           \A j \in PolicyKinds : j # k => handler'[j] = handler[j],
           \A q \in Policies : q # p => internalNPs'[q] = internalNPs[q],
           NEW g
    PROVE  /\ AppliedToHeld(g)
              /\ (handler[k] # Nil /\ g \in AppliedToOf(handler[k]) => AppliedToHeld(g)')
              /\ (internalNPs[p] # Nil /\ g \in internalNPs[p].appliedToGroups
                     => AppliedToHeld(g)')
              => AppliedToHeld(g)'
           /\ AddressHeld(g)
              /\ (handler[k] # Nil /\ g \in AddressesOf(handler[k]) => AddressHeld(g)')
              /\ (internalNPs[p] # Nil /\ g \in internalNPs[p].addressGroups
                     => AddressHeld(g)')
              => AddressHeld(g)'
BY Zenon DEF AppliedToHeld, AddressHeld, AppliedToOf, AddressesOf

LEMMA HeldPolicy ==
    ASSUME TypeOK, PInv, Held, NEW k \in PolicyKinds, HandlePolicy(k)
    PROVE  Held'
<1>1. /\ handler \in [PolicyKinds -> HandlerCall \cup {Nil}] /\ Nil \notin HandlerCall
      /\ handler' \in [PolicyKinds -> HandlerCall \cup {Nil}]
  <2>1. [Next]_vars
    BY Keys, ControllerAssumption, Zenon DEF Next, Handle, HandleNetworkPolicy, HandleCNP, HandleANP,
                                      PolicyKinds
  <2> QED BY <2>1, PStep, ControllerAssumption DEF TypeOK
<1>2. \A j \in PolicyKinds : j # k => handler'[j] = handler[j]
  BY <1>1, Zenon DEF HandlePolicy, ProcessPolicy, CreateInternalNP, UpdateInternalNP,
     CommitUpdate, DeleteInternalNP, DeleteDereferencedGroups, DeleteGroups
<1>3. CASE ProcessPolicy(k)
  <2>1. PICK e : e = Head(events[k])
    BY Zenon
  <2>2. /\ handler[k] = Nil /\ internalNPs' = internalNPs /\ CreateGroups(e.new)
        /\ handler'[k] = [step |-> IF e.old = Nil THEN "create" ELSE "update",
                          key |-> e.obj, spec |-> e.new]
    BY <1>1, <1>3, <2>1, Zenon DEF ProcessPolicy, CreateGroups
  <2>3. AppliedToOf(handler'[k]) = e.new.appliedTo /\ AddressesOf(handler'[k]) = e.new.peers
    BY <2>2 DEF AppliedToOf, AddressesOf
  <2>4. handler'[k] # Nil
    <3>1. e.old \in Specs \cup {Nil} /\ e.new \in Specs /\ e.obj \in Policies
      BY <1>3, <2>1, Found, Zenon DEF ProcessPolicy, PolicyEvent
    <3> QED BY <1>1, <2>2, <3>1 DEF HandlerCall
  <2>5. \A g : /\ AppliedToHeld(g) \/ g \in e.new.appliedTo => AppliedToHeld(g)'
               /\ AddressHeld(g) \/ g \in e.new.peers => AddressHeld(g)'
    BY <1>2, <2>2, <2>3, <2>4 DEF AppliedToHeld, AddressHeld, AppliedToOf, AddressesOf
  <2> QED BY <2>2, <2>5, Zenon DEF Held, CreateGroups
<1>4. ASSUME NEW p \in Policies, handler[k] # Nil, handler[k].step # "deref",
             appliedToGroups' = appliedToGroups, addressGroups' = addressGroups,
             \A q \in Policies : q # p => internalNPs'[q] = internalNPs[q],
             internalNPs'[p] # Nil,
             internalNPs'[p].appliedToGroups = handler[k].spec.appliedTo,
             internalNPs'[p].addressGroups = handler[k].spec.peers,
             internalNPs[p] # Nil =>
                 /\ handler'[k] # Nil
                 /\ internalNPs[p].appliedToGroups
                       \subseteq AppliedToOf(handler'[k]) \cup handler[k].spec.appliedTo
                 /\ internalNPs[p].addressGroups \subseteq AddressesOf(handler'[k])
      PROVE  Held'
  <2>1. /\ AppliedToOf(handler[k]) = handler[k].spec.appliedTo
        /\ AddressesOf(handler[k]) = handler[k].spec.peers
    BY <1>4, Zenon DEF AppliedToOf, AddressesOf
  <2>2. \A g : /\ g \in handler[k].spec.appliedTo => AppliedToHeld(g)'
               /\ g \in handler[k].spec.peers => AddressHeld(g)'
    BY <1>4, Zenon DEF AppliedToHeld, AddressHeld
  <2>3. \A g : /\ handler'[k] # Nil /\ g \in AppliedToOf(handler'[k]) => AppliedToHeld(g)'
               /\ handler'[k] # Nil /\ g \in AddressesOf(handler'[k]) => AddressHeld(g)'
    BY Zenon DEF AppliedToHeld, AddressHeld, AppliedToOf, AddressesOf
  <2>4. \A g : /\ AppliedToHeld(g) => AppliedToHeld(g)'
               /\ AddressHeld(g) => AddressHeld(g)'
    BY <1>2, <1>4, <2>1, <2>2, <2>3, HeldOn, Zenon
  <2> QED BY <1>4, <2>4, Zenon DEF Held
<1>5. CASE CreateInternalNP(k)
  <2>1. PICK p \in Policies : p = handler[k].key
    BY <1>1, <1>5, Zenon DEF CreateInternalNP, HandlerCall
  <2>2. /\ handler[k] # Nil /\ handler[k].step = "create" /\ internalNPs[p] = Nil
        /\ appliedToGroups' = appliedToGroups /\ addressGroups' = addressGroups
    BY <1>5, <2>1, Zenon DEF CreateInternalNP, PInv, HandlerOK
  <2>3. /\ internalNPs'[p] = [appliedToGroups |-> handler[k].spec.appliedTo,
                              addressGroups |-> handler[k].spec.peers, span |-> {}]
        /\ \A q \in Policies : q # p => internalNPs'[q] = internalNPs[q]
    BY <1>5, <2>1, <2>2, Zenon DEF CreateInternalNP, TypeOK
  <2>4. internalNPs'[p] # Nil
    <3>1. handler[k].spec \in Specs
      BY <1>1, <2>2, Zenon DEF HandlerCall
    <3>2. internalNPs'[p] \in InternalNP
      BY <2>3, <3>1, Keys DEF InternalNP
    <3> QED BY <3>2, ControllerAssumption, Zenon
  <2> QED BY <1>4, <2>2, <2>3, <2>4
<1>6. CASE UpdateInternalNP(k)
  <2>1. PICK p \in Policies : p = handler[k].key
    BY <1>1, <1>6, Zenon DEF UpdateInternalNP, HandlerCall
  <2>2. /\ handler[k] # Nil /\ handler[k].step = "update" /\ internalNPs[p] # Nil
        /\ appliedToGroups' = appliedToGroups /\ addressGroups' = addressGroups
    BY <1>6, <2>1, Zenon DEF UpdateInternalNP, CommitUpdate, PInv, HandlerOK
  <2>3. /\ internalNPs'[p] = [appliedToGroups |-> handler[k].spec.appliedTo,
                              addressGroups |-> handler[k].spec.peers,
                              span |-> internalNPs[p].span]
        /\ \A q \in Policies : q # p => internalNPs'[q] = internalNPs[q]
    BY <1>6, <2>1, Zenon DEF UpdateInternalNP, CommitUpdate, TypeOK
  <2>4. internalNPs'[p] # Nil
    <3>1. handler[k].spec \in Specs /\ internalNPs[p] \in InternalNP
      BY <1>1, <2>2, Zenon DEF HandlerCall, TypeOK
    <3>2. internalNPs'[p] \in InternalNP
      BY <2>3, <3>1, Keys DEF InternalNP
    <3> QED BY <3>2, ControllerAssumption, Zenon
  <2>5. /\ handler'[k].step = "deref"
        /\ handler'[k].addressGroups = internalNPs[p].addressGroups
        /\ internalNPs[p].appliedToGroups
              \subseteq handler'[k].appliedToGroups \cup handler[k].spec.appliedTo
    BY <1>1, <1>6, <2>1, Zenon DEF UpdateInternalNP, CommitUpdate
  <2>6. handler'[k] # Nil
    <3>1. internalNPs[p].appliedToGroups \subseteq AppliedToKeys
             /\ internalNPs[p].addressGroups \subseteq AddressKeys
      BY <2>2 DEF TypeOK, InternalNP
    <3>2. handler'[k] \in HandlerCall
      BY <1>1, <1>6, <2>1, <3>1 DEF UpdateInternalNP, CommitUpdate, HandlerCall
    <3> QED BY <1>1, <3>2, Zenon
  <2>7. /\ AppliedToOf(handler'[k]) = handler'[k].appliedToGroups
        /\ AddressesOf(handler'[k]) = handler'[k].addressGroups
    BY <2>5, Zenon DEF AppliedToOf, AddressesOf
  <2> QED BY <1>4, <2>2, <2>3, <2>4, <2>5, <2>6, <2>7
<1>7. CASE DeleteInternalNP(k)
  <2>1. PICK p \in Policies : p = Head(events[k]).obj
    BY <1>7, Found, Zenon DEF DeleteInternalNP, PolicyEvent
  <2>2. internalNPs[p] # Nil /\ handler[k] = Nil
    BY <1>7, <2>1, Found, Zenon DEF DeleteInternalNP
  <2>3. /\ appliedToGroups' = appliedToGroups /\ addressGroups' = addressGroups
        /\ \A q \in Policies : q # p => internalNPs'[q] = internalNPs[q]
        /\ handler'[k] = [step |-> "deref",
                          appliedToGroups |-> internalNPs[p].appliedToGroups,
                          addressGroups |-> internalNPs[p].addressGroups]
    BY <1>1, <1>7, <2>1 DEF DeleteInternalNP, TypeOK
  <2>4. handler'[k] # Nil
    <3>1. internalNPs[p].appliedToGroups \subseteq AppliedToKeys
             /\ internalNPs[p].addressGroups \subseteq AddressKeys
      BY <2>2, Zenon DEF TypeOK, InternalNP
    <3>2. handler'[k] \in HandlerCall
      BY <2>3, <3>1 DEF HandlerCall
    <3> QED BY <1>1, <3>2, Zenon
  <2>5. \A g : /\ g \in internalNPs[p].appliedToGroups => AppliedToHeld(g)'
               /\ g \in internalNPs[p].addressGroups => AddressHeld(g)'
    BY <2>3, <2>4 DEF AppliedToHeld, AddressHeld, AppliedToOf, AddressesOf
  <2>6. \A g : /\ AppliedToHeld(g) => AppliedToHeld(g)'
               /\ AddressHeld(g) => AddressHeld(g)'
    BY <1>2, <2>2, <2>3, <2>5, HeldOn, Zenon
  <2> QED BY <2>3, <2>6, Zenon DEF Held
<1>8. CASE DeleteDereferencedGroups(k)
  <2>1. /\ handler[k] # Nil /\ handler[k].step = "deref" /\ internalNPs' = internalNPs
        /\ \A g \in AppliedToKeys : appliedToGroups'[g] # Nil =>
              /\ appliedToGroups[g] # Nil
              /\ g \notin handler[k].appliedToGroups \/ AppliedToGroupReferrers(g) # {}
        /\ \A g \in AddressKeys : addressGroups'[g] # Nil =>
              /\ addressGroups[g] # Nil
              /\ g \notin handler[k].addressGroups \/ AddressGroupReferrers(g) # {}
    BY <1>8, Zenon DEF DeleteDereferencedGroups, DeleteGroups
  <2>2. \A g : /\ AppliedToGroupReferrers(g) # {} => AppliedToHeld(g)'
               /\ AddressGroupReferrers(g) # {} => AddressHeld(g)'
    BY <2>1, Zenon DEF AppliedToGroupReferrers, AddressGroupReferrers, AppliedToHeld, AddressHeld
  <2>3. /\ AppliedToOf(handler[k]) = handler[k].appliedToGroups
        /\ AddressesOf(handler[k]) = handler[k].addressGroups
    BY <2>1, Zenon DEF AppliedToOf, AddressesOf
  <2>4. \A g : /\ AppliedToHeld(g) /\ g \notin handler[k].appliedToGroups => AppliedToHeld(g)'
               /\ AddressHeld(g) /\ g \notin handler[k].addressGroups => AddressHeld(g)'
    BY <1>2, <2>1, <2>3 DEF AppliedToHeld, AddressHeld, AppliedToOf, AddressesOf
  <2> QED BY <2>1, <2>2, <2>4, Zenon DEF Held
<1> QED BY <1>3, <1>5, <1>6, <1>7, <1>8, Zenon DEF HandlePolicy

LEMMA HeldStep ==
    ASSUME TypeOK, PInv, FInv, Held, [Next]_vars
    PROVE  Held'
<1>1. CASE ApiChange
  BY <1>1, HeldFrame, Zenon DEF ApiChange, ChangeMember, ChangeNamespace, ChangePolicy, stores
<1>2. CASE HandlePodEvent \/ HandleExternalEntityEvent \/ HandleNamespaceEvent
  BY <1>2, HeldFrame, Zenon DEF HandlePodEvent, HandleExternalEntityEvent, HandleNamespaceEvent, stores
<1>3. CASE HandleNetworkPolicy \/ HandleCNP \/ HandleANP
  <2>1. PICK k \in PolicyKinds : HandlePolicy(k)
    BY <1>3, Zenon DEF HandleNetworkPolicy, HandleCNP, HandleANP, HandlePolicy
  <2> QED BY <2>1, HeldPolicy, Zenon
<1>4. CASE Sync
  BY <1>4, SyncStores, HeldFrame, Zenon
<1>5. CASE UNCHANGED vars
  BY <1>5, HeldFrame, Zenon DEF vars, stores
<1> QED BY <1>1, <1>2, <1>3, <1>4, <1>5, Zenon DEF Next, Handle
=============================================================================
