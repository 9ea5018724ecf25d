--------------------------- MODULE RuleReconciler ---------------------------
(***************************************************************************)
(* The reconciler of the agent: it turns each completed rule into OpenFlow  *)
(* rules, one per result of resolving the rule's named ports, and brings    *)
(* them up to date with incremental calls whose arguments are differences   *)
(* against what it remembers of the last realization.                       *)
(*                                                                         *)
(* Rules are reconciled in parallel, each by one worker at a time; a step   *)
(* of a worker is the work on one group of Pods (one services key), which   *)
(* is one call for a new OpenFlow rule and up to four for an existing one.  *)
(* The OpenFlow client keeps a set of addresses per rule (RuleTable); ids   *)
(* come from the allocator (IDAllocator), here the lowest one not in use.   *)
(***************************************************************************)
EXTENDS Integers, FiniteSets

CONSTANTS
  Rules,
  Ingress,  \* the rules of direction In; the others are egress rules
  Named,    \* rules with a named port, which Pods may resolve differently
  Members,  \* group members: records of a Pod and its IP
  Pods,     \* local Pods, the targets of rules
  Svcs, DefaultSvc, \* services keys; the one of the services as written
  SvcOf,    \* the services key a Pod (name) resolves to
  Blocks,   \* the addresses of a rule's IPBlocks
  Ids,      \* OpenFlow rule ids
  MaxGen,   \* bound on how often CNI ADD gives a Pod a new interface
  MaxFaults

VARIABLES
  ifaces,   \* interface store: the generation of a Pod's interface, 0 if none
  ofRules,  \* the OpenFlow client: id -> addresses of the rule
  inUse,    \* ids the allocator has handed out
  last,     \* lastRealizeds
  work,     \* the worker on a rule
  goal,     \* history: what the last Reconcile had to realize, if it succeeded
  torn,     \* history: the inputs of updates of a rule that failed halfway; all of
            \* them when they also differed in the interfaces that they saw
  rrFaults

rrVars == <<ifaces, ofRules, inUse, last, work, goal, torn, rrFaults>>

NoId   == 0
NoRule == [on |-> FALSE, from |-> {}, to |-> {}]
OFRule(f, t) == [on |-> TRUE, from |-> f, to |-> t]
Never  == [ids |-> [s \in Svcs |-> NoId], peers |-> {}, ports |-> [s \in Svcs |-> {}], ips |-> {},
           known |-> FALSE]
Idle   == [pc |-> "idle", adding |-> FALSE, new |-> [peers |-> {}, pods |-> {}], moved |-> FALSE, from |-> {},
           todo |-> {}, stale |-> {}, got |-> {}]
NoGoal == [ok |-> FALSE, rules |-> {}]
Lowest(is) == CHOOSE i \in is : \A j \in is : i <= j
Fails  == rrFaults < MaxFaults /\ rrFaults' = rrFaults + 1

Init ==
  /\ ifaces = [p \in Pods |-> 0]
  /\ ofRules = [i \in Ids |-> NoRule] /\ inUse = {}
  /\ last = [r \in Rules |-> Never]
  /\ work = [r \in Rules |-> Idle]
  /\ goal = [r \in Rules |-> NoGoal]
  /\ torn = [r \in Rules |-> {}] /\ rrFaults = 0

---------------------------------------------------------------------------
(* The OpenFlow rules of a completed rule.                                 *)

IPs(ms) == {m.ip : m \in ms}
\* The sets of group members are maps from the Pod's name to the member.
Difference(a, b) == {m \in a : \A n \in b : n.pod # m.pod}
\* getPodOFPorts and getPodIPs: Pods without an interface are skipped.
Interfaces(ps) == {<<p, ifaces[p]>> : p \in {q \in ps : ifaces[q] > 0}}

\* groupPodsByServices and groupMembersByServices.
Svc(r, name) == IF r \in Named THEN SvcOf[name] ELSE DefaultSvc
PodsIn(r, d, s) == {p \in d.pods : Svc(r, p) = s}
PeersIn(r, ms, s) == {m \in ms : Svc(r, m.pod) = s}

\* The groups: an egress rule always has the one of the original services.
Groups(r, d) ==
  CASE r \in Ingress /\ r \in Named -> {Svc(r, p) : p \in d.pods}
    [] r \in Ingress /\ r \notin Named -> {DefaultSvc}
    [] OTHER -> {Svc(r, m.pod) : m \in d.peers} \cup {DefaultSvc}

\* The source addresses, the same in all groups, and the destinations of one.
FromOf(r, d) == IF r \in Ingress THEN IPs(d.peers) \cup Blocks[r] ELSE Interfaces(d.pods)
PortsOf(r, d) == [s \in Svcs |-> IF r \in Ingress THEN Interfaces(PodsIn(r, d, s)) ELSE {}]
BlocksIn(r, s) == IF r \notin Ingress /\ s = DefaultSvc THEN Blocks[r] ELSE {}

\* What a worker reads for the group now: the interfaces at this moment, but
\* those that were recorded if the rule is being added. Only for an added
\* egress rule are the IPBlocks among the destinations.
Ports(r, s) == IF work[r].adding THEN last[r].ports[s] ELSE PortsOf(r, work[r].new)[s]
NewTo(r, s) ==
  IF r \in Ingress THEN Ports(r, s)
  ELSE IPs(PeersIn(r, work[r].new.peers, s)) \cup (IF work[r].adding THEN BlocksIn(r, s) ELSE {})
\* What the group should become.
Wanted(r, s) == <<s, OFRule(work[r].from, NewTo(r, s) \cup BlocksIn(r, s))>>

---------------------------------------------------------------------------
\* The completed rules a rule may be given: only group members change.
Desired == {d \in [peers : SUBSET Members, pods : SUBSET Pods] :
              \A m, n \in d.peers : m.pod = n.pod => m = n}

\* CNI ADD gives the Pod an interface, CNI DEL takes it away.
SetInterface(p) ==
  /\ \E g \in {0, ifaces[p] + 1} : g # ifaces[p] /\ g <= MaxGen /\ ifaces' = [ifaces EXCEPT ![p] = g]
  /\ work' = [r \in Rules |-> IF work[r] = Idle THEN Idle ELSE [work[r] EXCEPT !.moved = TRUE]]
  /\ torn' = [r \in Rules |-> IF torn[r] = {} THEN {} ELSE Desired]
  /\ UNCHANGED <<ofRules, inUse, last, goal, rrFaults>>

Start(r, d, adding, stale) ==
  /\ work' = [work EXCEPT ![r] = [pc |-> "groups", adding |-> adding, new |-> d, moved |-> FALSE, from |-> FromOf(r, d),
                                  todo |-> Groups(r, d), stale |-> stale, got |-> {}]]
  /\ goal' = [goal EXCEPT ![r] = NoGoal]

\* computeOFRulesForAdd stores lastRealized before anything is installed.
computeOFRulesForAdd(r, d) ==
  [Never EXCEPT !.known = TRUE, !.peers = d.peers, !.ports = PortsOf(r, d),
                !.ips = IF r \in Ingress THEN {} ELSE FromOf(r, d)]

add(r, d) ==
  /\ last' = [last EXCEPT ![r] = computeOFRulesForAdd(r, d)]
  /\ Start(r, d, TRUE, {})

\* update starts with the groups it knows as the stale ones.
update(r, d) ==
  /\ Start(r, d, FALSE, {s \in Svcs : last[r].ids[s] # NoId})
  /\ UNCHANGED last

Reconcile(r, d) ==
  /\ work[r] = Idle
  /\ IF last[r].known THEN update(r, d) ELSE add(r, d)
  /\ UNCHANGED <<ifaces, ofRules, inUse, torn, rrFaults>>

\* What the worker and lastRealized hold once a group has been done.
Done(r, s, id) ==
  /\ last' = [last EXCEPT ![r].ids[s] = id, ![r].ports[s] = IF r \in Ingress THEN NewTo(r, s) ELSE @]
  /\ work' = [work EXCEPT ![r].todo = @ \ {s}, ![r].stale = @ \ {s}, ![r].got = @ \cup {Wanted(r, s)}]

\* An error ends the work. What an update had changed by then stays changed,
\* while lastRealized still holds the rule as it was.
Abort(r) ==
  /\ Fails
  /\ work' = [work EXCEPT ![r] = Idle]
  /\ torn' = [torn EXCEPT ![r] = CASE work[r].pc = "forget" \/ work[r].adding -> @
                                   [] work[r].pc # "forget" /\ ~work[r].adding /\ work[r].moved -> Desired
                                   [] OTHER -> @ \cup {work[r].new}]

\* installOFRule: the id is recorded only after the flows are installed.
installOFRule(r, s) ==
  /\ work[r].pc = "groups" /\ s \in work[r].todo /\ last[r].ids[s] = NoId
  /\ Ids \ inUse # {}
  /\ LET id == Lowest(Ids \ inUse)
     IN /\ ofRules' = [ofRules EXCEPT ![id] = OFRule(work[r].from, NewTo(r, s))]
        /\ inUse' = inUse \cup {id} /\ Done(r, s, id)
  /\ UNCHANGED <<ifaces, goal, torn, rrFaults>>


\* The id is released.
installOFRuleFails(r, s) ==
  /\ work[r].pc = "groups" /\ s \in work[r].todo /\ last[r].ids[s] = NoId
  /\ Ids \ inUse # {}
  /\ Abort(r)
  /\ UNCHANGED <<ifaces, ofRules, inUse, last, goal>>

\* The four differences of update. Those of an ingress rule's sources and of an
\* egress rule's destinations compare group members with the rule realized
\* last, the others compare interfaces with the recorded ones.
AddedFrom(r) == IF r \in Ingress THEN IPs(Difference(work[r].new.peers, last[r].peers))
                ELSE work[r].from \ last[r].ips
DeletedFrom(r) == IF r \in Ingress THEN IPs(Difference(last[r].peers, work[r].new.peers))
                  ELSE last[r].ips \ work[r].from
AddedTo(r, s) == IF r \in Ingress THEN NewTo(r, s) \ last[r].ports[s]
                 ELSE IPs(Difference(PeersIn(r, work[r].new.peers, s), PeersIn(r, last[r].peers, s)))
DeletedTo(r, s) == IF r \in Ingress THEN last[r].ports[s] \ NewTo(r, s)
                   ELSE IPs(Difference(PeersIn(r, last[r].peers, s), PeersIn(r, work[r].new.peers, s)))

\* The rule after the first n of the four calls, in the order of updateOFRule.
After(r, s, n) ==
  LET o == ofRules[last[r].ids[s]]
      f1 == IF n >= 1 THEN o.from \cup AddedFrom(r) ELSE o.from
      t1 == IF n >= 2 THEN o.to \cup AddedTo(r, s) ELSE o.to
  IN OFRule(IF n >= 3 THEN f1 \ DeletedFrom(r) ELSE f1,
            IF n >= 4 THEN t1 \ DeletedTo(r, s) ELSE t1)

updateOFRule(r, s) ==
  /\ work[r].pc = "groups" /\ s \in work[r].todo /\ last[r].ids[s] # NoId
  /\ ofRules' = [ofRules EXCEPT ![last[r].ids[s]] = After(r, s, 4)]
  /\ Done(r, s, last[r].ids[s])
  /\ UNCHANGED <<ifaces, inUse, goal, torn, rrFaults>>

\* A call that has something to send fails and ends the update.
updateOFRuleFails(r, s) ==
  /\ work[r].pc = "groups" /\ s \in work[r].todo /\ last[r].ids[s] # NoId
  /\ \E n \in 0 .. 3 :
       /\ <<AddedFrom(r), AddedTo(r, s), DeletedFrom(r), DeletedTo(r, s)>>[n + 1] # {}
       /\ ofRules' = [ofRules EXCEPT ![last[r].ids[s]] = After(r, s, n)]
  /\ Abort(r)
  /\ UNCHANGED <<ifaces, inUse, last, goal>>

\* The end of the loop over the groups.
GroupsDone(r) ==
  /\ work[r].pc = "groups" /\ work[r].todo = {}
  /\ work' = [work EXCEPT ![r].pc = "stale"]
  /\ last' = [last EXCEPT ![r].ips = IF r \in Ingress THEN @ ELSE work[r].from]
  /\ UNCHANGED <<ifaces, ofRules, inUse, goal, torn, rrFaults>>

Uninstalled(r, s) ==
  /\ ofRules' = [ofRules EXCEPT ![last[r].ids[s]] = NoRule]
  /\ inUse' = inUse \ {last[r].ids[s]}
  /\ last' = [last EXCEPT ![r].ids[s] = NoId, ![r].ports[s] = {}]

uninstallOFRule(r, s) ==
  /\ work[r].pc \in {"stale", "forget"} /\ s \in work[r].stale
  /\ Uninstalled(r, s)
  /\ work' = [work EXCEPT ![r].stale = @ \ {s}]
  /\ UNCHANGED <<ifaces, goal, torn, rrFaults>>

uninstallOFRuleFails(r, s) ==
  /\ work[r].pc \in {"stale", "forget"} /\ s \in work[r].stale
  /\ Abort(r)
  /\ UNCHANGED <<ifaces, ofRules, inUse, last, goal>>

\* Only at the end the new rule becomes the realized one.
ReconcileDone(r) ==
  /\ work[r].pc = "stale" /\ work[r].stale = {}
  /\ last' = [last EXCEPT ![r].peers = work[r].new.peers]
  /\ LET repaired == torn[r] \subseteq {work[r].new}
     IN /\ goal' = [goal EXCEPT ![r] = [ok |-> repaired, rules |-> work[r].got]]
        /\ torn' = [torn EXCEPT ![r] = IF repaired THEN {} ELSE @]
  /\ work' = [work EXCEPT ![r] = Idle]
  /\ UNCHANGED <<ifaces, ofRules, inUse, rrFaults>>

Forget(r) ==
  /\ work[r] = Idle /\ last[r].known
  /\ work' = [work EXCEPT ![r] = [Idle EXCEPT !.pc = "forget", !.stale = {s \in Svcs : last[r].ids[s] # NoId}]]
  /\ goal' = [goal EXCEPT ![r] = NoGoal]
  /\ UNCHANGED <<ifaces, ofRules, inUse, last, torn, rrFaults>>

ForgetDone(r) ==
  /\ work[r].pc = "forget" /\ work[r].stale = {}
  /\ last' = [last EXCEPT ![r] = Never]
  /\ torn' = [torn EXCEPT ![r] = {}]
  /\ work' = [work EXCEPT ![r] = Idle]
  /\ UNCHANGED <<ifaces, ofRules, inUse, goal, rrFaults>>

---------------------------------------------------------------------------
\* BatchReconcile adds the rules of the first watch events with one batch of
\* flows; ids are recorded once it is installed and all released if it fails.
Batch(ds) == [r \in Rules |-> computeOFRulesForAdd(r, ds[r])]
Slots(ds) == {<<r, s>> \in Rules \X Svcs : s \in Groups(r, ds[r])}
BatchTo(ds, r, s) ==
  IF r \in Ingress THEN PortsOf(r, ds[r])[s] ELSE IPs(PeersIn(r, ds[r].peers, s)) \cup BlocksIn(r, s)
AllNew == \A r \in Rules : work[r] = Idle /\ ~last[r].known

BatchReconcile(ds) ==
  /\ AllNew
  /\ Cardinality(Slots(ds)) <= Cardinality(Ids \ inUse)
  /\ LET ids == CHOOSE f \in [Slots(ds) -> Ids \ inUse] : \A a, b \in Slots(ds) : f[a] = f[b] => a = b
         owner(i) == CHOOSE a \in Slots(ds) : ids[a] = i
         rule(a) == OFRule(FromOf(a[1], ds[a[1]]), BatchTo(ds, a[1], a[2]))
         used == {ids[a] : a \in Slots(ds)}
     IN /\ inUse' = inUse \cup used
        /\ ofRules' = [i \in Ids |-> IF i \in used THEN rule(owner(i)) ELSE ofRules[i]]
        /\ last' = [r \in Rules |-> [Batch(ds)[r] EXCEPT !.ids =
             [s \in Svcs |-> IF <<r, s>> \in Slots(ds) THEN ids[<<r, s>>] ELSE NoId]]]
  /\ goal' = [r \in Rules |-> [ok |-> TRUE, rules |->
       {<<s, OFRule(FromOf(r, ds[r]), BatchTo(ds, r, s))>> : s \in Groups(r, ds[r])}]]
  /\ UNCHANGED <<ifaces, work, torn, rrFaults>>

BatchReconcileFails(ds) ==
  /\ AllNew /\ Fails
  /\ last' = Batch(ds)
  /\ UNCHANGED <<ifaces, ofRules, inUse, work, goal, torn>>

Next ==
  \/ \E p \in Pods : SetInterface(p)
  \/ \E r \in Rules, d \in Desired : Reconcile(r, d)
  \/ \E r \in Rules, s \in Svcs :
       \/ installOFRule(r, s) \/ installOFRuleFails(r, s)
       \/ updateOFRule(r, s) \/ updateOFRuleFails(r, s)
       \/ uninstallOFRule(r, s) \/ uninstallOFRuleFails(r, s)
  \/ \E r \in Rules : GroupsDone(r) \/ ReconcileDone(r) \/ Forget(r) \/ ForgetDone(r)
  \/ AllNew /\ \E ds \in [Rules -> Desired] : BatchReconcile(ds) \/ BatchReconcileFails(ds)

Spec == Init /\ [][Next]_rrVars

---------------------------------------------------------------------------
(* Properties                                                              *)

\* After a successful Reconcile the OpenFlow rules of the rule are exactly the
\* groups and addresses of the completed rule it was given, although they got
\* there by differences, after failed attempts with the same input, and while
\* interfaces came and went ("Reconcile reconciles the desired state of the
\* provided CompletedRule with the actual state of Openflow entries"). A rule
\* is left out after an update failed halfway and the next one had another
\* input, which lastRealized cannot account for.
ReconcileRealizes ==
  \A r \in Rules : work[r] = Idle /\ goal[r].ok =>
    {<<s, ofRules[last[r].ids[s]]>> : s \in {t \in Svcs : last[r].ids[t] # NoId}} = goal[r].rules

\* Every OpenFlow rule in the switch is recorded by exactly one group of one
\* rule, so it can be updated and uninstalled, and its id is in use; ids that
\* no group records are free again, whichever call failed.
EveryIdIsOwned ==
  /\ \A i \in Ids : Cardinality({<<r, s>> \in Rules \X Svcs : last[r].ids[s] = i}) =
                      (IF ofRules[i].on THEN 1 ELSE 0)
  /\ inUse = {i \in Ids : ofRules[i].on}

=============================================================================
