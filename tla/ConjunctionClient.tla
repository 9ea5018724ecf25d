------------------------- MODULE ConjunctionClient -------------------------
(***************************************************************************)
(* The part of the OpenFlow client that realizes policy rules as            *)
(* conjunctions. A match condition (a source address, a destination         *)
(* address, a port) at a priority is one flow on the bridge, shared by all   *)
(* the rules that need it; conjMatchFlowContexts, found through a global     *)
(* cache, record which rules do. A rule's clauses keep pointers to the      *)
(* contexts, under the key they had when the rule took them.                *)
(*                                                                         *)
(* Rules are ingress rules with all three clauses; an egress rule is the    *)
(* same with the address clauses swapped. The reconciler passes source and  *)
(* destination addresses that are never nil, so that the DENY-ALL rules of  *)
(* one clause do not occur: a rule that denies all has no source address.   *)
(***************************************************************************)
EXTENDS Integers, FiniteSets, FiniteSetsExt

CONSTANTS Rules,      \* conjunction ids
          From, To,   \* source addresses and OpenFlow ports of local Pods
          Ports,      \* Service ports, the same for every rule
          Antrea,     \* rules of Antrea-native policies: no default drop flow
          Priorities, \* OpenFlow priorities of the rules in Antrea (numbers > 0)
          MaxCalls,   \* bound on calls
          MaxBroken,  \* bound on calls once `broken' is set
          MaxFaults   \* bound on failed bundles

VARIABLES
  ctxs,     \* the contexts, by address
  global,   \* globalConjMatchFlowCache: key -> context
  matches,  \* per rule, clause.matches of its three clauses: key -> context
  cached,   \* policyCache: the priority of the rule's action flows
  counted,  \* rules whose cached conjunction knows its metric flows
  flows,    \* on the bridge: key -> the conjunctions of the match flow
  drops,    \* on the bridge: default drop flows
  actions, metrics, \* on the bridge: action flows, metric flows
  undoing,  \* rules whose action flows an UninstallPolicyRuleFlows has deleted
  asked,    \* history: the conditions each caller has asked for
  moved,    \* history: rules that ReassignFlowPriorities moved
  broken,   \* history: a batch failed, or one priority was moved onto another
  calls, cjFaults

bridgeVars == <<flows, drops, actions, metrics>>
clientVars == <<ctxs, global, matches, cached, counted, undoing>>
history == <<asked, moved, broken, calls, cjFaults>>
cjVars == <<bridgeVars, clientVars, history>>

Matches == From \cup To \cup Ports
priorityNormal == 0
Prios   == Priorities \cup {priorityNormal}
Keys    == Prios \X Matches
NoFlow  == {}                    \* a flow on the bridge has an action
NoPrio  == -1
Ids     == 1 .. Cardinality(Keys)
NoContext     == 0
Free    == [prio |-> NoPrio, match |-> "none", acts |-> {}, flow |-> NoPrio, drop |-> FALSE]
Call    == calls < (IF broken THEN MaxBroken ELSE MaxCalls) /\ calls' = calls + 1
Fails   == cjFaults < MaxFaults /\ cjFaults' = cjFaults + 1

Init ==
  /\ ctxs = [i \in Ids |-> Free]
  /\ global = [k \in Keys |-> NoContext]
  /\ matches = [r \in Rules |-> [k \in Keys |-> NoContext]]
  /\ cached = [r \in Rules |-> NoPrio] /\ counted = {}
  /\ flows = [k \in Keys |-> NoFlow] /\ drops = {} /\ actions = {} /\ metrics = {}
  /\ undoing = {} /\ asked = [r \in Rules |-> {}]
  /\ moved = {} /\ broken = FALSE /\ calls = 0 /\ cjFaults = 0

---------------------------------------------------------------------------
(* The changes of contexts, computed on a snapshot of the shared state: the *)
(* caches, and the match and drop flows that the bundle will leave.         *)

Snapshot == [ctxs |-> ctxs, global |-> global, matches |-> matches, flows |-> flows, drops |-> drops]

generateGlobalMapKey(ctx) == <<ctx.prio, ctx.match>>

\* What the bridge makes of a flow change: a flow that does not exist cannot
\* be modified.
Modify(fl, k, acts) == IF fl[k] = NoFlow THEN fl ELSE [fl EXCEPT ![k] = acts]

InUse(s) == {s.global[k] : k \in Keys} \cup {s.matches[r][k] : r \in Rules, k \in Keys}

\* A context reused for the rule without adding the rule to its actions.
addConjunctiveMatchFlowShared(s, r, k) ==
  IF s.matches[r][k] # NoContext \/ s.global[k] = NoContext THEN s
  ELSE [s EXCEPT !.matches[r][k] = s.global[k]]

\* addConjunctiveMatchFlow, addAction and updateContextStatus.
addConjunctiveMatchFlow(s, r, k) ==
  LET isNew == s.global[k] = NoContext
      i     == IF isNew THEN CHOOSE j \in Ids : s.ctxs[j] = Free ELSE s.global[k]
      ctx   == IF isNew THEN [Free EXCEPT !.prio = k[1], !.match = k[2]] ELSE s.ctxs[i]
      found == r \in ctx.acts
      acts  == ctx.acts \cup {r}
      drop  == isNew /\ k[2] \in To /\ r \notin Antrea
  IN IF s.matches[r][k] # NoContext THEN s ELSE
     [ctxs    |-> [s.ctxs EXCEPT ![i] =
                    [ctx EXCEPT !.acts = acts, !.drop = @ \/ drop,
                                !.flow = IF @ = NoPrio THEN k[1] ELSE @]],
      global  |-> [s.global EXCEPT ![k] = i],
      matches |-> [s.matches EXCEPT ![r][k] = i],
      flows   |-> CASE found -> s.flows
                    [] ~found /\ ctx.flow = NoPrio -> [s.flows EXCEPT ![k] = acts]
                    [] OTHER -> Modify(s.flows, <<ctx.flow, ctx.match>>, acts),
      drops   |-> IF drop THEN s.drops \cup {k[2]} ELSE s.drops]

\* deleteConjunctiveMatchFlow, deleteAction and updateContextStatus: the entry
\* is looked up under the key the rule took it by, and removed under the key
\* the context has now.
deleteConjunctiveMatchFlow(s, r, k) ==
  LET i     == s.matches[r][k]
      ctx   == s.ctxs[i]
      acts  == ctx.acts \ {r}
      last  == acts = {}
      fk    == <<ctx.flow, ctx.match>>
      now   == generateGlobalMapKey(ctx)
  IN IF i = NoContext THEN s ELSE
     [ctxs    |-> [s.ctxs EXCEPT ![i] =
                    [ctx EXCEPT !.acts = acts, !.drop = @ /\ ~last,
                                !.flow = IF last THEN NoPrio ELSE @]],
      global  |-> IF last THEN [s.global EXCEPT ![now] = NoContext] ELSE s.global,
      matches |-> [s.matches EXCEPT ![r][now] = NoContext],
      flows   |-> CASE r \notin ctx.acts \/ ctx.flow = NoPrio -> s.flows
                    [] r \in ctx.acts /\ ctx.flow # NoPrio /\ last -> [s.flows EXCEPT ![fk] = NoFlow]
                    [] OTHER -> Modify(s.flows, fk, acts),
      drops   |-> IF last /\ ctx.drop THEN s.drops \ {ctx.match} ELSE s.drops]

addAll(s, r, ks) == FoldSet(LAMBDA k, t : addConjunctiveMatchFlow(t, r, k), s, ks)
deleteAll(s, r, ks) == FoldSet(LAMBDA k, t : deleteConjunctiveMatchFlow(t, r, k), s, ks)

\* The conjunction is dropped with its clauses, and contexts nobody points to
\* are gone.
Collect(s) ==
  LET used == InUse(s) IN [s EXCEPT !.ctxs = [i \in Ids |-> IF i \in used THEN s.ctxs[i] ELSE Free]]
Forget(s, r) == [s EXCEPT !.matches[r] = [k \in Keys |-> NoContext]]

UpdateCaches(s) ==
  LET t == Collect(s) IN ctxs' = t.ctxs /\ global' = t.global /\ matches' = t.matches

\* Default drop flows are never deleted.
applyConjunctiveMatchFlowsKeepDrop(s) ==
  /\ flows' = s.flows /\ drops' = drops \cup s.drops
  /\ UpdateCaches(s)

\* applyConjunctiveMatchFlows: one bundle, and the caches only after it.
applyConjunctiveMatchFlows(s) ==
  /\ flows' = s.flows /\ drops' = s.drops
  /\ UpdateCaches(s)

KeysOf(p, ms) == {<<p, m>> : m \in ms}

---------------------------------------------------------------------------
\* InstallPolicyRuleFlows holds conjMatchFlowLock from the computation of the
\* changes to its end; the metric flows, the action flows and the match flows
\* are three bundles.
InstallPolicyRuleFlows(r, p, ms) ==
  /\ cached[r] = NoPrio /\ Call
  /\ metrics' = metrics \cup {r}
  /\ actions' = actions \cup {<<r, p>>}
  /\ applyConjunctiveMatchFlows(addAll(Snapshot, r, KeysOf(p, ms)))
  /\ cached' = [cached EXCEPT ![r] = p] /\ counted' = counted \cup {r}
  /\ asked' = [asked EXCEPT ![r] = ms]
  /\ UNCHANGED <<undoing, moved, broken, cjFaults>>

\* One of the three bundles fails; what the earlier ones did stays.
InstallPolicyRuleFlowsFails(r, p) ==
  /\ cached[r] = NoPrio /\ Call /\ Fails
  /\ \E done \in 0 .. 2 :
       /\ metrics' = IF done >= 1 THEN metrics \cup {r} ELSE metrics
       /\ actions' = IF done = 2 THEN actions \cup {<<r, p>>} ELSE actions
  /\ UNCHANGED <<flows, drops, clientVars, asked, moved, broken>>

\* BatchInstallPolicyRuleFlows, called at most once, before any rule is installed. The
\* changes of each rule build on those of the rules before it, so the caches
\* are updated at once.
BatchSnapshot(ps, want) ==
  FoldSet(LAMBDA r, s : addAll(s, r, KeysOf(ps[r], want[r])), Snapshot, DOMAIN want)

BatchInstallPolicyRuleFlows(ps, want) ==
  LET s == BatchSnapshot(ps, want) IN
  /\ Call
  /\ flows' = s.flows /\ drops' = s.drops /\ UpdateCaches(s)
  /\ metrics' = DOMAIN want
  /\ actions' = {<<r, ps[r]>> : r \in DOMAIN want}
  /\ cached' = [r \in Rules |-> IF r \in DOMAIN want THEN ps[r] ELSE NoPrio]
  /\ counted' = DOMAIN want
  /\ asked' = [r \in Rules |-> IF r \in DOMAIN want THEN want[r] ELSE {}]
  /\ UNCHANGED <<undoing, moved, broken, cjFaults>>

\* The bundle fails: the conjunctions are dropped, the contexts are not rolled
\* back.
BatchInstallPolicyRuleFlowsFails(ps, want) ==
  LET s == BatchSnapshot(ps, want) IN
  /\ Call /\ Fails
  /\ UpdateCaches(FoldSet(LAMBDA r, t : Forget(t, r), s, Rules))
  /\ broken' = TRUE
  /\ UNCHANGED <<bridgeVars, cached, counted, undoing, asked, moved>>

AddPolicyRuleAddress(r, ms) ==
  /\ cached[r] # NoPrio /\ r \notin undoing /\ Call
  /\ applyConjunctiveMatchFlows(addAll(Snapshot, r, KeysOf(cached[r], ms)))
  /\ asked' = [asked EXCEPT ![r] = @ \cup ms]
  /\ UNCHANGED <<actions, metrics, cached, counted, undoing, moved, broken, cjFaults>>

DeletePolicyRuleAddress(r, ms) ==
  /\ cached[r] # NoPrio /\ r \notin undoing /\ Call
  /\ applyConjunctiveMatchFlows(deleteAll(Snapshot, r, KeysOf(cached[r], ms)))
  /\ asked' = [asked EXCEPT ![r] = @ \ ms]
  /\ UNCHANGED <<actions, metrics, cached, counted, undoing, moved, broken, cjFaults>>

\* UninstallPolicyRuleFlows deletes the action flows and the metric flows the
\* conjunction knows of before it takes conjMatchFlowLock ...
UninstallPolicyRuleFlows(r) ==
  /\ cached[r] # NoPrio /\ r \notin undoing /\ Call
  /\ actions' = actions \ {<<r, cached[r]>>}
  /\ metrics' = IF r \in counted THEN metrics \ {r} ELSE metrics
  /\ undoing' = undoing \cup {r}
  /\ UNCHANGED <<flows, drops, ctxs, global, matches, cached, counted, asked, moved, broken,
                 cjFaults>>

\* ... and then every match of the rule.
UninstallMatchFlows(r) ==
  /\ r \in undoing
  /\ applyConjunctiveMatchFlows(
       Forget(deleteAll(Snapshot, r, {k \in Keys : matches[r][k] # NoContext}), r))
  /\ cached' = [cached EXCEPT ![r] = NoPrio] /\ counted' = counted \ {r}
  /\ undoing' = undoing \ {r}
  /\ asked' = [asked EXCEPT ![r] = {}] /\ moved' = moved \ {r}
  /\ UNCHANGED <<actions, metrics, broken, calls, cjFaults>>

\* The bundle fails: the rule stays cached without its action flows, until
\* the caller tries again.
UninstallMatchFlowsFails(r) ==
  /\ r \in undoing /\ Fails
  /\ undoing' = undoing \ {r}
  /\ UNCHANGED <<bridgeVars, ctxs, global, matches, cached, counted, asked, moved, broken, calls>>

---------------------------------------------------------------------------
(* ReassignFlowPriorities, for a map of old to new priorities.              *)

Reassigned(u) == {r \in Antrea : cached[r] \in DOMAIN u}
ContextsOf(r) == {matches[r][k] : k \in Keys} \ {NoContext}

\* getMatchFlowUpdates and processFlowUpdates: the flows move, and a flow that
\* another one moves onto is modified instead of deleted.
MovedFlows(u) ==
  LET to(p, m)   == {i \in UNION {ContextsOf(r) : r \in {x \in Reassigned(u) : u[cached[x]] = p}} :
                       ctxs[i].match = m}
      left(p, m) == \E r \in Reassigned(u) : \E i \in ContextsOf(r) : <<ctxs[i].flow, ctxs[i].match>> = <<p, m>>
      acts(p, m) == UNION {ctxs[i].acts : i \in to(p, m)}
  IN [k \in Keys |->
        CASE to(k[1], k[2]) # {} /\ left(k[1], k[2]) -> Modify(flows, k, acts(k[1], k[2]))[k]
          [] to(k[1], k[2]) # {} /\ ~left(k[1], k[2]) -> acts(k[1], k[2])
          [] to(k[1], k[2]) = {} /\ left(k[1], k[2]) -> NoFlow
          [] OTHER -> flows[k]]

\* updateConjunctionMatchFlows for one conjunction.
updateConjunctionMatchFlows(s, r, p) ==
  LET cs == ContextsOf(r)
      keys == {generateGlobalMapKey(s.ctxs[i]) : i \in cs}
      moving == [i \in Ids |-> IF i \in cs THEN [s.ctxs[i] EXCEPT !.prio = p, !.flow = p] ELSE s.ctxs[i]]
  IN [s EXCEPT !.ctxs = moving,
               !.global = [k \in Keys |->
                  IF \E i \in cs : generateGlobalMapKey(moving[i]) = k
                  THEN CHOOSE i \in cs : generateGlobalMapKey(moving[i]) = k
                  ELSE IF k \in keys THEN NoContext ELSE s.global[k]]]

\* The conjunctions are updated in the order of a map iteration, and lose
\* their metric flows on the way. The order of priorities is kept. A priority
\* that is not moved is not moved onto. A clause that points to a context without a flow, or a rule without
\* ports, would be a nil dereference here; neither is in the model.
ReassignFlowPriorities(u) ==
  LET rs == Reassigned(u) IN
  /\ rs # {} /\ rs \cap undoing = {} /\ Call
  /\ \A r \in rs : \A i \in ContextsOf(r) : ctxs[i].flow # NoPrio
  /\ \A r \in Antrea \ rs : cached[r] # NoPrio => \A p \in DOMAIN u : u[p] # cached[r]
  /\ actions' = {<<a[1], IF a[1] \in rs /\ a[2] = cached[a[1]] THEN u[a[2]] ELSE a[2]>> : a \in actions}
  /\ flows' = MovedFlows(u)
  /\ \E order \in [1 .. Cardinality(rs) -> rs] :
       /\ \A r \in rs : \E j \in DOMAIN order : order[j] = r
       /\ UpdateCaches(FoldSet(LAMBDA j, s : updateConjunctionMatchFlows(s, order[j], u[cached[order[j]]]),
                               Snapshot, DOMAIN order))
  /\ cached' = [r \in Rules |-> IF r \in rs THEN u[cached[r]] ELSE cached[r]]
  /\ counted' = counted \ rs
  /\ moved' = moved \cup rs
  /\ broken' = (broken \/ \E p \in DOMAIN u : u[p] # p /\ u[p] \in DOMAIN u)
  /\ UNCHANGED <<drops, metrics, undoing, asked, cjFaults>>
---------------------------------------------------------------------------
PriosOf(r) == IF r \in Antrea THEN Priorities ELSE {priorityNormal}
Conditions == {f \cup t \cup Ports : f \in SUBSET From, t \in SUBSET To}
Updates == UNION {{u \in [D -> Priorities] : \A p, q \in D : p < q => u[p] < u[q]} :
                  D \in SUBSET Priorities}

Next ==
  \/ /\ calls = 0
     /\ \E rs \in (SUBSET Rules) \ {{}} : \E want \in [rs -> Conditions], ps \in [rs -> Prios] :
         /\ \A r \in rs : ps[r] \in PriosOf(r)
         /\ \/ BatchInstallPolicyRuleFlows(ps, want)
            \/ BatchInstallPolicyRuleFlowsFails(ps, want)
  \/ \E r \in Rules : \E p \in PriosOf(r) :
       \/ \E ms \in Conditions : InstallPolicyRuleFlows(r, p, ms)
       \/ InstallPolicyRuleFlowsFails(r, p)
  \/ \E r \in Rules : \E ms \in ((SUBSET From) \cup (SUBSET To)) \ {{}} :
       \/ AddPolicyRuleAddress(r, ms)
       \/ DeletePolicyRuleAddress(r, ms)
  \/ \E r \in Rules :
       \/ UninstallPolicyRuleFlows(r)
       \/ UninstallMatchFlows(r)
       \/ UninstallMatchFlowsFails(r)
  \/ \E u \in Updates : ReassignFlowPriorities(u)

Spec == Init /\ [][Next]_cjVars

---------------------------------------------------------------------------
\* The conditions of a rule on the bridge.
Enforced == [r \in Rules |-> {m \in Matches : \E p \in Prios : r \in flows[<<p, m>>]}]

Table == INSTANCE RuleTable WITH enforced <- Enforced, isolated <- drops,
           Applied <- To, Isolating <- Rules \ Antrea

\* Although rules share flows, contexts and drop flows, every call changes the
\* conditions of its own rule in one step and those of no other rule, and the
\* default drop flow of a Pod is there exactly while a rule of a Kubernetes
\* NetworkPolicy applies to the Pod.
ImplementsRuleTable == Table!Spec

\* A rule in the policy cache has exactly the conditions its caller asked for
\* on the bridge, at the priority of its action flow, after any sequence of
\* calls for it and for the rules that share flows with it. It is not so after
\* a failed batch, or once the rule has been moved to another priority.
EnforcedAsAsked ==
  ~broken => \A r \in Rules : (cached[r] # NoPrio /\ r \notin moved) =>
    {k \in Keys : r \in flows[k]} = KeysOf(cached[r], asked[r])

\* "The local cache is updated only if the change is applied on the bridge
\* successfully": the contexts in the global cache are the match flows of the
\* bridge.
ContextsMirrorBridge ==
  ~broken => \A k \in Keys :
    flows[k] = IF global[k] = NoContext THEN NoFlow ELSE ctxs[global[k]].acts

\* "DeletePolicyRuleAddress removes addresses from the specified NetworkPolicy
\* rule": no condition stays on the bridge that was asked to be removed.
DeletedAddressesGo ==
  \A r \in Rules : cached[r] # NoPrio => Enforced[r] \subseteq asked[r]

\* A rule that is not cached has no condition left on the bridge.
UninstalledIsGone == \A r \in Rules : cached[r] = NoPrio => Enforced[r] = {}

\* The policy cache, the contexts and the bridge agree on every rule.
BridgeHoldsRules == EnforcedAsAsked /\ ContextsMirrorBridge /\ UninstalledIsGone
=============================================================================
