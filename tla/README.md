# A verification of Antrea's NetworkPolicy path

This directory holds TLA+ specifications of the parts of Antrea that decide
which NetworkPolicy flows a Node has: the computation in antrea-controller, the
watchable stores that distribute its results, and the agent that turns them into
OpenFlow rules. Each module is a translation of the Go code named in it;
`PROJECT.json` gives, for every definition, the lines it models.

## The system

| Part | State | Operations | What is hard about it |
|---|---|---|---|
| NetworkPolicy controller (`pkg/controller/networkpolicy`) | stores of internal policies, AddressGroups, AppliedToGroups; three work queues; a mutex | handlers of six informers; syncs of the three queues | handlers run in one goroutine per informer and interleave with workers between any two store accesses; listers run ahead of handlers |
| RAM store (`pkg/apiserver/storage/ram`, `pkg/controller/networkpolicy/store`) | content, resource version, watchers, three kinds of channels | create/update/delete, Watch, dispatch, process, Stop | list and watch while writes go on; slow, stopped and cancelled watchers; bounded channels written under a lock |
| Agent policy controller (`pkg/agent/controller/networkpolicy`) | rule cache, dirty-rule queue, watchers, interface store | three watchers, initial batch, workers, Pod updates from the CNI server | three unordered streams that are lost and restarted; rules completed under three different locks; retries |
| Priority assigner and reconciler (same package) | two maps and a sorted list per table, installed flows | register, release, reassign with revert | uint16 arithmetic, failing reassignments, priorities shared between policies |
| ID allocator (same package) | a FIFO of released IDs, the last ID | allocate, release | exhaustion, double release, restart with IDs in use |
| OpenFlow client (`pkg/agent/openflow`) | flow caches, conjunctions, groups | install, update and delete flows; replay | match flows shared between rules; replay after OVS restarts |
| CNI server, interface store (`pkg/agent/cniserver`, `interfacestore`) | interfaces, IPAM cache, container locks | CmdAdd, CmdDel, CmdCheck, reconcile at start | roll-back, concurrent requests for one Pod |
| Node routes (`pkg/agent/controller/noderoute`) | installed Nodes, tunnel ports | add, delete, stale clean-up | three resources per Node, each may fail |
| AntreaProxy (`pkg/agent/proxy`) | change trackers, installed maps, group IDs | syncProxyRules | partial failures; Endpoints shared by Services |
| Traceflow (`pkg/controller/traceflow`, `pkg/agent/controller/traceflow`) | tags on both sides, CRD status | start, check, time out, release | reuse of tags; lost or conflicting status updates; restart |
| Statistics (`pkg/agent/stats`, `pkg/controller/stats`) | last collection, totals | collect, report, aggregate | lost answers, reset counters, reused flow IDs |
| Flow exporter, certificate rotation, monitor CRDs, support bundle, start-up | see `PROJECT.json` | | |

The components interact in a line: informers → controller → stores → (network)
→ agent watchers → rule cache → reconciler → OpenFlow client. The agent module
takes from the store module only what that module is checked to promise
(a snapshot, a bookmark, every later change in order, until the watch ends), and
the priorities module stands for one table of the reconciler. Everything the
repository contains is listed in `PROJECT.json` under `components`, with the
reason where it is not modelled; `hazards` lists what is hard to test, at its
line, with the properties that cover it.

## The modules

**GroupSelector** has the two implementations of "this group selects this
object": `processSelector`, which lists the members of a group, and
`labelsMatchGroupSelector`, with which an event handler finds the groups of an
object. A label selector is the set of labels it matches.

**NetworkPolicyController** is the controller. `members`, `namespaces` and
`policies` are the listers; `events[k]` is the queue of notifications of informer
k, handled one by one. A handler of a policy event takes several steps, held in
`handler[k]`: create the groups (`ProcessPolicy`), write the internal policy
(`CreateInternalNP`, `UpdateInternalNP`, `DeleteInternalNP`), remove groups
without references (`DeleteDereferencedGroups`). A sync takes one step per store
access (`SyncAppliedToGroupCompute`, `...Store`, `...Enqueue`,
`SyncAddressGroupCompute`, `...Store`, `SyncInternalNPRead`, `...Store`), so that
handlers and other workers run between them; `internalNetworkPolicyMutex` is held
between the read and the write of a policy, as in the code. The work queues are
sets of keys, with the promise of client-go's workqueue that one key is not
processed by two workers at once.

**RamStore** has one writer inside `eventMutex` at a time, the dispatcher, and
per watcher a `process` goroutine and a client. `dispatchEvent` is followed to
its steps: the non-blocking sends, the blocking ones with one shared timer, the
stopping of watchers that failed, and the two halves of `Stop` (forget, close).
`ToWatchEvent` depends on `resource`, chosen once among the three stores: policies
are sent whole, groups as patches, AppliedToGroups cut to the Node of the watcher.

**PriorityAssigner** holds the functions of `priority.go` as operators on a
record `[priorityMap, ofPriorityMap, sortedPriorities]`, with `UInt16` arithmetic;
map iteration order is a choice. **RulePriorities** is the use of it by the
reconciler: `Reconcile`, `BatchReconcile`, `Forget`, with failing OVS operations.

**IDAllocator** is `allocator.go`, plus the set `held` of what callers hold.

**AgentController** is the controller of the agent. `server` and `stream` are the
other end of its watches; `cache`, `policyMap`, `dirty` and `delayed` are the rule
cache and the work queue; `batch` the processing of the initial events; `worker`
what each worker has read so far (a rule, then addresses, then Pods, each under
its own lock); `realized` what the reconciler has installed, `Partial` after a
failure. `iface` and `podUpdates` are the interface store and the channel from the
CNI server. A rule's ID is a hash of its content, so the record is its own ID.
An AddressGroup's members are addresses; the rest of an ExternalEntity is not kept.

In each module a definition with a comment "Slip" is a plausible wrong version of
the one after it. It is used only to make sure that a property would notice.

## The runs

| Run | Checks | Result |
|---|---|---|
| `controller` | TypeOK, ListedIsMatched, StoredAsSpecified, NoDanglingGroup, HandlersFindTheirPolicy, SpanIsWhereApplied, AddressGroupsReachSpan, GroupsUpToDate, NoLeakedGroup | hold for two ClusterNetworkPolicies that share groups and select Pods and ExternalEntities across Namespaces |
| `controller_live` | Settles | syncs come to rest, for policies of three informers, also when they are re-created |
| `controller_recreate` | StoredAsSpecified | violated: delete and create do not take the mutex |
| `controller_dangling` | NoDanglingGroup | violated: handlers of two informers race |
| `store` | TypeOK, NothingLost, ViewWasReal, EventsApply | hold for each of the three stores |
| `store_live` | WriterProceeds, Converges | hold: the first even if the client never reads, the second if it does |
| `agent` | TypeOK, RealizedAsServed, NeverForgotten | hold while watches are lost and restarted |
| `agent_pods` | RealizedAsServed, Settles | hold with two workers, failures, and interfaces that come and go |
| `agent_gate` | RealizedAsServed | violated: a policy of a disabled kind makes `ReplaceFunc` drop all |
| `priorities` | RevertRestores, TypeOK, OrderPreserved, MapsAgree, InstalledIsRegistered | hold in the table described below |
| `priorities_edge` | OrderPreserved | violated: the size of a gap wraps around at the ends of the table |
| `id_allocator` | TypeOK, HeldNeverAvailable, SliceMatchesSet, FailsOnlyWhenExhausted, ReusedFIFO | hold |

Every violated run rests on a comment or a document of the repository that says
otherwise, quoted under `findings` in `PROJECT.json`.

### What the passing runs leave out

Where the code has a gap, the passing run of the same property excludes just
that situation. These are the exclusions, each a situation in which the property
does not hold of the code:

* `controller` has policies of one informer only (see `controller_dangling`) and
  creates each name once (see `controller_recreate`). No policy is applied through
  a namespaceSelector whose Namespaces change: the Namespace handlers
  (`networkpolicy_controller.go:1039`) enqueue AddressGroups and not
  AppliedToGroups, so the span would stay as it was.
* `priorities` keeps Priorities away from the ends of the table (see
  `priorities_edge`). No update fails, and an add fails only for a rule that
  shares its Priority with no other: after a failing add or update, `Reconcile`
  (`reconciler.go:232`) releases the OpenFlow priority, whoever else uses it. A
  failing reassignment happens only where no moved Priority goes to the old place
  of another one: `revertFunc` (`priority.go:288`) undoes moves in map order and
  would lose an entry. The initial batch holds no Priority twice:
  `RegisterPriorities` (`priority.go:252`) would register the second one again
  and leave a stale entry.
* A gap of exactly the needed size is refused by `findReassignBoundaries`
  (`priority.go:327`); the model follows the code, and the registration fails.
* The agent runs have no ignored policies (see `agent_gate`).

### Bounds

* `MaxChanges` bounds changes made through the API (or in the controller, for the
  agent). Three are enough to create two policies that share a group and delete
  one, or to create one, move a Pod and change labels, with all interleavings of
  handlers and workers; the violations above appear within three. The agent has
  four, which are needed for both groups, a policy and a change of it (three in
  `agent_pods`, whose rule has no peer group).
* `MaxCreations` bounds how often one name is used; `controller_recreate` and
  `controller_live` have two.
* `ChanSize` and `IncomingSize` are 1 instead of 1000 and 100, so that every
  channel is full in reachable states. `MaxWrites` is 3, and 5 for the liveness of
  the writer, so that incoming, input and result are all full and the last writer
  has to wait. One watcher: the timer that slow watchers share is modelled, but
  two watchers that wait for it at once are beyond what TLC can explore here.
* The priority table has 12 OpenFlow priorities instead of 64900, and `zoneOffset`
  is 1 instead of 5: three policies of two rules do not fit without being moved.
* `MaxID` is 5 instead of 2^32 - 1; the theorems below hold for every value.
* `MaxLosses`, `MaxFailures`, `MaxCNI` bound lost connections, failing calls and
  commands of the container runtime.

No symmetry is used. Deadlock is not checked where bounds end a behaviour; a system
at rest is what the properties are about. `Settles`, `WriterProceeds` and
`Converges` show that it gets there.

### Fairness

* Controller: each informer goroutine and each worker goes on when it can (weak
  fairness). Taking the mutex is strongly fair: Go's `sync.Mutex` does not starve
  a waiter. The API owes nothing.
* Store: the goroutines of writer, dispatcher, timer, `process` and `Stop` go on.
  Nothing is assumed of the client; Converges speaks of one that goes on reading.
* Agent: `wait.NonSlidingUntil` calls `watch` again for as long as the agent runs,
  `wait.Until` the workers, and the work queue adds delayed keys. The network, the
  controller and the container runtime owe nothing; failures are bounded.

## The proofs

**IDAllocatorProofs** proves `Invariance`, `NoDoubleAllocation` and `Exhaustion`
for every `MaxID` (assumed to be a positive natural number). The inductive
invariant adds to HeldNeverAvailable that the slice holds exactly the IDs of the
set, each once: `allocate` takes from the slice and only this says that what it
takes was available.

**ControllerTypeProofs**, **ControllerPolicyProofs** and **ControllerGroupProofs**,
each extending the one before, prove for all sets of objects, selectors, policies
and bounds that satisfy the assumptions of NetworkPolicyController:

* `TypeCorrect`: `Spec => []TypeOK`.
* `PolicyAlwaysFound`: `Spec => []HandlersFindTheirPolicy`. The handlers of
  updates and deletions convert what they find in the store without looking
  whether they found anything. That they do depends on everything that is still
  in the event queue. The inductive invariant `PInv` says, for each policy, that
  there is a set of positions of its queue after which the policy exists, which
  begins with what the handlers have left in the store, agrees with the old and
  new objects of each event, and ends with what the lister holds.
* `SelectorsAgree`: `Spec => []ListedIsMatched`, by cases on the form of the
  selector.
* `NoDangling`: if all policies come from one informer and no name is used twice,
  `Spec => []NoDanglingGroup`. The invariant `DInv` adds that the groups of a
  policy about to be stored exist, that a worker inside the mutex holds the
  groups that are stored, and that nothing is left of an earlier life of a policy
  when it is created. The runs `controller_dangling` and `controller_recreate`
  show that neither assumption can be dropped for what it is used for.

Only model-checked: everything about RamStore, the agent and the priorities; the
properties of the controller that speak of states at rest (StoredAsSpecified,
SpanIsWhereApplied, GroupsUpToDate, AddressGroupsReachSpan, NoLeakedGroup); and
all liveness properties, since fairness and ENABLED are beyond the prover.

## Plan

In this order; each is a module (or two) with runs, then theorems where given.

1. `RuleReconciler`: splitting a rule by resolved named ports, `add`, `update`
   with failures half-way, joined to `IDAllocator`; refinement of the one-step
   reconciler of `AgentController`. Hazards at `reconciler.go:549` and `:576`.
2. `ConjunctionClient`: `network_policy.go` of the OpenFlow client; the flows on
   the switch as a function of the installed rules; reassignment of priorities.
3. `FlowReplay`: flow caches, replay after a reconnection, round numbers at a
   restart of the agent.
4. `Traceflow`: both controllers, the CRD between them, tags, timeouts, restart.
5. `NodeRoute`, `Proxier`, `CNIServer` with the interface store: each with the
   failures of its calls, and an abstract specification "what is installed is
   what the API asks for once nothing is pending".
6. `Statistics`, `CertificateRotation`, `ConnectionStore`, `AgentMonitor`,
   `SupportBundle`.
7. A composition of controller, store and agent: one policy from the API to the
   flows, as an abstract specification that `AgentController`'s `server` refines.
8. Theorems: the invariant of `AgentController` behind NeverForgotten;
   NothingLost for `RamStore`; MapsAgree for the assigner's release and lookup;
   type correctness of the modules above.

## Not modelled

Windows variants, command-line tools and plugins, API types and generated
clients, wiring of processes, and the wrappers around OVSDB, OpenFlow, iptables
and netlink, whose calls appear as steps that succeed or fail. Of policies, the
controller module keeps the groups and the span; ports, actions and Tiers are
data that no property here tells apart.
