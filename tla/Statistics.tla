------------------------------ MODULE Statistics ------------------------------
(***************************************************************************)
(* Traffic statistics of NetworkPolicies. The collector of an agent dumps   *)
(* the counters of the rules' metric flows, maps rule ids to policies and   *)
(* reports what was added since the last successful report; the aggregator  *)
(* of the controller queues the reports and adds them up for the policies   *)
(* it knows. Counters go back when OVS restarts or a rule is removed.       *)
(* One counter stands for sessions, packets and bytes, and one kind of      *)
(* policy for the three, which are handled alike.                           *)
(***************************************************************************)
EXTENDS Integers, Sequences, FiniteSets, FiniteSetsExt

CONSTANTS Nodes, RuleIDs, Policies,
          ChanCap,            \* capacity of dataCh
          MaxTraffic,         \* bound on the traffic counted
          MaxChanges,         \* bound on rules installed
          MaxFaults

VARIABLES
  policyOf,   \* per Node: the policy of an installed rule
  counter,    \* per Node: the counter of a rule's metric flows
  sample,     \* per Node: the dump the collector is working on
  cur, last,  \* per Node: curStatsCollection, lastStatsCollection
  phase,      \* per Node: where the collector is
  dataCh,     \* reports queued at the controller
  stats,      \* the aggregator's caches
  existing,   \* policies that exist at the API server
  traffic,    \* history: what went through rules of the policy
  twice,      \* history: policies whose traffic may be counted twice
  missed,     \* history: policies some of whose traffic is not going to be counted
  changes, stFaults

node   == <<policyOf, counter>>
coll   == <<sample, cur, last, phase>>
aggr   == <<dataCh, stats, existing>>
past   == <<traffic, twice, missed>>
stVars == <<node, coll, aggr, past, changes, stFaults>>

None   == "none"
Absent == -1
Fault  == stFaults < MaxFaults /\ stFaults' = stFaults + 1
Nothing == [u \in Policies |-> Absent]
Zero(x) == IF x = Absent THEN 0 ELSE x

Init ==
  /\ policyOf = [n \in Nodes |-> [i \in RuleIDs |-> None]]
  /\ counter = [n \in Nodes |-> [i \in RuleIDs |-> 0]]
  /\ sample = policyOf
  /\ cur = [n \in Nodes |-> Nothing] /\ last = cur
  /\ phase = [n \in Nodes |-> "wait"]
  /\ dataCh = << >> /\ stats = Nothing /\ existing = Policies
  /\ traffic = [u \in Policies |-> 0] /\ twice = {} /\ missed = {}
  /\ changes = 0 /\ stFaults = 0

---------------------------------------------------------------------------
(* The Node: rules with metric flows, and traffic                          *)

InstallRule(n, i, u) ==
  /\ changes < MaxChanges /\ changes' = changes + 1
  /\ policyOf[n][i] = None /\ u \in existing
  /\ policyOf' = [policyOf EXCEPT ![n][i] = u]
  /\ counter' = [counter EXCEPT ![n][i] = 0]
  /\ UNCHANGED <<coll, aggr, past, stFaults>>

\* What was not collected is lost; what other rules of the policy have counted
\* is less than the last report now.
UninstallRule(n, i) ==
  LET u == policyOf[n][i]
  IN /\ u # None
     /\ policyOf' = [policyOf EXCEPT ![n][i] = None]
     /\ counter' = [counter EXCEPT ![n][i] = 0]
     /\ missed' = IF counter[n][i] > 0 THEN missed \cup {u} ELSE missed
     /\ twice' = IF counter[n][i] > 0 /\ \E j \in RuleIDs \ {i} : policyOf[n][j] = u
                 THEN twice \cup {u} ELSE twice
     /\ UNCHANGED <<coll, aggr, traffic, changes, stFaults>>

Traffic(n, i) ==
  LET u == policyOf[n][i]
  IN /\ u # None /\ SumFunction(traffic) < MaxTraffic
     /\ counter' = [counter EXCEPT ![n][i] = @ + 1]
     /\ traffic' = [traffic EXCEPT ![u] = @ + 1]
     /\ UNCHANGED <<policyOf, coll, aggr, twice, missed, changes, stFaults>>

\* The flows are replayed with counters of zero.
RestartOVS(n) ==
  /\ Fault
  /\ counter' = [counter EXCEPT ![n] = [i \in RuleIDs |-> 0]]
  /\ missed' = missed \cup {policyOf[n][i] : i \in {j \in RuleIDs : counter[n][j] > 0}}
  /\ UNCHANGED <<policyOf, coll, aggr, traffic, twice, changes>>

---------------------------------------------------------------------------
(* Collector                                                               *)

RulesOf(n) == {i \in RuleIDs : policyOf[n][i] # None}
Installed(n) == [i \in RulesOf(n) |-> [u |-> policyOf[n][i], count |-> counter[n][i]]]

\* NetworkPolicyMetrics; an error of the dump is dropped, as if there were no flows.
NetworkPolicyMetrics(n) ==
  /\ phase[n] = "wait"
  /\ sample' = [sample EXCEPT ![n] = Installed(n)]
  /\ phase' = [phase EXCEPT ![n] = "map"]
  /\ UNCHANGED <<node, cur, last, aggr, past, changes, stFaults>>

NetworkPolicyMetricsFails(n) ==
  /\ phase[n] = "wait" /\ Fault
  /\ sample' = [sample EXCEPT ![n] = << >>]
  /\ phase' = [phase EXCEPT ![n] = "map"]
  /\ twice' = twice \cup {policyOf[n][i] : i \in RulesOf(n)}
  /\ UNCHANGED <<node, cur, last, aggr, traffic, missed, changes>>

\* collect asks GetPolicyFromConjunction for each id, which may be in use for
\* another rule by then.
Mapped(n, u) == {i \in DOMAIN sample[n] : policyOf[n][i] = u}
Misread(n) == {i \in DOMAIN sample[n] : policyOf[n][i] # sample[n][i].u /\ sample[n][i].count > 0}

collect(n) ==
  /\ phase[n] = "map" /\ phase' = [phase EXCEPT ![n] = "report"]
  /\ cur' = [cur EXCEPT ![n] = [u \in Policies |->
               IF Mapped(n, u) = {} THEN Absent
               ELSE MapThenSumSet(LAMBDA i : sample[n][i].count, Mapped(n, u))]]
  /\ sample' = [sample EXCEPT ![n] = << >>]
  /\ twice' = twice \cup {policyOf[n][i] : i \in Misread(n)} \cup {sample[n][i].u : i \in Misread(n)}
  /\ missed' = missed \cup {policyOf[n][i] : i \in Misread(n)} \cup {sample[n][i].u : i \in Misread(n)}
  /\ UNCHANGED <<node, last, aggr, traffic, changes, stFaults>>

\* A counter that went back is reported in full.
calculateDiff(n) ==
  LET Delta(u) == IF last[n][u] = Absent \/ cur[n][u] < last[n][u] THEN cur[n][u] ELSE cur[n][u] - last[n][u]
  IN [u \in {v \in Policies : cur[n][v] # Absent /\ Delta(v) # 0} |-> Delta(u)]

Reported(n) == last' = [last EXCEPT ![n] = cur[n]]
Wait(n) == phase' = [phase EXCEPT ![n] = "wait"] /\ cur' = [cur EXCEPT ![n] = Nothing]

\* A report without a change is not sent. Collect waits while dataCh is full.
report(n) ==
  /\ phase[n] = "report" /\ Wait(n) /\ Reported(n)
  /\ \/ DOMAIN calculateDiff(n) = {} /\ UNCHANGED dataCh
     \/ /\ DOMAIN calculateDiff(n) # {} /\ Len(dataCh) < ChanCap
        /\ dataCh' = Append(dataCh, calculateDiff(n))
  /\ UNCHANGED <<node, sample, stats, existing, past, changes, stFaults>>


reportFails(n) ==
  /\ phase[n] = "report" /\ DOMAIN calculateDiff(n) # {} /\ Fault /\ Wait(n)
  /\ \/ UNCHANGED <<dataCh, twice>>
     \/ /\ Len(dataCh) < ChanCap /\ dataCh' = Append(dataCh, calculateDiff(n))
        /\ twice' = twice \cup DOMAIN calculateDiff(n)
  /\ UNCHANGED <<node, sample, last, stats, existing, traffic, missed, changes>>

\* The collector starts with the counters as they are.
RestartAgent(n) ==
  /\ phase[n] = "wait" /\ Fault
  /\ last' = [last EXCEPT ![n] = [u \in Policies |->
                LET mine == {i \in RulesOf(n) : policyOf[n][i] = u}
                IN IF mine = {} THEN Absent ELSE MapThenSumSet(LAMBDA i : counter[n][i], mine)]]
  /\ missed' = missed \cup {policyOf[n][i] : i \in RulesOf(n)}
  /\ UNCHANGED <<node, sample, cur, phase, aggr, traffic, twice, changes>>

---------------------------------------------------------------------------
(* Aggregator                                                              *)

addNetworkPolicy(u) ==
  /\ u \in existing /\ stats[u] = Absent
  /\ stats' = [stats EXCEPT ![u] = 0]
  /\ UNCHANGED <<node, coll, dataCh, existing, past, changes, stFaults>>

\* The policy is gone, and with it its statistics; its uid is not used again.
deleteNetworkPolicy(u) ==
  /\ u \in existing /\ existing' = existing \ {u}
  /\ stats' = [stats EXCEPT ![u] = Absent]
  /\ UNCHANGED <<node, coll, dataCh, past, changes, stFaults>>

\* doCollect adds a report up, and skips policies it does not know.
doCollect ==
  /\ dataCh # << >> /\ dataCh' = Tail(dataCh)
  /\ stats' = [u \in Policies |-> IF u \in DOMAIN Head(dataCh) /\ stats[u] # Absent
                                  THEN stats[u] + Head(dataCh)[u] ELSE stats[u]]
  /\ missed' = missed \cup {u \in DOMAIN Head(dataCh) : stats[u] = Absent}
  /\ UNCHANGED <<node, coll, existing, traffic, twice, changes, stFaults>>

RestartController ==
  /\ Fault
  /\ dataCh' = << >> /\ stats' = Nothing
  /\ missed' = Policies
  /\ UNCHANGED <<node, coll, existing, traffic, twice, changes>>

Next ==
  \/ \E n \in Nodes, i \in RuleIDs :
       (\E u \in Policies : InstallRule(n, i, u)) \/ UninstallRule(n, i) \/ Traffic(n, i)
  \/ \E n \in Nodes :
       \/ RestartOVS(n) \/ NetworkPolicyMetrics(n) \/ NetworkPolicyMetricsFails(n) \/ collect(n)
       \/ report(n) \/ reportFails(n) \/ RestartAgent(n)
  \/ \E u \in Policies : addNetworkPolicy(u) \/ deleteNetworkPolicy(u)
  \/ doCollect \/ RestartController

Spec == Init /\ [][Next]_stVars

---------------------------------------------------------------------------
(* Properties                                                              *)

Queued(u) ==
  FoldSet(LAMBDA k, sum : sum + (IF u \in DOMAIN dataCh[k] THEN dataCh[k][u] ELSE 0), 0, DOMAIN dataCh)
Pending(n, u) ==
  SumFunction([i \in RuleIDs |-> IF policyOf[n][i] = u THEN counter[n][i] ELSE 0]) - Zero(last[n][u])

\* The statistics of a policy never exceed its traffic: also when counters went
\* back, when reports failed, when a policy's rules came and went and when the
\* controller or the agent restarted. The code double-counts when a report is
\* received and its reply lost, when a dump fails, when one of several rules of
\* a policy goes, and when an id changes hands between the dump and the lookup.
NeverOvercounts ==
  \A u \in Policies \ twice : Zero(stats[u]) + Queued(u) <= traffic[u]

\* Nothing is lost on the way: what is in the aggregator, in the queue and not
\* yet reported by the collectors adds up to the traffic, unless a counter was
\* reset or the policy was unknown to the aggregator.
AllAccounted ==
  \A u \in existing \ (twice \cup missed) :
    Zero(stats[u]) + Queued(u) + SumFunction([n \in Nodes |-> Pending(n, u)]) = traffic[u]

=============================================================================
