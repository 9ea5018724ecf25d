--------------------------------- MODULE Tiers ---------------------------------
(***************************************************************************)
(* Tiers: the Tier and policy objects in the Kubernetes API, the webhook of  *)
(* the controller that validates requests against its informers' caches,     *)
(* the creation of the system Tiers at start-up, and the Tier priority the   *)
(* controller writes into the internal policies. Objects reach the caches    *)
(* as events of one watch per kind, in order, the two kinds independently.   *)
(* A policy of no Tier has Tier "" and an absent object is 0 or "none".      *)
(***************************************************************************)
EXTENDS Integers, Sequences, FiniteSets, SequencesExt

CONSTANTS SystemTiers,          \* names of systemGeneratedTiers, in order
          SystemPriority,       \* their priorities
          UserTiers, Priorities,
          Policies, defaultTierPriority, maxSupportedTiers,
          MaxOps, MaxRestarts

VARIABLES
  tiers,        \* Tier objects: name to priority
  policies,     \* policy objects: name to Tier name
  tierEvents,   \* changes of tiers the Tier informer has not delivered
  policyEvents, \* the same for policies
  tierIndexer,  \* cache of the Tier informer
  policyIndexer,
  internal,     \* TierPriority of the internal policies, 0 for none
  initializing, \* InitializeTiers: [at, creating]
  raced,        \* history: something was decided on a cache that was behind
  ops, restarts

tiVars == <<tiers, policies, tierEvents, policyEvents, tierIndexer, policyIndexer, internal,
            initializing, raced, ops, restarts>>

Api    == <<tiers, tierEvents, policies, policyEvents>>
Caches == <<tierIndexer, policyIndexer, internal>>

System       == ToSet(SystemTiers)
Names        == System \cup UserTiers
Existing(ts) == {t \in Names : ts[t] # 0}
Stale        == tierEvents # << >> \/ policyEvents # << >>

Init ==
  /\ tiers = [t \in Names |-> 0] /\ policies = [p \in Policies |-> "none"]
  /\ tierEvents = << >> /\ policyEvents = << >>
  /\ tierIndexer = tiers /\ policyIndexer = policies /\ internal = [p \in Policies |-> 0]
  /\ initializing = [at |-> 1, creating |-> FALSE]
  /\ raced = FALSE /\ ops = 0 /\ restarts = 0

---------------------------------------------------------------------------
(* Requests to the API                                                     *)

\* validateTier, for CREATE.
validateTierCreate(prio) ==
  /\ Cardinality({tierIndexer[t] : t \in Existing(tierIndexer)}) < maxSupportedTiers
  /\ prio \notin 251 .. 255                          \* reservedTierPriorities
  /\ \A t \in Names : tierIndexer[t] # prio


\* validateTier, for DELETE.
validateTierDelete(t) == t \notin System /\ \A p \in Policies : policyIndexer[p] # t

validateAntreaPolicy(tier) == tier # "" => tierIndexer[tier] # 0

Write(t, prio) == /\ tiers' = [tiers EXCEPT ![t] = prio]
                  /\ tierEvents' = Append(tierEvents, [name |-> t, value |-> prio])
                  /\ UNCHANGED <<policies, policyEvents>>

Request == ops < MaxOps /\ ops' = ops + 1 /\ raced' = (raced \/ Stale)
           /\ UNCHANGED <<Caches, initializing, restarts>>

CreateTier(t, prio) ==
  /\ Request /\ tiers[t] = 0 /\ validateTierCreate(prio) /\ Write(t, prio)

DeleteTier(t) ==
  /\ Request /\ tiers[t] # 0 /\ validateTierDelete(t) /\ Write(t, 0)

\* A policy is created, updated to another Tier, or deleted ("none").
WritePolicy(p, tier) ==
  /\ Request /\ policies[p] # tier
  /\ tier # "none" => validateAntreaPolicy(tier)
  /\ policies' = [policies EXCEPT ![p] = tier]
  /\ policyEvents' = Append(policyEvents, [name |-> p, value |-> tier])
  /\ UNCHANGED <<tiers, tierEvents>>

---------------------------------------------------------------------------
(* Controller                                                              *)

ObserveTier ==
  /\ tierEvents # << >> /\ tierEvents' = Tail(tierEvents)
  /\ tierIndexer' = [tierIndexer EXCEPT ![Head(tierEvents).name] = Head(tierEvents).value]
  /\ UNCHANGED <<tiers, policies, policyEvents, policyIndexer, internal, initializing, raced, ops, restarts>>

\* The handlers of the policy informers do not wait for the Tier informer.
getTierPriority(tier) ==
  IF tier = "" \/ tierIndexer[tier] = 0 THEN defaultTierPriority ELSE tierIndexer[tier]

\* addCNP, updateCNP, deleteCNP and their Namespaced counterparts.
ObservePolicy ==
  /\ policyEvents # << >> /\ policyEvents' = Tail(policyEvents)
  /\ LET e == Head(policyEvents) IN
       /\ policyIndexer' = [policyIndexer EXCEPT ![e.name] = e.value]
       /\ internal' = [internal EXCEPT ![e.name] =
                         IF e.value = "none" THEN 0 ELSE getTierPriority(e.value)]
       /\ raced' = (raced \/ (e.value \in Names /\ tierIndexer[e.value] # tiers[e.value]))
  /\ UNCHANGED <<tiers, tierEvents, policies, tierIndexer, initializing, ops, restarts>>

\* InitializeTiers goes on to the next system Tier.
Initialized == initializing' = [at |-> initializing.at + 1, creating |-> FALSE]
Current     == SystemTiers[initializing.at]

\* The loop looks a Tier up in the cache, which may not have been filled yet.
InitializeTiers ==
  /\ initializing.at <= Len(SystemTiers) /\ ~initializing.creating
  /\ IF tierIndexer[Current] # 0 THEN Initialized
     ELSE initializing' = [initializing EXCEPT !.creating = TRUE]
  /\ UNCHANGED <<Api, Caches, raced, ops, restarts>>

\* Create passes the webhook before the API server looks for the name. A
\* request the webhook denies, or cannot be asked about, is sent again.
initTier ==
  /\ initializing.creating /\ validateTierCreate(SystemPriority[Current])
  /\ Initialized
  /\ IF tiers[Current] = 0 THEN Write(Current, SystemPriority[Current]) ELSE UNCHANGED Api
  /\ raced' = (raced \/ (Stale /\ tiers[Current] = 0))
  /\ UNCHANGED <<Caches, ops, restarts>>

\* The controller starts again: its informers list everything anew.
Restart ==
  /\ restarts < MaxRestarts /\ restarts' = restarts + 1
  /\ tierIndexer' = [t \in Names |-> 0] /\ policyIndexer' = [p \in Policies |-> "none"]
  /\ internal' = [p \in Policies |-> 0]
  /\ tierEvents' = SetToSeq({[name |-> t, value |-> tiers[t]] : t \in Existing(tiers)})
  /\ policyEvents' = SetToSeq({[name |-> p, value |-> policies[p]] :
                                 p \in {q \in Policies : policies[q] # "none"}})
  /\ initializing' = [at |-> 1, creating |-> FALSE]
  /\ UNCHANGED <<tiers, policies, raced, ops>>

Next ==
  \/ \E t \in UserTiers : DeleteTier(t) \/ \E prio \in Priorities : CreateTier(t, prio)
  \/ \E p \in Policies, t \in UserTiers \cup {"", "none"} : WritePolicy(p, t)
  \/ ObserveTier \/ ObservePolicy \/ InitializeTiers \/ initTier \/ Restart

Spec == Init /\ [][Next]_tiVars

---------------------------------------------------------------------------

===============================================================================
