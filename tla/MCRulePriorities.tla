-------------------------- MODULE MCRulePriorities --------------------------
(* Small tables for RulePriorities.  The real table has the OpenFlow        *)
(* priorities 100 .. 65000 and zoneOffset 5; these have a few, so that the  *)
(* gaps between policies are used up, Priorities are moved and the ends of  *)
(* the table are reached.                                                   *)
EXTENDS RulePriorities

(* Two policies of two rules with one policy of two rules between them.     *)
ThreePolicies == {<<z, r>> : z \in 1 .. 3, r \in 0 .. 1}

TwoRules == [z \in 1 .. 3 |-> 1]

(* Policies that are close to each other: the middle one has to make room.  *)
Close == [z \in 1 .. 3 |-> 2 + 2 * z]

(* Policies with some room between them: one Priority is moved at a time.   *)
Spread == <<0, 3, 7>>

RuleOf == [p \in ThreePolicies |-> p]

(* In addition, a second policy with the priority of the middle one.        *)
Twins == {<<p[1], p[2], "a">> : p \in ThreePolicies} \cup {<<2, 0, "b">>}

TwinPriority == [r \in Twins |-> <<r[1], r[2]>>]

Alone == {r \in Twins : \A t \in Twins \ {r} : TwinPriority[r] # TwinPriority[t]}

NoBatch == {}

(* The rules of the initial events may be any that share no Priority.       *)
AnyBatch ==
    {SetToSeq(S) : S \in {T \in SUBSET Twins : Cardinality({TwinPriority[r] : r \in T}) = Cardinality(T)}}

NoFailure == {}

(* Flows cannot be moved for any rule; those of a rule that shares its      *)
(* Priority can be added.                                                   *)
SomeFailures == ({"reassign"} \X Twins) \cup ({"add"} \X Alone)
=============================================================================
