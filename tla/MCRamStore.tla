----------------------------- MODULE MCRamStore -----------------------------
(* Small instances of RamStore.                                             *)
EXTENDS RamStore, TLC

CONSTANTS n1, n2, w1, m1, m2

(* The watcher of the agent on n1.                                          *)
OnNode == [w \in Watchers |-> n1]

Unselective == [w \in Watchers |-> Nil]

(* A group in and out of the span of n1, with and without a member change.  *)
Groups == {[span |-> {n1}, body |-> {m1}],
           [span |-> {n2}, body |-> {m1}],
           [span |-> {n1, n2}, body |-> {m2}]}

(* The span of an AppliedToGroup is the set of Nodes with members.          *)
AppliedToGroups ==
    {[span |-> {x[1] : x \in b}, body |-> b] :
        b \in {{<<n1, m1>>}, {<<n2, m1>>}, {<<n1, m1>>, <<n2, m2>>}}}

MCItems == {m1, m2} \cup ({n1, n2} \X {m1, m2})

(* Policies are sent whole, whatever has changed.                           *)
InternalPolicies == {[span |-> {n1}, body |-> {m1}], [span |-> {n1, n2}, body |-> {m2}]}

AllStores == [NetworkPolicy |-> InternalPolicies, AddressGroup |-> Groups,
              AppliedToGroup |-> AppliedToGroups]

OnePolicy == [NetworkPolicy |-> {[span |-> {n1}, body |-> {m1}]}]
=============================================================================
