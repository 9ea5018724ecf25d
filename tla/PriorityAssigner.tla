-------------------------- MODULE PriorityAssigner --------------------------
(* The assignment of OpenFlow priorities to the Priorities of rules of      *)
(* Antrea-native policies (pkg/agent/controller/networkpolicy/priority.go). *)
(*                                                                          *)
(* An assigner is a record a of                                             *)
(*   priorityMap       Priority -> OpenFlow priority,                       *)
(*   ofPriorityMap     OpenFlow priority -> Priority,                       *)
(*   sortedPriorities  the Priorities in the sorted list, as a set: the list *)
(*                     is kept in the order of Less.                        *)
(* A Priority is <<zone, rule>>: zone stands for the Tier and the priority  *)
(* of the policy, rule is RulePriority.  Small numbers come first.          *)
EXTENDS Integers, SequencesExt

CONSTANTS
    Priorities,          \* set of <<zone, rule>>
    ZoneOffset,          \* zone -> tierOffset + priorityOffset
    PolicyBottomPriority,
    PolicyTopPriority,
    zoneOffset

UInt16(n) == n % 65536

Less(p, q) == p[1] > q[1] \/ (p[1] = q[1] /\ p[2] > q[2])

IsConsecutive(p, q) == p[1] = q[1] /\ (p[2] - q[2] = 1 \/ q[2] - p[2] = 1)

InitialOFPriority(p) ==
    LET offset == UInt16(ZoneOffset[p[1]] + p[2])
    IN  IF PolicyTopPriority - PolicyBottomPriority < offset THEN PolicyBottomPriority
        ELSE PolicyTopPriority - offset

newPriorityAssigner == [priorityMap |-> <<>>, ofPriorityMap |-> <<>>, sortedPriorities |-> {}]

(* A read of a Go map returns 0 for a Priority that is not in it.           *)
GetOFPriority(a, p) == IF p \in DOMAIN a.priorityMap THEN a.priorityMap[p] ELSE 0

updatePriorityAssignment(a, of, p) ==
    [priorityMap |-> (p :> of) @@ a.priorityMap,
     ofPriorityMap |-> (of :> p) @@ a.ofPriorityMap,
     sortedPriorities |-> a.sortedPriorities \cup {p}]

(* Assigns low, low + 1, ... to the elements of a sequence.                 *)
AssignFrom(a, low, priorities) ==
    FoldLeft(LAMBDA b, i : updatePriorityAssignment(b, UInt16(low + i - 1), priorities[i]),
             a, [i \in DOMAIN priorities |-> i])

deletePriorityMapping(a, of, p) ==
    [a EXCEPT !.priorityMap = Restrict(@, DOMAIN @ \ {p}),
              !.ofPriorityMap = Restrict(@, DOMAIN @ \ {of})]

unregisterPriority(a, p) == [a EXCEPT !.sortedPriorities = @ \ {p}]

Release(a, of) ==
    IF of \notin DOMAIN a.ofPriorityMap THEN a
    ELSE LET p == a.ofPriorityMap[of]
         IN  unregisterPriority(deletePriorityMapping(a, of, p), p)

-----------------------------------------------------------------------------
(* Making room.                                                             *)

(* The free OpenFlow priorities from a bound to the end of the table.       *)
FreeBelow(a, lowerBound) == (PolicyBottomPriority .. lowerBound) \ DOMAIN a.ofPriorityMap

FreeAbove(a, upperBound) == (upperBound .. PolicyTopPriority) \ DOMAIN a.ofPriorityMap

(* The k-th of a set of OpenFlow priorities, going down or up.              *)
KthDown(free, k) == CHOOSE o \in free : Cardinality({x \in free : x >= o}) = k

KthUp(free, k) == CHOOSE o \in free : Cardinality({x \in free : x <= o}) = k

(* The range [low, high] to reassign, or an empty set of ranges when there  *)
(* is none.  costMap[i] uses i free slots below and target - i above; the   *)
(* cost of an entry that uses both counts all Priorities that were passed   *)
(* on the way down, not only those in the range.                            *)
findReassignBoundaries(a, lowerBound, upperBound, numNew, gap) ==
    LET target == numNew - gap
        used == DOMAIN a.ofPriorityMap
        Used(l, h) == Cardinality(used \cap (l .. h))
        freeLow == FreeBelow(a, lowerBound)
        freeHigh == FreeAbove(a, upperBound)
        slotsLow == Min({target, Cardinality(freeLow)})
        slotsHigh == Min({target, Cardinality(freeHigh)})
        down == IF target <= 0 THEN 0
                ELSE Used(IF slotsLow = target THEN KthDown(freeLow, target)
                          ELSE PolicyBottomPriority, lowerBound)
        Up(i) == KthUp(freeHigh, target - i)
        Mixed(i) == [index |-> i, low |-> KthDown(freeLow, i), high |-> Up(i),
                     cost |-> down + Used(upperBound, Up(i))]
        Below(i) == [index |-> i, low |-> KthDown(freeLow, i), high |-> upperBound - 1,
                     cost |-> Used(KthDown(freeLow, i), lowerBound)]
        Above == [index |-> 0, low |-> lowerBound + 1, high |-> Up(0),
                  cost |-> Used(upperBound, Up(0))]
        costMap == {IF target - i \in 1 .. slotsHigh THEN Mixed(i) ELSE Below(i) :
                       i \in 1 .. slotsLow}
                   \cup (IF target >= 1 /\ slotsHigh = target THEN {Above} ELSE {})
        fitting == {c \in costMap : UInt16(c.high - c.low) + 1 = numNew + c.cost}
    IN  {c \in fitting : \A d \in fitting \ {c} :
            c.cost < d.cost \/ (c.cost = d.cost /\ c.index > d.index)}

(* Capacity of a slice that has grown to n elements by append.              *)
Capacity(n) == IF n = 0 THEN 0 ELSE Min({2 ^ k : k \in {j \in 0 .. 16 : 2 ^ j >= n}})

(* Slip: the new Priorities come last.                                      *)
allPrioritiesNewLast(low, new, high) == low \o high \o new

(* allPriorities and reassignedPriorities are both appended to              *)
(* siftedPrioritiesLow: while all of allPriorities fits in its capacity,    *)
(* the second append overwrites what the first one wrote.                   *)
allPriorities(low, new, high) ==
    LET all == low \o new \o high
    IN  IF Len(all) > Capacity(Len(low)) THEN all
        ELSE [i \in DOMAIN all |-> IF i \in Len(low) + 1 .. Len(low) + Len(high)
                                   THEN high[i - Len(low)] ELSE all[i]]

(* The Priorities mapped in a range, in order.                              *)
Sifted(a, low, high) ==
    LET slots == SetToSortSeq(DOMAIN a.ofPriorityMap \cap (low .. high), LAMBDA x, y : x < y)
    IN  [i \in DOMAIN slots |-> a.ofPriorityMap[slots[i]]]

Failed == [err |-> TRUE]

(* The result of an insertion is the assigner and the updates so far        *)
(* (Priority -> [Original, Updated]), or Failed.                            *)
reassignBoundaryPriorities(a, lowerBound, upperBound, new, updates) ==
    LET found == findReassignBoundaries(a, lowerBound, upperBound, Len(new),
                                        UInt16(upperBound - lowerBound - 1))
    IN  IF found = {} THEN Failed
        ELSE LET c == CHOOSE x \in found : TRUE
                 siftedLow == Sifted(a, c.low, lowerBound)
                 siftedHigh == Sifted(a, upperBound, c.high)
                 reassigned == Range(siftedLow) \cup Range(siftedHigh)
                 b == AssignFrom(a, c.low, allPriorities(siftedLow, new, siftedHigh))
                 Original(p) == IF p \in DOMAIN updates THEN updates[p].Original
                                ELSE GetOFPriority(a, p)
             IN  [err |-> FALSE, assigner |-> b,
                  updates |-> [p \in reassigned |-> [Original |-> Original(p),
                                                     Updated |-> b.priorityMap[p]]]
                              @@ updates]

-----------------------------------------------------------------------------
(* Insertion of a list of consecutive Priorities, lowest first.             *)

(* The least and the greatest of a set of Priorities.                       *)
Lowest(S) == CHOOSE p \in S : \A q \in S : ~ Less(q, p)

Highest(S) == CHOOSE p \in S : \A q \in S : ~ Less(p, q)

(* Where to put n Priorities between two bounds that leave room for more.   *)
InsertionPoint(priorities, lowerBound, upperBound) ==
    LET n == Len(priorities)
        low == InitialOFPriority(priorities[1])
        high == InitialOFPriority(priorities[n])
        wide == UInt16(upperBound - lowerBound - 1) >= n + 2 * zoneOffset
    IN  IF low > lowerBound /\ high < upperBound THEN low
        ELSE IF wide /\ low <= lowerBound THEN UInt16(lowerBound + zoneOffset + 1)
        ELSE IF wide THEN UInt16(upperBound - zoneOffset - n)
        ELSE UInt16(lowerBound + UInt16(upperBound - lowerBound - n) \div 2 + 1)

insertConsecutivePriorities(a, priorities, updates) ==
    LET below == {q \in a.sortedPriorities : ~ Less(priorities[1], q)}
        above == a.sortedPriorities \ below
        lowerBound == IF below = {} THEN PolicyBottomPriority
                      ELSE a.priorityMap[Highest(below)]
        upperBound == IF above = {} THEN PolicyTopPriority
                      ELSE a.priorityMap[Lowest(above)]
    IN  IF UInt16(upperBound - lowerBound - 1) <= Len(priorities)
        THEN reassignBoundaryPriorities(a, lowerBound, upperBound, priorities, updates)
        ELSE [err |-> FALSE, updates |-> updates,
              assigner |-> AssignFrom(a, InsertionPoint(priorities, lowerBound, upperBound),
                                      priorities)]

(* A sorted list cut where two neighbours are not consecutive.              *)
ConsecutiveLists(sorted) ==
    LET ends == {i \in DOMAIN sorted :
                    i = Len(sorted) \/ ~ IsConsecutive(sorted[i + 1], sorted[i])}
        seq == SetToSortSeq(ends, LAMBDA i, j : i < j)
    IN  [k \in DOMAIN seq |-> SubSeq(sorted, IF k = 1 THEN 1 ELSE seq[k - 1] + 1, seq[k])]

(* Undoes a registration.  The updates are visited in the order in which Go *)
(* iterates over a map, which is any order.                                 *)
(* Slip: the new Priorities stay registered.                                *)
RevertedUpdatesOnly(a, new, updates) ==
    LET Restore(b, p) ==
            [deletePriorityMapping(b, b.priorityMap[p], p) EXCEPT
                !.ofPriorityMap = (updates[p].Original :> p) @@ @,
                !.priorityMap = (p :> updates[p].Original) @@ @]
    IN  {FoldLeft(Restore, a, order) : order \in SetToSeqs(DOMAIN updates)}

Reverted(a, new, updates) ==
    LET Unregister(b, p) ==
            IF p \in DOMAIN b.priorityMap
            THEN deletePriorityMapping(unregisterPriority(b, p), b.priorityMap[p], p)
            ELSE b
        Restore(b, p) ==
            LET c == IF p \in DOMAIN b.priorityMap
                     THEN deletePriorityMapping(b, b.priorityMap[p], p) ELSE b
            IN  [c EXCEPT !.ofPriorityMap = (updates[p].Original :> p) @@ @,
                          !.priorityMap = (p :> updates[p].Original) @@ @]
        unregistered == FoldLeft(Unregister, a, new)
    IN  {FoldLeft(Restore, unregistered, order) : order \in SetToSeqs(DOMAIN updates)}

(* The number of Priorities that do not fit is an error before anything is  *)
(* changed; an error of an insertion reverts the earlier ones.  The result  *)
(* is a set, for the order of reverting.                                    *)
RegisterPriorities(a, priorities) ==
    LET new == SortSeq(SelectSeq(priorities, LAMBDA p : p \notin DOMAIN a.priorityMap), Less)
        Insert(acc, list) ==
            IF acc.err THEN acc
            ELSE LET r == insertConsecutivePriorities(acc.assigner, list, acc.updates)
                 IN  IF r = Failed THEN [acc EXCEPT !.err = TRUE]
                     ELSE [acc EXCEPT !.assigner = r.assigner, !.updates = r.updates]
        done == FoldLeft(Insert, [err |-> FALSE, assigner |-> a, updates |-> <<>>],
                         ConsecutiveLists(new))
    IN  IF new = <<>> THEN {[err |-> FALSE, assigner |-> a, updates |-> <<>>, new |-> <<>>]}
        ELSE IF UInt16(Len(new) + Cardinality(a.sortedPriorities)) >
                PolicyTopPriority - PolicyBottomPriority + 1
        THEN {[err |-> TRUE, assigner |-> a, updates |-> <<>>, new |-> <<>>]}
        ELSE IF done.err
        THEN {[err |-> TRUE, assigner |-> b, updates |-> <<>>, new |-> <<>>] :
                 b \in Reverted(done.assigner, new, done.updates)}
        ELSE {[err |-> FALSE, assigner |-> done.assigner, updates |-> done.updates,
               new |-> new]}

(* Of two updates from the same OpenFlow priority, the one that Go happens  *)
(* to visit last is kept.                                                   *)
priorityUpdatesToOFUpdates(updates) ==
    LET originals == {updates[p].Original : p \in DOMAIN updates}
    IN  {[of \in originals |-> updates[kept[of]].Updated] :
            kept \in {k \in [originals -> DOMAIN updates] :
                        \A of \in originals : updates[k[of]].Original = of}}
=============================================================================
