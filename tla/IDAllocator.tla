----------------------------- MODULE IDAllocator -----------------------------
(***************************************************************************)
(* The allocator of conjunction IDs of the agent's NetworkPolicy            *)
(* reconciler (pkg/agent/controller/networkpolicy/allocator.go).  Every     *)
(* operation holds the allocator's mutex, so each is one action.  held is   *)
(* not in the code: it is the set of IDs that callers obtained and have     *)
(* not given back.                                                          *)
(***************************************************************************)
EXTENDS Integers, Sequences, FiniteSets

CONSTANT MaxID        \* stands for math.MaxUint32

ASSUME MaxIDAssumption == MaxID \in Nat

VARIABLES
    lastAllocatedID,  \* IDs above it are available
    availableSet,     \* IDs up to lastAllocatedID that can be reused
    availableSlice,   \* the same IDs in the order of their release
    held              \* IDs in the hands of the callers

vars == <<lastAllocatedID, availableSet, availableSlice, held>>

IDs == 1 .. MaxID

Elems(s) == {s[i] : i \in 1 .. Len(s)}

(* s lists the members of S in increasing order. *)
Ascending(s, S) ==
    /\ Elems(s) = S
    /\ \A i, j \in 1 .. Len(s) : i < j => s[i] < s[j]

(* newIDAllocator(allocatedIDs...): the restart case passes the IDs that    *)
(* are in use; the gaps below the greatest of them become available, in     *)
(* the order of the loop.                                                   *)
NewIDAllocator(allocatedIDs) ==
    /\ lastAllocatedID \in allocatedIDs \cup {0}
    /\ \A id \in allocatedIDs : id <= lastAllocatedID
    /\ availableSet = (1 .. lastAllocatedID) \ allocatedIDs
    /\ availableSlice \in UNION {[1 .. n -> availableSet] : n \in 0 .. MaxID}
    /\ Ascending(availableSlice, availableSet)
    /\ held = allocatedIDs

Init == \E allocatedIDs \in SUBSET IDs : NewIDAllocator(allocatedIDs)

AllocateReleased ==
    /\ Len(availableSlice) > 0
    /\ availableSlice' = Tail(availableSlice)
    /\ availableSet' = availableSet \ {Head(availableSlice)}
    /\ held' = held \cup {Head(availableSlice)}
    /\ UNCHANGED lastAllocatedID

AllocateNew ==
    /\ Len(availableSlice) = 0
    /\ lastAllocatedID # MaxID
    /\ lastAllocatedID' = lastAllocatedID + 1
    /\ held' = held \cup {lastAllocatedID + 1}
    /\ UNCHANGED <<availableSet, availableSlice>>

(* The error "no ID available". *)
AllocateFails ==
    /\ Len(availableSlice) = 0
    /\ lastAllocatedID = MaxID
    /\ UNCHANGED vars

Allocate == AllocateReleased \/ AllocateNew \/ AllocateFails

(* A duplicate release, or one of an ID that was never allocated, is        *)
(* refused with an error and changes nothing.                               *)
ReleaseRefused(id) ==
    \/ id \in availableSet
    \/ id > lastAllocatedID

ReleaseNotQueued(id) ==
    /\ ~ReleaseRefused(id)
    /\ availableSet' = availableSet \cup {id}
    /\ held' = held \ {id}
    /\ UNCHANGED <<lastAllocatedID, availableSlice>>

Release(id) ==
    IF ReleaseRefused(id)
    THEN UNCHANGED vars
    ELSE /\ availableSet' = availableSet \cup {id}
         /\ availableSlice' = Append(availableSlice, id)
         /\ held' = held \ {id}
         /\ UNCHANGED lastAllocatedID

Next == Allocate \/ \E id \in IDs : Release(id)

Spec == Init /\ [][Next]_vars

-----------------------------------------------------------------------------
TypeOK ==
    /\ lastAllocatedID \in 0 .. MaxID
    /\ availableSet \in SUBSET IDs
    /\ availableSlice \in Seq(IDs)
    /\ held \in SUBSET IDs

(* allocator.go, the comment on lastAllocatedID: an ID up to it is          *)
(* available exactly when it is in availableSet, and an ID that a caller    *)
(* holds is neither available for reuse nor above lastAllocatedID, so       *)
(* allocate never hands it out a second time.                               *)
HeldNeverAvailable ==
    /\ held \cap availableSet = {}
    /\ held \cup availableSet = 1 .. lastAllocatedID

(* The set that guards against duplicate release and the slice that orders  *)
(* reuse stay two views of the same IDs, each ID queued once.               *)
SliceMatchesSet ==
    /\ Elems(availableSlice) = availableSet
    /\ \A i, j \in 1 .. Len(availableSlice) :
           availableSlice[i] = availableSlice[j] => i = j

(* allocate fails only when every ID is in a caller's hands: the error at   *)
(* math.MaxUint32 is never reported while an ID could be reused.            *)
FailsOnlyWhenExhausted ==
    (Len(availableSlice) = 0 /\ lastAllocatedID = MaxID) => held = IDs

(* "they will be reused FIFO": an ID is handed out again only when no ID    *)
(* that was released before it is still waiting.                            *)
ReusedFIFO ==
    [][\A i, j \in 1 .. Len(availableSlice) :
          (i < j /\ availableSlice[j] \in held')
              => availableSlice[i] \notin availableSet']_vars

(* The three together, which is what the callers of the allocator rely on.  *)
AllocatorSafe == HeldNeverAvailable /\ SliceMatchesSet /\ FailsOnlyWhenExhausted
==============================================================================
