----------------------------- MODULE AgentProofs -----------------------------
(***************************************************************************)
(* Theorems about components of the agent: the allocator of conjunction     *)
(* IDs, the OpenFlow client, the exceptions of IP blocks and the support    *)
(* bundles. The components share no state; each has a section here.         *)
(***************************************************************************)
EXTENDS IDAllocator, OpenFlowClient, IPBlocks, SupportBundle, FiniteSetTheorems,
        WellFoundedInduction, TLAPS

-----------------------------------------------------------------------------
(***************************************************************************)
(* For every number of IDs, the allocator never hands out an ID that is in  *)
(* use and fails only when all of them are.                                 *)
(***************************************************************************)

(* None of the three is inductive alone: allocate takes the ID from the     *)
(* slice, and only SliceMatchesSet says that it was available.              *)
IInv == TypeOK /\ HeldNeverAvailable /\ SliceMatchesSet

(* newIDAllocator starts with the gaps below the greatest used ID queued    *)
(* once each.                                                               *)
LEMMA InitEstablishes == Init => IInv
<1> SUFFICES ASSUME NEW allocatedIDs \in SUBSET IDs, NewIDAllocator(allocatedIDs)
             PROVE  IInv
  BY Zenon DEF Init
<1>1. PICK n \in 0 .. MaxID : availableSlice \in [1 .. n -> availableSet]
  BY Zenon DEF NewIDAllocator
<1>2. Len(availableSlice) = n /\ availableSlice \in Seq(IDs)
  BY <1>1, MaxIDAssumption DEF NewIDAllocator, IDs
<1>3. TypeOK
  BY <1>2, MaxIDAssumption DEF NewIDAllocator, TypeOK, IDs
<1>4. HeldNeverAvailable
  <2>1. allocatedIDs \subseteq 1 .. lastAllocatedID
    BY MaxIDAssumption DEF NewIDAllocator, IDs
  <2> QED  BY <2>1, Zenon DEF NewIDAllocator, HeldNeverAvailable
<1>5. SliceMatchesSet
  <2>1. ASSUME NEW i \in 1 .. n, NEW j \in 1 .. n,
               availableSlice[i] = availableSlice[j]
        PROVE  i = j
    <3>1. availableSlice[i] \in Nat /\ availableSlice[j] \in Nat
      BY <1>1, <1>2, MaxIDAssumption DEF IDs
    <3>2. ~(i < j) /\ ~(j < i)
      BY <2>1, <3>1, <1>2 DEF NewIDAllocator, Ascending
    <3> QED  BY <3>2, MaxIDAssumption
  <2> QED  BY <2>1, <1>2, Zenon DEF NewIDAllocator, Ascending, SliceMatchesSet
<1> QED  BY <1>3, <1>4, <1>5, Zenon DEF IInv

(* allocate, reusing the first released ID.                                 *)
LEMMA AllocateReleasedPreserves == IInv /\ AllocateReleased => IInv'
<1> SUFFICES ASSUME IInv, AllocateReleased PROVE IInv'
  BY Zenon
<1> USE DEF IInv, TypeOK, HeldNeverAvailable, SliceMatchesSet, Elems
<1> DEFINE s == availableSlice
           n == Len(s)
<1>1. /\ s \in Seq(IDs) /\ n \in Nat /\ n > 0
      /\ s' = Tail(s) /\ Len(s') = n - 1 /\ s' \in Seq(IDs)
      /\ \A i \in 1 .. n - 1 : s'[i] = s[i + 1]
      /\ Head(s) = s[1]
  BY DEF AllocateReleased
<1>2. s[1] \in availableSet /\ s[1] \in IDs
  BY <1>1
<1>3. TypeOK'
  BY <1>1, <1>2, Zenon DEF AllocateReleased
<1>4. HeldNeverAvailable'
  BY <1>1, <1>2 DEF AllocateReleased
<1>5. \A i, j \in 1 .. Len(s') : s'[i] = s'[j] => i = j
  BY <1>1
<1>6. Elems(s') = availableSet'
  <2>1. ASSUME NEW x \in availableSet' PROVE x \in Elems(s')
    <3>1. PICK k \in 1 .. n : s[k] = x
      BY <2>1, Zenon DEF AllocateReleased
    <3>2. k # 1
      BY <3>1, <2>1, <1>1, Zenon DEF AllocateReleased
    <3>3. k - 1 \in 1 .. Len(s') /\ s'[k - 1] = x
      BY <3>1, <3>2, <1>1
    <3> QED  BY <3>3, Zenon
  <2>2. ASSUME NEW i \in 1 .. Len(s') PROVE s'[i] \in availableSet'
    <3>1. i + 1 \in 1 .. n /\ 1 \in 1 .. n /\ s'[i] = s[i + 1] /\ i + 1 # 1
      BY <1>1
    <3>2. s[i + 1] # s[1]
      BY <3>1, Zenon
    <3> QED  BY <3>1, <3>2, <1>1, Zenon DEF AllocateReleased
  <2> QED  BY <2>1, <2>2
<1> QED  BY <1>3, <1>4, <1>5, <1>6, Zenon

(* release of an ID that is in use.                                         *)
LEMMA ReleasePreserves == ASSUME NEW id \in IDs PROVE IInv /\ Release(id) => IInv'
<1> SUFFICES ASSUME IInv, Release(id), ~ReleaseRefused(id) PROVE IInv'
  BY Zenon DEF IInv, TypeOK, HeldNeverAvailable, SliceMatchesSet, Release, vars
<1> USE DEF IInv, TypeOK, HeldNeverAvailable, SliceMatchesSet, Elems
<1> DEFINE s == availableSlice
           n == Len(s)
<1>1. /\ s \in Seq(IDs) /\ n \in Nat
      /\ s' = Append(s, id) /\ Len(s') = n + 1 /\ s' \in Seq(IDs)
      /\ \A i \in 1 .. n : s'[i] = s[i]
      /\ s'[n + 1] = id
  BY DEF Release
<1>2. id \in held /\ id \notin availableSet
  BY MaxIDAssumption DEF ReleaseRefused, IDs
<1>3. TypeOK'
  BY <1>1, Zenon DEF Release
<1>4. HeldNeverAvailable'
  BY <1>2 DEF Release
<1>5. \A i, j \in 1 .. Len(s') : s'[i] = s'[j] => i = j
  <2>1. \A i \in 1 .. n : s[i] # id
    BY <1>2, Zenon
  <2> QED  BY <1>1, <2>1
<1>6. Elems(s') = availableSet'
  BY <1>1 DEF Release
<1> QED  BY <1>3, <1>4, <1>5, <1>6, Zenon

(* The induction step over allocate and release.                            *)
LEMMA NextPreserves == IInv /\ [Next]_vars => IInv'
<1> SUFFICES ASSUME IInv, [Next]_vars PROVE IInv'
  BY Zenon
<1>1. CASE AllocateReleased
  BY <1>1, AllocateReleasedPreserves, Zenon
<1>2. CASE AllocateNew
  <2>1. lastAllocatedID + 1 \in IDs /\ lastAllocatedID + 1 \notin held \cup availableSet
    BY <1>2, MaxIDAssumption
    DEF AllocateNew, IInv, TypeOK, HeldNeverAvailable, IDs
  <2>2. TypeOK'
    BY <1>2, <2>1, MaxIDAssumption DEF AllocateNew, IInv, TypeOK, IDs
  <2>3. HeldNeverAvailable'
    BY <1>2, <2>1, MaxIDAssumption
    DEF AllocateNew, IInv, TypeOK, HeldNeverAvailable
  <2>4. SliceMatchesSet'
    BY <1>2 DEF AllocateNew, IInv, SliceMatchesSet, Elems
  <2> QED  BY <2>2, <2>3, <2>4, Zenon DEF IInv
<1>3. CASE AllocateFails \/ UNCHANGED vars
  BY <1>3 DEF AllocateFails, vars, IInv, TypeOK, HeldNeverAvailable,
              SliceMatchesSet, Elems
<1>4. CASE \E id \in IDs : Release(id)
  BY <1>4, ReleasePreserves, Zenon
<1> QED  BY <1>1, <1>2, <1>3, <1>4, Zenon DEF Next, Allocate

(* The allocator's representation invariant, for every MaxID.               *)
THEOREM Invariance == Spec => []IInv
  BY InitEstablishes, NextPreserves, PTL DEF Spec

(* allocate never hands out an ID that a caller holds.                      *)
THEOREM NoDoubleAllocation == Spec => []HeldNeverAvailable
<1>1. IInv => HeldNeverAvailable
  BY Zenon DEF IInv
<1> QED  BY <1>1, Invariance, PTL

(* allocate reports exhaustion only when every ID is in use.                *)
THEOREM Exhaustion == Spec => []FailsOnlyWhenExhausted
<1>1. IInv => FailsOnlyWhenExhausted
  <2> SUFFICES ASSUME IInv, Len(availableSlice) = 0, lastAllocatedID = MaxID
               PROVE  held = IDs
    BY Zenon DEF FailsOnlyWhenExhausted
  <2>1. availableSet = {}
    BY DEF IInv, TypeOK, SliceMatchesSet, Elems
  <2> QED  BY <2>1, Zenon DEF IInv, HeldNeverAvailable, IDs
<1> QED  BY <1>1, Invariance, PTL

(* What the callers of allocate and release rely on, for every MaxID.       *)
THEOREM Safety == Spec => []AllocatorSafe
<1>1. IInv => SliceMatchesSet
  BY Zenon DEF IInv
<1>2. HeldNeverAvailable /\ SliceMatchesSet /\ FailsOnlyWhenExhausted => AllocatorSafe
  BY Zenon DEF AllocatorSafe
<1> QED  BY <1>1, <1>2, Invariance, NoDoubleAllocation, Exhaustion, PTL

(* Released IDs are handed out in the order of their release.               *)
THEOREM Reuse == Spec => ReusedFIFO
<1> DEFINE s == availableSlice
           InOrder == \A i, j \in 1 .. Len(s) :
               (i < j /\ s[j] \in held') => s[i] \notin availableSet'
<1>1. IInv /\ [Next]_vars => [InOrder]_vars
  <2> SUFFICES ASSUME IInv, Next,
                      NEW i \in 1 .. Len(s), NEW j \in 1 .. Len(s), i < j
               PROVE  s[j] \notin held'
    BY Zenon DEF InOrder
  <2>1. s \in Seq(IDs) /\ Len(s) \in Nat /\ s[j] \in availableSet /\ s[j] \notin held
    BY DEF IInv, TypeOK, SliceMatchesSet, HeldNeverAvailable, Elems
  <2>2. CASE AllocateReleased
    <3>1. s[j] # s[1]
      BY <2>1 DEF IInv, SliceMatchesSet
    <3> QED  BY <2>1, <2>2, <3>1 DEF AllocateReleased
  <2>3. CASE AllocateNew \/ AllocateFails
    BY <2>1, <2>3 DEF AllocateNew, AllocateFails, vars
  <2>4. CASE \E id \in IDs : Release(id)
    BY <2>1, <2>4, Zenon DEF Release, vars
  <2> QED  BY <2>2, <2>3, <2>4, Zenon DEF Next, Allocate
<1> QED  BY <1>1, Invariance, PTL DEF Spec, ReusedFIFO

-----------------------------------------------------------------------------
(***************************************************************************)
(* At most two rounds of flows are on the bridge, for any keys, any width   *)
(* of the round number (numbers wrap around and may even coincide) and any  *)
(* number of crashes, restarts of OVS, lost connections and failed calls.   *)
(***************************************************************************)

(* What the round numbers of the flows, of the process and of the OVSDB     *)
(* have to do with each other. While the agent is down, the next start will *)
(* take the number after the persisted one: only flows with one of these    *)
(* two may be there. A run keeps that until the cleaner has deleted the     *)
(* flows of the run before; then its own number is all there is, and may be *)
(* persisted.                                                               *)
RoundsKnown ==
  /\ up \in {"down", "initializing", "running"}
  /\ up = "down" => Rounds \subseteq {persisted, getRoundInfo(persisted)}
  /\ up # "down" => Rounds \subseteq {round, prevRound}
  /\ up # "running" => cleaner = "none"
  /\ up # "down" /\ cleaner # "done" => prevRound = persisted /\ round = getRoundInfo(persisted)
  /\ cleaner \in {"persisting", "done"} => Rounds \subseteq {round}
  /\ cleaner = "done" => persisted = round

RoundsInv == DOMAIN ovs = AllKeys /\ (~readFailed => RoundsKnown)

(* A bundle tags the flows of a key with the number of this run.            *)
LEMMA PutAddsRound ==
  ASSUME NEW k \in AllKeys, NEW v, DOMAIN ovs = AllKeys,
         ovs' = [ovs EXCEPT ![k] = [val |-> v, round |-> round]]
  PROVE  DOMAIN ovs' = AllKeys /\ Rounds' \subseteq Rounds \cup {round}
<1>1. DOMAIN ovs' = AllKeys
  BY Zenon
<1>2. ASSUME NEW j \in AllKeys PROVE ovs'[j].round \in {ovs[j].round, round}
  BY Zenon
<1> QED  BY <1>1, <1>2, Zenon DEF Rounds

(* deleteFlowsByRoundNum leaves no flow of a round and adds none.           *)
LEMMA DeleteDropsRound ==
  ASSUME NEW r, ovs' = deleteFlowsByRoundNum(r)
  PROVE  DOMAIN ovs' = AllKeys /\ Rounds' \subseteq Rounds \ {r}
<1>1. DOMAIN ovs' = AllKeys
  BY Zenon DEF deleteFlowsByRoundNum
<1>2. ASSUME NEW j \in AllKeys
      PROVE  ovs'[j].round = NoRound \/ (ovs'[j].round = ovs[j].round /\ ovs[j].round # r)
  BY Zenon DEF deleteFlowsByRoundNum, Absent
<1> QED  BY <1>1, <1>2, Zenon DEF Rounds

(* Before the first start there is no flow.                                 *)
LEMMA NoFlowsAtFirst == FlowInit => RoundsInv
<1> SUFFICES ASSUME FlowInit PROVE RoundsInv
  BY Zenon
<1>1. \A k \in AllKeys : ovs[k].round = NoRound
  BY Zenon DEF FlowInit, Absent
<1>2. Rounds = {}
  BY <1>1, Zenon DEF Rounds
<1> QED  BY <1>2, Zenon DEF FlowInit, RoundsInv, RoundsKnown

(* The rounds and the next number depend on the flows and the OVSDB only.   *)
LEMMA Frame ==
  /\ UNCHANGED ovs => Rounds' = Rounds
  /\ UNCHANGED persisted => getRoundInfo(persisted)' = getRoundInfo(persisted)
  BY Zenon DEF Rounds, getRoundInfo

(* Steps that touch neither the flows nor a round number nor the cleaner.   *)
LEMMA OthersPreserve ==
  RoundsInv /\ UNCHANGED <<ovs, up, round, prevRound, persisted, cleaner, readFailed>> => RoundsInv'
  BY Frame DEF RoundsInv, RoundsKnown

(* A start: the flows of its number, which a run that did not get to the    *)
(* end has left, go first.                                                  *)
LEMMA StartPreserves == RoundsInv /\ (Initialize \/ InitializeReadFails) => RoundsInv'
<1> SUFFICES ASSUME RoundsInv, Initialize \/ InitializeReadFails PROVE RoundsInv'
  BY Zenon
<1>1. CASE InitializeReadFails
  <2>1. DOMAIN ovs' = AllKeys
    BY <1>1, Zenon DEF InitializeReadFails, StartWith, deleteFlowsByRoundNum
  <2> QED  BY <1>1, <2>1, Zenon DEF InitializeReadFails, RoundsInv
<1>2. CASE Initialize
  <2>1. DOMAIN ovs' = AllKeys /\ Rounds' \subseteq Rounds \ {getRoundInfo(persisted)}
    BY <1>2, DeleteDropsRound, Zenon DEF Initialize, StartWith
  <2>2. ~readFailed => RoundsKnown'
    BY <1>2, <2>1, Zenon DEF Initialize, StartWith, RoundsInv, RoundsKnown, getRoundInfo
  <2> QED  BY <1>2, <2>1, <2>2, Zenon DEF Initialize, RoundsInv
<1> QED  BY <1>1, <1>2, Zenon

(* Installing the flows of a key, at the start, by a call or by a replay.   *)
LEMMA InstallPreserves ==
  ASSUME RoundsInv, UNCHANGED <<prevRound, persisted, round, readFailed>>,
         Rounds' \subseteq Rounds \cup {round}, DOMAIN ovs' = AllKeys,
         ~readFailed => up # "down",
         \/ UNCHANGED <<up, cleaner>>
         \/ up = "initializing" /\ up' = "running" /\ cleaner' = "sleeping"
  PROVE  RoundsInv'
  BY Zenon DEF RoundsInv, RoundsKnown, getRoundInfo

(* The goroutine that deletes the flows of the run before and persists the  *)
(* number of this one.                                                      *)
LEMMA CleanerPreserves == RoundsInv /\ Cleaner => RoundsInv'
<1> SUFFICES ASSUME RoundsInv, Cleaner PROVE RoundsInv'
  BY Zenon
<1>1. CASE DeleteStaleFlows
  <2>1. DOMAIN ovs' = AllKeys /\ Rounds' \subseteq Rounds \ {prevRound}
    <3>1. CASE prevRound = NoRound
      BY <1>1, <3>1, Zenon DEF DeleteStaleFlows, Rounds, RoundsInv
    <3>2. CASE prevRound # NoRound
      BY <1>1, <3>2, DeleteDropsRound, Zenon DEF DeleteStaleFlows
    <3> QED  BY <3>1, <3>2, Zenon
  <2> QED  BY <1>1, <2>1, Zenon DEF DeleteStaleFlows, RoundsInv, RoundsKnown, getRoundInfo
<1>2. CASE DeleteStaleFlowsFails
  BY <1>2, Zenon DEF DeleteStaleFlowsFails, switchVars, RoundsInv, RoundsKnown, Rounds, getRoundInfo
<1>3. CASE persistRoundNum
  BY <1>3, Zenon DEF persistRoundNum, switchVars, RoundsInv, RoundsKnown, Rounds, getRoundInfo
<1> QED  BY <1>1, <1>2, <1>3, Zenon DEF Cleaner

(* The end of the process, by a crash or a failed start.                    *)
LEMMA ExitPreserves == RoundsInv /\ up # "down" /\ Exit => RoundsInv'
  BY Frame DEF RoundsInv, RoundsKnown, Exit

(* Replays and calls run only in a process that is up.                      *)
UpInv == up = "down" => replay = "idle"

LEMMA UpPreserved == UpInv /\ [FlowNext]_ofVars => UpInv'
  BY Zenon DEF UpInv, FlowNext, Initialize, StartWith, InitializeReadFails, InstallFixedFlows, StartFails,
         Crash, Exit, addFlows, storeFlows, deleteFlows, dropFlows, RestartOVS, Disconnect,
         SwitchConnected, Replayer, TakeNotice, ReplayFlows, ReplayDone, FlowRestoreComplete,
         installCachedFlows, installCachedFlowsFails, Cleaner, DeleteStaleFlows,
         DeleteStaleFlowsFails, persistRoundNum, agentVars, ofVars

(* The induction step over all actions.                                     *)
LEMMA RoundsPreserved == RoundsInv /\ UpInv /\ [FlowNext]_ofVars => RoundsInv'
<1> SUFFICES ASSUME RoundsInv, UpInv, [FlowNext]_ofVars PROVE RoundsInv'
  BY Zenon
<1>1. CASE Initialize \/ InitializeReadFails
  BY <1>1, StartPreserves, Zenon
<1>2. CASE InstallFixedFlows
  <2>1. Fixed \in AllKeys
    BY Zenon DEF AllKeys
  <2>2. DOMAIN ovs' = AllKeys /\ Rounds' \subseteq Rounds \cup {round}
    BY <1>2, <2>1, PutAddsRound, Zenon DEF InstallFixedFlows, RoundsInv
  <2> QED  BY <1>2, <2>2, InstallPreserves, Zenon DEF InstallFixedFlows
<1>3. CASE StartFails \/ Crash
  BY <1>3, ExitPreserves, Zenon DEF StartFails, Crash
<1>4. ASSUME NEW k \in Keys, NEW v \in Values, addFlows(k, v) PROVE RoundsInv'
  <2>1. k \in AllKeys
    BY Zenon DEF AllKeys
  <2>2. DOMAIN ovs' = AllKeys /\ Rounds' \subseteq Rounds \cup {round}
    BY <1>4, <2>1, PutAddsRound, Zenon DEF addFlows, RoundsInv
  <2> QED  BY <1>4, <2>2, InstallPreserves, Zenon DEF addFlows
<1>5. ASSUME NEW k \in Keys, deleteFlows(k) PROVE RoundsInv'
  <2>1. DOMAIN ovs' = AllKeys /\ \A j \in AllKeys : ovs'[j].round \in {ovs[j].round, NoRound}
    BY <1>5, Zenon DEF deleteFlows, RoundsInv, Absent
  <2>2. Rounds' \subseteq Rounds
    BY <2>1, Zenon DEF Rounds
  <2> QED  BY <1>5, <2>1, <2>2, Zenon DEF deleteFlows, RoundsInv, RoundsKnown, getRoundInfo
<1>6. CASE RestartOVS
  <2>1. DOMAIN ovs' = AllKeys /\ \A j \in AllKeys : ovs'[j].round = NoRound
    BY <1>6, Zenon DEF RestartOVS, Absent
  <2>2. Rounds' = {}
    BY <2>1, Zenon DEF Rounds
  <2> QED  BY <1>6, <2>1, <2>2, Zenon DEF RestartOVS, agentVars, RoundsInv, RoundsKnown, getRoundInfo
<1>7. ASSUME NEW k \in AllKeys, installCachedFlows(k) PROVE RoundsInv'
  <2>1. DOMAIN ovs' = AllKeys /\ Rounds' \subseteq Rounds \cup {round}
    BY <1>7, PutAddsRound, Zenon DEF installCachedFlows, RoundsInv
  <2> QED  BY <1>7, <2>1, InstallPreserves, Zenon DEF installCachedFlows, UpInv
<1>8. CASE Cleaner
  BY <1>8, CleanerPreserves, Zenon
<1>9. CASE \/ \E k \in Keys : storeFlows(k) \/ dropFlows(k)
           \/ Disconnect \/ SwitchConnected \/ TakeNotice \/ ReplayFlows
           \/ ReplayDone \/ FlowRestoreComplete \/ UNCHANGED ofVars
           \/ \E k \in AllKeys : installCachedFlowsFails(k)
  BY <1>9, OthersPreserve, Zenon
     DEF storeFlows, dropFlows, Disconnect, SwitchConnected, TakeNotice, ReplayFlows,
         ReplayDone, FlowRestoreComplete, installCachedFlowsFails, switchVars, agentVars, ofVars
<1> QED  BY <1>1, <1>2, <1>3, <1>4, <1>5, <1>6, <1>7, <1>8, <1>9, Zenon DEF FlowNext, Replayer

(* A set of two numbers has no more than two members.                       *)
LEMMA TwoAtMost ==
  ASSUME NEW a, NEW b, NEW S, S \subseteq {a, b}
  PROVE  Cardinality(S) <= 2
<1>1. IsFiniteSet({a}) /\ Cardinality({a}) = 1
  BY FS_Singleton, Zenon
<1>2. IsFiniteSet({a} \cup {b}) /\ Cardinality({a} \cup {b}) \in {1, 2}
  BY <1>1, FS_AddElement
<1>3. {a} \cup {b} = {a, b}
  BY Zenon
<1>4. IsFiniteSet(S) /\ Cardinality(S) <= Cardinality({a, b}) /\ Cardinality(S) \in Nat
  BY <1>2, <1>3, FS_Subset, FS_CardinalityType, Zenon
<1> QED  BY <1>2, <1>3, <1>4

(* The promise in the comment of initOpenFlowPipeline.                      *)
THEOREM TwoRoundsOnly == FlowSpec => []AtMostTwoRounds
<1>1. FlowInit => UpInv
  BY Zenon DEF FlowInit, UpInv
<1>2. RoundsInv => AtMostTwoRounds
  <2> SUFFICES ASSUME RoundsInv, ~readFailed PROVE AtMostTwoRounds
    BY Zenon DEF AtMostTwoRounds
  <2>1. \/ Rounds \subseteq {persisted, getRoundInfo(persisted)}
        \/ Rounds \subseteq {round, prevRound}
    BY Zenon DEF RoundsInv, RoundsKnown
  <2>2. Cardinality(Rounds) <= 2
    BY <2>1, TwoAtMost, Zenon
  <2> QED  BY <2>2, Zenon DEF RoundsInv, RoundsKnown, AtMostTwoRounds
<1> QED  BY <1>1, <1>2, NoFlowsAtFirst, UpPreserved, RoundsPreserved, PTL DEF FlowSpec

-----------------------------------------------------------------------------
(* The cache mirrors the bridge, unless a replay is due: the connection is  *)
(* lost, or a reconnection has not been answered by a replay yet.           *)
Due == ~connected \/ notices > 0 \/ replay = "locking"

Sent(v) == [val |-> v, round |-> round]

(* For one key. Between the bundle and the update of the cache no replay    *)
(* begins, so what the call is about to cache is what it has installed.     *)
KeyInv(k) ==
  /\ op[k] = NoCall \/ op[k].kind \in {"add", "delete"}
  /\ op[k].kind = "add" =>
       /\ flowCache[k] = NoFlows
       /\ ~Due => ovs[k] = Sent(op[k].val)
       /\ ovs[k].round = round => ovs[k].val = op[k].val
  /\ op[k].kind = "delete" => ovs[k].round # round
  /\ op[k] = NoCall =>
       /\ ovs[k].round = round => ovs[k].val = flowCache[k]
       /\ (/\ flowCache[k] # NoFlows /\ k \notin missed /\ ~Due
           /\ replay = "replaying" => k \notin left) => ovs[k] = Sent(flowCache[k])

Shape ==
  /\ DOMAIN ovs = AllKeys /\ DOMAIN flowCache = AllKeys /\ DOMAIN op = AllKeys
  /\ notices \in Nat
  /\ up \in {"down", "initializing", "running"}
  /\ persisted \in -1 .. RoundModulus - 1 /\ prevRound \in -1 .. RoundModulus - 1
  /\ up # "down" => round \in 0 .. RoundModulus - 1 /\ (prevRound = NoRound \/ round # prevRound)

MirrorInv ==
  /\ Shape
  /\ up # "running" => replay = "idle" /\ \A k \in AllKeys : flowCache[k] = NoFlows /\ op[k] = NoCall
  /\ up = "initializing" => \A k \in AllKeys : ovs[k].round # round
  /\ replay = "replaying" => \A k \in AllKeys : op[k] = NoCall
  /\ up = "running" => \A k \in AllKeys : KeyInv(k)

LEMMA MirrorInit == ASSUME RoundModulus \in Nat, RoundModulus > 1 PROVE FlowInit => MirrorInv
  BY DEF FlowInit, MirrorInv, Shape, NoRound

(* The number of a run is not that of the run before.                       *)
LEMMA NextRound ==
  ASSUME RoundModulus \in Nat, RoundModulus > 1, NEW read \in -1 .. RoundModulus - 1
  PROVE  /\ getRoundInfo(read) \in 0 .. RoundModulus - 1
         /\ read = NoRound \/ getRoundInfo(read) # read
<1>1. CASE read = NoRound
  BY <1>1 DEF getRoundInfo, NoRound, InitialRoundNum
<1>2. CASE read # NoRound
  <2>1. CASE read + 1 = RoundModulus
    BY <1>2, <2>1 DEF getRoundInfo, NoRound
  <2>2. CASE read + 1 # RoundModulus
    BY <1>2, <2>2 DEF getRoundInfo, NoRound
  <2> QED  BY <2>1, <2>2, Zenon
<1> QED  BY <1>1, <1>2, Zenon

LEMMA MirrorStart ==
  ASSUME RoundModulus \in Nat, RoundModulus > 1, MirrorInv, NEW read \in {persisted, NoRound},
         StartWith(read)
  PROVE  MirrorInv'
<1>1. read \in -1 .. RoundModulus - 1
  BY DEF MirrorInv, Shape, NoRound
<1>2. getRoundInfo(read) \in 0 .. RoundModulus - 1 /\ (read = NoRound \/ getRoundInfo(read) # read)
  BY <1>1, NextRound, Zenon
<1>3. DOMAIN ovs' = AllKeys /\ \A k \in AllKeys : ovs'[k].round # round'
  BY <1>2 DEF StartWith, deleteFlowsByRoundNum, Absent, NoRound
<1>4. Shape'
  BY <1>1, <1>2, <1>3, Zenon DEF StartWith, MirrorInv, Shape
<1> QED  BY <1>3, <1>4, Zenon DEF StartWith, MirrorInv

LEMMA MirrorFixed == ASSUME MirrorInv, InstallFixedFlows PROVE MirrorInv'
<1>1. Fixed \in AllKeys
  BY Zenon DEF AllKeys
<1>2. Shape'
  BY Zenon DEF InstallFixedFlows, MirrorInv, Shape
<1>3. ASSUME NEW k \in AllKeys PROVE KeyInv(k)'
  <2>1. CASE k = Fixed
    BY <1>1, <2>1 DEF InstallFixedFlows, MirrorInv, Shape, KeyInv, Sent, NoCall
  <2>2. CASE k # Fixed
    BY <1>1, <2>2 DEF InstallFixedFlows, MirrorInv, Shape, KeyInv, NoCall
  <2> QED  BY <2>1, <2>2, Zenon
<1> QED  BY <1>2, <1>3, Zenon DEF InstallFixedFlows, MirrorInv

LEMMA MirrorExit == MirrorInv /\ Exit => MirrorInv'
  BY DEF MirrorInv, Shape, Exit

(* The four steps of calls.                                                 *)
LEMMA MirrorCalls ==
  ASSUME MirrorInv, NEW q \in Keys,
         (\E v \in Values : addFlows(q, v)) \/ storeFlows(q) \/ deleteFlows(q) \/ dropFlows(q)
  PROVE  MirrorInv'
<1>1. q \in AllKeys
  BY Zenon DEF AllKeys
<1>2. up = "running" /\ up' = "running"
  BY <1>1, SMTT(30) DEF addFlows, storeFlows, deleteFlows, dropFlows, MirrorInv, NoCall
<1>3. Shape'
  BY Zenon DEF addFlows, storeFlows, deleteFlows, dropFlows, MirrorInv, Shape
<1>4. replay # "replaying" /\ replay' = replay
  BY <1>1 DEF addFlows, storeFlows, deleteFlows, dropFlows, ReadLock, MirrorInv, NoCall
<1>5. ASSUME NEW k \in AllKeys, k # q PROVE KeyInv(k)'
  <2>1. ovs'[k] = ovs[k] /\ flowCache'[k] = flowCache[k] /\ op'[k] = op[k]
    BY <1>1, <1>5, Zenon DEF addFlows, storeFlows, deleteFlows, dropFlows, MirrorInv, Shape
  <2>2. Due' = Due /\ round' = round /\ (k \in missed' <=> k \in missed) /\ left' = left
    BY <1>5, SMTT(30) DEF addFlows, storeFlows, deleteFlows, dropFlows, Due
  <2>3. KeyInv(k)
    BY <1>2, Zenon DEF MirrorInv
  <2> QED  BY <2>1, <2>2, <2>3, <1>4, Zenon DEF KeyInv, Sent
<1>6. KeyInv(q) /\ round # NoRound
  BY <1>1, <1>2 DEF MirrorInv, Shape, NoRound
<1>7. KeyInv(q)'
  <2>1. ASSUME NEW v \in Values, addFlows(q, v) PROVE KeyInv(q)'
    BY <1>1, <2>1, Zenon DEF addFlows, MirrorInv, Shape, KeyInv, Sent, NoCall
  <2>2. CASE storeFlows(q)
    BY <1>1, <1>4, <1>6, <2>2, Zenon DEF storeFlows, MirrorInv, Shape, KeyInv, Sent, NoCall, Due
  <2>3. CASE deleteFlows(q)
    BY <1>1, <1>6, <2>3, Zenon DEF deleteFlows, MirrorInv, Shape, KeyInv, NoCall, Absent
  <2>4. CASE dropFlows(q)
    BY <1>1, <1>6, <2>4, Zenon DEF dropFlows, MirrorInv, Shape, KeyInv, NoCall
  <2> QED  BY <2>1, <2>2, <2>3, <2>4, Zenon
<1> QED  BY <1>2, <1>3, <1>4, <1>5, <1>7, Zenon DEF MirrorInv

(* Flows are lost only with the connection, and with the number of another  *)
(* run.                                                                     *)
LEMMA MirrorLoss ==
  ASSUME MirrorInv, RestartOVS \/ Disconnect \/ SwitchConnected PROVE MirrorInv'
<1>1. Shape' /\ UNCHANGED <<flowCache, op, up, round, replay, left, missed>> /\ Due'
  <2>1. CASE RestartOVS
    BY <2>1, Zenon DEF MirrorInv, Shape, RestartOVS, agentVars, Due
  <2>2. CASE Disconnect
    BY <2>2, Zenon DEF MirrorInv, Shape, Disconnect, agentVars, Due
  <2>3. CASE SwitchConnected
    BY <2>3 DEF MirrorInv, Shape, SwitchConnected, Due
  <2> QED  BY <2>1, <2>2, <2>3, Zenon
<1>2. ASSUME NEW k \in AllKeys PROVE ovs'[k] \in {ovs[k], Absent}
  BY Zenon DEF RestartOVS, Disconnect, SwitchConnected
<1>3. up # "down" => round # Absent.round
  BY DEF MirrorInv, Shape, NoRound, Absent
<1>4. ASSUME NEW k \in AllKeys, up = "running" PROVE KeyInv(k)'
  <2>1. KeyInv(k)
    BY <1>4, Zenon DEF MirrorInv
  <2> QED  BY <1>1, <1>2, <1>3, <1>4, <2>1, Zenon DEF KeyInv
<1> QED  BY <1>1, <1>2, <1>3, <1>4, Zenon DEF MirrorInv

LEMMA ShapeFrame ==
  ASSUME Shape, UNCHANGED <<flowCache, op, up, round, prevRound, persisted>>,
         DOMAIN ovs' = AllKeys, notices' \in Nat
  PROVE  Shape'
  BY Zenon DEF Shape

LEMMA MirrorReplay == ASSUME MirrorInv, Replayer PROVE MirrorInv'
<1> DEFINE Kept == /\ up = "running" /\ UNCHANGED <<flowCache, op, up, round, prevRound, persisted>>
                   /\ replay' = "replaying" => \A k \in AllKeys : op[k] = NoCall
                   /\ DOMAIN ovs' = DOMAIN ovs
                   /\ notices' = notices \/ (notices > 0 /\ notices' = notices - 1)
<1>1. /\ Shape /\ (up # "running" => replay = "idle")
      /\ replay = "replaying" => \A k \in AllKeys : op[k] = NoCall
  BY Zenon DEF MirrorInv
<1>2. Kept
  <2>1. CASE TakeNotice
    BY <1>1, <2>1, Zenon DEF TakeNotice, switchVars
  <2>2. CASE ReplayFlows
    BY <1>1, <2>2, Zenon DEF ReplayFlows, switchVars
  <2>3. CASE ReplayDone
    BY <1>1, <2>3, Zenon DEF ReplayDone, switchVars
  <2>4. CASE FlowRestoreComplete
    BY <1>1, <2>4, Zenon DEF FlowRestoreComplete
  <2>5. ASSUME NEW q \in AllKeys, installCachedFlows(q) PROVE Kept
    BY <1>1, <2>5, Zenon DEF installCachedFlows
  <2>6. ASSUME NEW q \in AllKeys, installCachedFlowsFails(q) PROVE Kept
    BY <1>1, <2>6, Zenon DEF installCachedFlowsFails, switchVars
  <2> QED  BY <2>1, <2>2, <2>3, <2>4, <2>5, <2>6, Zenon DEF Replayer
<1>3. Shape'
  BY <1>1, <1>2, ShapeFrame DEF Shape
<1>4. ASSUME NEW k \in AllKeys PROVE KeyInv(k)'
  <2> USE <1>2 DEF KeyInv, Sent, Due
  <2>1. KeyInv(k)
    BY Zenon DEF MirrorInv
  <2>2. CASE TakeNotice
    BY <2>1, <2>2, Zenon DEF TakeNotice, switchVars
  <2>3. CASE ReplayFlows
    BY <2>1, <2>3, SMTT(30) DEF ReplayFlows, switchVars, NoCall
  <2>4. CASE ReplayDone
    BY <2>1, <2>4, Zenon DEF ReplayDone, switchVars
  <2>5. CASE FlowRestoreComplete
    BY <2>1, <2>5, Zenon DEF FlowRestoreComplete
  <2>6. ASSUME NEW q \in AllKeys, installCachedFlows(q) PROVE KeyInv(k)'
    <3>1. op[k] = NoCall
      BY <2>6, Zenon DEF installCachedFlows, MirrorInv
    <3>2. ovs'[k] = IF k = q THEN [val |-> flowCache[k], round |-> round] ELSE ovs[k]
      BY <2>6, Zenon DEF installCachedFlows, MirrorInv, Shape
    <3> QED  BY <2>1, <2>6, <3>1, <3>2 DEF installCachedFlows, NoCall
  <2>7. ASSUME NEW q \in AllKeys, installCachedFlowsFails(q) PROVE KeyInv(k)'
    BY <2>1, <2>7, Zenon DEF installCachedFlowsFails, switchVars
  <2> QED  BY <2>2, <2>3, <2>4, <2>5, <2>6, <2>7, Zenon DEF Replayer
<1> QED  BY <1>2, <1>3, <1>4, Zenon DEF MirrorInv

LEMMA MirrorCleaner == ASSUME RoundModulus \in Nat, MirrorInv, Cleaner PROVE MirrorInv'
<1>1. /\ up = "running" /\ up' = up
      /\ UNCHANGED <<round, prevRound, flowCache, op, replay, left, missed, notices, connected>>
  BY Zenon DEF Cleaner, DeleteStaleFlows, DeleteStaleFlowsFails, persistRoundNum, switchVars
<1>2. DOMAIN ovs' = AllKeys /\ \A k \in AllKeys :
        ovs'[k] = ovs[k] \/ (ovs'[k] = Absent /\ ovs[k].round = prevRound /\ prevRound # NoRound)
  BY Zenon DEF Cleaner, DeleteStaleFlows, DeleteStaleFlowsFails, persistRoundNum, switchVars,
         deleteFlowsByRoundNum, MirrorInv, Shape
<1>3. Shape'
  <2>1. persisted' \in {persisted, round}
    BY Zenon DEF Cleaner, DeleteStaleFlows, DeleteStaleFlowsFails, persistRoundNum
  <2>2. persisted \in -1 .. RoundModulus - 1 /\ round \in -1 .. RoundModulus - 1
    BY <1>1 DEF MirrorInv, Shape
  <2>3. persisted' \in -1 .. RoundModulus - 1
    BY <2>1, <2>2, Zenon
  <2> QED  BY <1>1, <1>2, <2>3, Zenon DEF MirrorInv, Shape
<1>4. round # NoRound /\ (prevRound = NoRound \/ round # prevRound)
  BY <1>1 DEF MirrorInv, Shape, NoRound
<1>5. ASSUME NEW k \in AllKeys PROVE KeyInv(k)'
  <2>1. KeyInv(k)
    BY <1>1, Zenon DEF MirrorInv
  <2>2. CASE ovs'[k] = ovs[k]
    BY <1>1, <2>1, <2>2, Zenon DEF KeyInv, Sent, Due
  <2>3. CASE ovs'[k] = Absent /\ ovs[k].round # round
    BY <1>1, <1>4, <2>1, <2>3, SMTT(30) DEF KeyInv, Sent, Due, Absent
  <2> QED  BY <1>2, <1>4, <2>2, <2>3, Zenon
<1> QED  BY <1>1, <1>3, <1>5, Zenon DEF MirrorInv

LEMMA MirrorPreserved ==
  ASSUME RoundModulus \in Nat, RoundModulus > 1, MirrorInv, [FlowNext]_ofVars
  PROVE  MirrorInv'
<1>1. CASE Initialize \/ InitializeReadFails
  BY <1>1, MirrorStart, Zenon DEF Initialize, InitializeReadFails
<1>2. CASE InstallFixedFlows
  BY <1>2, MirrorFixed, Zenon
<1>3. CASE StartFails \/ Crash
  BY <1>3, MirrorExit, Zenon DEF StartFails, Crash
<1>4. ASSUME NEW k \in Keys,
             (\E v \in Values : addFlows(k, v)) \/ storeFlows(k) \/ deleteFlows(k) \/ dropFlows(k)
      PROVE  MirrorInv'
  BY <1>4, MirrorCalls, Zenon
<1>5. CASE RestartOVS \/ Disconnect \/ SwitchConnected
  BY <1>5, MirrorLoss, Zenon
<1>6. CASE Replayer
  BY <1>6, MirrorReplay, Zenon
<1>7. CASE Cleaner
  BY <1>7, MirrorCleaner, Zenon
<1>8. CASE UNCHANGED ofVars
  BY <1>8, Zenon DEF ofVars, agentVars, switchVars, MirrorInv, Shape, KeyInv, Sent, Due
<1> QED  BY <1>1, <1>2, <1>3, <1>4, <1>5, <1>6, <1>7, <1>8, Zenon DEF FlowNext

(* After any crashes, disconnections, restarts of OVS and replays the       *)
(* bridge holds what the cache says, given that consecutive round numbers   *)
(* differ.                                                                  *)
THEOREM CacheIsMirrored ==
  ASSUME RoundModulus \in Nat, RoundModulus > 1
  PROVE  FlowSpec => []CacheMirrorsBridge
<1>1. MirrorInv => CacheMirrorsBridge
  <2> SUFFICES ASSUME MirrorInv, Quiet, NEW k \in AllKeys, op[k] = NoCall
               PROVE  /\ (flowCache[k] # NoFlows /\ k \notin missed) => ovs[k] = Sent(flowCache[k])
                      /\ ovs[k].round = round => ovs[k].val = flowCache[k]
    BY Zenon DEF CacheMirrorsBridge, Sent
  <2>1. KeyInv(k)
    BY Zenon DEF MirrorInv, Quiet
  <2>2. ~Due /\ replay = "idle"
    BY DEF Quiet, Due
  <2> QED  BY <2>1, <2>2, Zenon DEF KeyInv
<1>2. FlowInit => MirrorInv
  BY MirrorInit, Zenon
<1>3. MirrorInv /\ [FlowNext]_ofVars => MirrorInv'
  BY MirrorPreserved, Zenon
<1> QED  BY <1>1, <1>2, <1>3, PTL DEF FlowSpec

-----------------------------------------------------------------------------
(***************************************************************************)
(* DiffFromCIDRs is exact for every width of an address and any number of   *)
(* exceptions: the CIDRs it returns cover what is outside of the exceptions *)
(* and nothing else, and diffFromCIDR is only called for an exception that  *)
(* is inside of the CIDR.                                                   *)
(***************************************************************************)

(* The upper n bits of two addresses are the same.                          *)
Agree(a, b, n) == \A x \in 0 .. Width - 1 : x >= Width - n => (x \in a <=> x \in b)

(* Masks are equal when the bits they leave are.                            *)
LEMMA MaskAgree ==
  ASSUME Width \in Nat, NEW n \in 0 .. Width, NEW a \in Addresses, NEW b \in Addresses
  PROVE  Mask(a, n) = Mask(b, n) <=> Agree(a, b, n)
<1>1. ASSUME Mask(a, n) = Mask(b, n) PROVE Agree(a, b, n)
  <2> SUFFICES ASSUME NEW x \in 0 .. Width - 1, x >= Width - n PROVE x \in a <=> x \in b
    BY Zenon DEF Agree
  <2>1. (x \in a <=> x \in Mask(a, n)) /\ (x \in b <=> x \in Mask(b, n))
    BY Zenon DEF Mask
  <2> QED  BY <1>1, <2>1, Zenon
<1>2. ASSUME Agree(a, b, n) PROVE Mask(a, n) = Mask(b, n)
  <2>1. ASSUME NEW x PROVE x \in Mask(a, n) <=> x \in Mask(b, n)
    BY <1>2, Zenon DEF Agree, Mask, Addresses
  <2> QED  BY <2>1, Zenon
<1> QED  BY <1>1, <1>2, Zenon

(* Contains compares the upper bits, those of the prefix.                   *)
LEMMA ContainsAgree ==
  ASSUME Width \in Nat, NEW c \in CIDR, NEW a \in Addresses
  PROVE  ContainsIP(c, a) <=> Agree(a, c.ip, c.len)
  BY MaskAgree, Zenon DEF ContainsIP, Start, CIDR

(* The start of a range is an address of the range.                         *)
LEMMA StartAgree ==
  ASSUME Width \in Nat, NEW c \in CIDR
  PROVE  /\ Start(c) \in Addresses
         /\ Agree(Start(c), c.ip, c.len)
         /\ \A x \in Start(c) : x >= Width - c.len
         /\ ContainsIP(c, Start(c))
<1>1. Start(c) \in Addresses /\ Agree(Start(c), c.ip, c.len)
  BY Zenon DEF Start, Mask, Addresses, CIDR, Agree
<1>2. \A x \in Start(c) : x >= Width - c.len
  BY Zenon DEF Start, Mask
<1> QED  BY <1>1, <1>2, ContainsAgree, Zenon

(* Two CIDRs that have an address in common are nested.                     *)
LEMMA Nested ==
  ASSUME Width \in Nat, NEW c \in CIDR, NEW e \in CIDR, c.len <= e.len,
         NEW x \in Addresses, ContainsIP(c, x), ContainsIP(e, x),
         NEW y \in Addresses, ContainsIP(e, y)
  PROVE  ContainsIP(c, y)
<1>1. Agree(x, c.ip, c.len) /\ Agree(x, e.ip, e.len) /\ Agree(y, e.ip, e.len)
  BY ContainsAgree, Zenon
<1>2. Agree(y, c.ip, c.len)
  BY <1>1 DEF Agree, CIDR
<1> QED  BY <1>2, ContainsAgree, Zenon

(* The CIDR that diffFromCIDR makes for prefix i has the addresses that     *)
(* leave the exception at bit Width - i and not before.                     *)
Piece(a, e, i) == [ip |-> Mask(Start(a) \cup flipSingleBit(Start(e), Width - i), i), len |-> i]

LEMMA PieceCovers ==
  ASSUME Width \in Nat, NEW a \in CIDR, NEW e \in CIDR, ContainsIP(a, Start(e)),
         NEW i \in (a.len + 1) .. e.len
  PROVE  /\ Piece(a, e, i) \in CIDR
         /\ \A x \in Addresses : ContainsIP(Piece(a, e, i), x) <=>
              Agree(x, e.ip, i - 1) /\ (Width - i \in x <=> Width - i \notin e.ip)
<1> DEFINE ip == Mask(Start(a) \cup flipSingleBit(Start(e), Width - i), i)
           bit == Width - i
<1>1. /\ a.len \in 0 .. Width /\ e.len \in 0 .. Width /\ i \in 0 .. Width
      /\ bit \in 0 .. Width - 1 /\ e.ip \in Addresses /\ a.ip \in Addresses
  BY DEF CIDR
<1>2. Agree(Start(e), a.ip, a.len) /\ Agree(Start(a), a.ip, a.len) /\ Agree(Start(e), e.ip, e.len)
  BY StartAgree, ContainsAgree, Zenon
<1>3. \A x \in Start(a) : x >= Width - a.len /\ x \in 0 .. Width - 1
  BY StartAgree, Zenon DEF Addresses
<1>4. \A x \in Start(a) : x # bit /\ x \in Start(e)
  BY <1>1, <1>2, <1>3 DEF Agree
<1>5. ip \in Addresses
  BY <1>1, StartAgree, Zenon DEF Mask, Addresses, flipSingleBit
<1>6. ASSUME NEW x \in 0 .. Width - 1, x >= bit
      PROVE  x \in ip <=> IF x = bit THEN x \notin e.ip ELSE x \in e.ip
  <2>1. x \in Start(e) <=> x \in e.ip
    BY <1>1, <1>2, <1>6 DEF Agree
  <2>2. x \in ip <=> x \in Start(a) \/ x \in flipSingleBit(Start(e), bit)
    BY <1>6, Zenon DEF Mask
  <2>3. x \in flipSingleBit(Start(e), bit) <=> IF x = bit THEN x \notin Start(e) ELSE x \in Start(e)
    BY Zenon DEF flipSingleBit
  <2> QED  BY <2>1, <2>2, <2>3, <1>4, Zenon
<1>7. Piece(a, e, i) = [ip |-> ip, len |-> i] /\ Piece(a, e, i) \in CIDR
  BY <1>1, <1>5, Zenon DEF Piece, CIDR
<1>8. ASSUME NEW x \in Addresses
      PROVE  ContainsIP(Piece(a, e, i), x) <=> Agree(x, e.ip, i - 1) /\ (bit \in x <=> bit \notin e.ip)
  <2> HIDE DEF ip
  <2>1. ContainsIP(Piece(a, e, i), x) <=> Agree(x, ip, i)
    BY <1>7, ContainsAgree
  <2>2. Agree(x, ip, i) <=> \A y \in 0 .. Width - 1 : y >= bit => (y \in x <=> y \in ip)
    BY Zenon DEF Agree
  <2>3. Agree(x, e.ip, i - 1) <=>
          \A y \in 0 .. Width - 1 : y >= bit /\ y # bit => (y \in x <=> y \in e.ip)
    BY <1>1 DEF Agree
  <2>4. ASSUME Agree(x, ip, i)
        PROVE  Agree(x, e.ip, i - 1) /\ (bit \in x <=> bit \notin e.ip)
    BY <2>2, <2>3, <2>4, <1>1, <1>6
  <2>5. ASSUME Agree(x, e.ip, i - 1), (bit \in x <=> bit \notin e.ip)
        PROVE  Agree(x, ip, i)
    BY <2>2, <2>3, <2>5, <1>1, <1>6, Zenon
  <2> QED  BY <2>1, <2>4, <2>5, Zenon
<1> QED  BY <1>7, <1>8, Zenon

(* A set of natural numbers has a smallest member.                          *)
LEMMA Smallest ==
  ASSUME NEW T, T \subseteq Nat, T # {}
  PROVE  \E m \in T : \A k \in T : m <= k
<1>1. PICK m \in T : \A k \in T : ~(<<k, m>> \in OpToRel(<, Nat))
  BY WFMin, NatLessThanWellFounded, Zenon
<1>2. \A k \in T : ~(k < m)
  BY <1>1, Zenon DEF OpToRel
<1> QED  BY <1>2

(* diffFromCIDR, for an exception inside of the CIDR: its CIDRs cover the   *)
(* CIDR without the exception ...                                           *)
LEMMA DiffCovers ==
  ASSUME Width \in Nat, NEW a \in CIDR, NEW e \in CIDR, a.len <= e.len,
         ContainsIP(a, Start(e)), NEW x \in Addresses
  PROVE  (\E d \in diffFromCIDR(a, e) : ContainsIP(d, x)) <=> ContainsIP(a, x) /\ ~ContainsIP(e, x)
<1>1. /\ a.len \in 0 .. Width /\ e.len \in 0 .. Width /\ a.ip \in Addresses /\ e.ip \in Addresses
      /\ Agree(Start(e), a.ip, a.len) /\ Agree(Start(e), e.ip, e.len)
  BY StartAgree, ContainsAgree, Zenon DEF CIDR
<1>2. ASSUME NEW i \in (a.len + 1) .. e.len, ContainsIP(Piece(a, e, i), x)
      PROVE  ContainsIP(a, x) /\ ~ContainsIP(e, x)
  <2>1. Agree(x, e.ip, i - 1) /\ (Width - i \in x <=> Width - i \notin e.ip)
    BY <1>2, PieceCovers, Zenon
  <2>2. Agree(x, a.ip, a.len)
    BY <1>1, <2>1 DEF Agree
  <2>3. Width - i \in 0 .. Width - 1 /\ Width - i >= Width - e.len
    BY <1>1
  <2>4. ~Agree(x, e.ip, e.len)
    BY <2>1, <2>3, Zenon DEF Agree
  <2> QED  BY <2>2, <2>4, ContainsAgree, Zenon
<1>3. ASSUME ContainsIP(a, x), ~ContainsIP(e, x)
      PROVE  \E i \in (a.len + 1) .. e.len : ContainsIP(Piece(a, e, i), x)
  <2>1. Agree(x, a.ip, a.len) /\ ~Agree(x, e.ip, e.len)
    BY <1>3, ContainsAgree, Zenon
  <2> DEFINE T == {k \in 0 .. e.len : ~Agree(x, e.ip, k)}
  <2>2. PICK i \in T : \A k \in T : i <= k
    <3>1. e.len \in T
      BY <1>1, <2>1
    <3>2. T \subseteq Nat
      BY <1>1
    <3> HIDE DEF T
    <3> QED  BY <3>1, <3>2, Smallest, Zenon
  <2>3. i \in 0 .. e.len /\ ~Agree(x, e.ip, i)
    BY Zenon
  <2>4. Agree(x, e.ip, a.len)
    BY <1>1, <2>1 DEF Agree
  <2>5. i > a.len
    <3>1. CASE i <= a.len
      BY <1>1, <2>3, <2>4, <3>1 DEF Agree
    <3> QED  BY <1>1, <2>3, <3>1
  <2>6. Agree(x, e.ip, i - 1)
    <3>1. i - 1 \notin T
      BY <2>2, <2>3, <2>5, <1>1
    <3> QED  BY <3>1, <2>3, <2>5, <1>1
  <2>7. PICK y \in 0 .. Width - 1 : y >= Width - i /\ ~(y \in x <=> y \in e.ip)
    BY <2>3, Zenon DEF Agree
  <2>8. y = Width - i
    BY <2>6, <2>7, <2>3, <1>1 DEF Agree
  <2> QED  BY <2>3, <2>5, <2>6, <2>7, <2>8, <1>1, PieceCovers
<1>4. diffFromCIDR(a, e) = {Piece(a, e, i) : i \in (a.len + 1) .. e.len}
  BY Zenon DEF diffFromCIDR, Piece
<1> QED  BY <1>2, <1>3, <1>4, Zenon

(* ... are CIDRs with a prefix no longer than the exception's, and have no  *)
(* address in common.                                                       *)
LEMMA DiffDisjoint ==
  ASSUME Width \in Nat, NEW a \in CIDR, NEW e \in CIDR, a.len <= e.len, ContainsIP(a, Start(e))
  PROVE  /\ \A d \in diffFromCIDR(a, e) : d \in CIDR /\ d.len <= e.len
         /\ \A c, d \in diffFromCIDR(a, e), x \in Addresses :
              ContainsIP(c, x) /\ ContainsIP(d, x) => c = d
<1>1. a.len \in 0 .. Width /\ e.len \in 0 .. Width /\ e.ip \in Addresses
  BY Zenon DEF CIDR
<1>2. diffFromCIDR(a, e) = {Piece(a, e, i) : i \in (a.len + 1) .. e.len}
  BY Zenon DEF diffFromCIDR, Piece
<1>3. \A i \in (a.len + 1) .. e.len : Piece(a, e, i) \in CIDR /\ Piece(a, e, i).len <= e.len
  <2>1. \A i \in (a.len + 1) .. e.len : Piece(a, e, i) \in CIDR
    BY PieceCovers, Zenon
  <2>2. \A i \in (a.len + 1) .. e.len : Piece(a, e, i).len = i
    BY Zenon DEF Piece
  <2> QED  BY <1>1, <2>1, <2>2
<1>4. ASSUME NEW i \in (a.len + 1) .. e.len, NEW j \in (a.len + 1) .. e.len, i < j,
             NEW x \in Addresses, ContainsIP(Piece(a, e, i), x), ContainsIP(Piece(a, e, j), x)
      PROVE  FALSE
  <2>1. (Width - i \in x <=> Width - i \notin e.ip) /\ Agree(x, e.ip, j - 1)
    BY <1>4, PieceCovers, Zenon
  <2>2. Width - i \in 0 .. Width - 1 /\ Width - i >= Width - (j - 1)
    BY <1>1, <1>4
  <2> QED  BY <2>1, <2>2, Zenon DEF Agree
<1>5. ASSUME NEW c \in diffFromCIDR(a, e), NEW d \in diffFromCIDR(a, e), NEW x \in Addresses,
             ContainsIP(c, x), ContainsIP(d, x)
      PROVE  c = d
  <2>1. PICK i \in (a.len + 1) .. e.len : c = Piece(a, e, i)
    BY <1>2, Zenon
  <2>2. PICK j \in (a.len + 1) .. e.len : d = Piece(a, e, j)
    BY <1>2, Zenon
  <2>3. ~(i < j) /\ ~(j < i)
    BY <1>4, <1>5, <2>1, <2>2, Zenon
  <2>4. i = j
    BY <1>1, <2>3
  <2> QED  BY <2>1, <2>2, <2>4, Zenon
<1> QED  BY <1>2, <1>3, <1>5, Zenon

(* What the loops keep: merging takes no address away from the exceptions;  *)
(* then the CIDRs are disjoint, have no longer prefix than any exception    *)
(* that is left (which is why the exceptions are sorted), and cover the     *)
(* rest but for the exceptions that are left.                               *)
Has(C, x) == \E c \in C : ContainsIP(c, x)

BlocksInv ==
  /\ allow \in CIDR /\ excepts \subseteq Inside(allow)
  /\ ipStep \in {"merge", "diff", "done"}
  /\ ipStep = "merge" => \A x \in Addresses : Has(excepts, x) <=> Has(given, x)
  /\ ipStep = "done" => excepts = {}
  /\ ipStep # "merge" =>
       /\ blocks \subseteq CIDR
       /\ \A c \in blocks, e \in excepts : c.len <= e.len
       /\ \A c, d \in blocks, x \in Addresses : ContainsIP(c, x) /\ ContainsIP(d, x) => c = d
       /\ \A x \in Addresses :
            Has(blocks, x) /\ ~Has(excepts, x) <=> ContainsIP(allow, x) /\ ~Has(given, x)

LEMMA BlocksInit == ASSUME MaxExcepts \in Nat PROVE IPInit => BlocksInv
<1> SUFFICES ASSUME IPInit PROVE BlocksInv
  BY Zenon
<1>1. PICK s \in [1 .. MaxExcepts -> Inside(allow)], n \in 0 .. MaxExcepts :
        given = {s[i] : i \in 1 .. n}
  BY Zenon DEF IPInit
<1>2. given \subseteq Inside(allow)
  BY <1>1
<1> QED  BY <1>2, Zenon DEF IPInit, BlocksInv

(* mergeCIDRs removes what another exception covers.                        *)
LEMMA MergePreserves ==
  ASSUME Width \in Nat, BlocksInv, NEW m \in excepts, mergeCIDRs(m)
  PROVE  BlocksInv'
<1>1. /\ ipStep = "merge" /\ ipStep' = "merge" /\ allow' = allow /\ given' = given
      /\ excepts' \subseteq excepts /\ m \in excepts'
  BY Zenon DEF mergeCIDRs
<1>2. m \in CIDR /\ excepts \subseteq CIDR
  BY Zenon DEF BlocksInv, Inside
<1>3. ASSUME NEW x \in Addresses, NEW d \in excepts, ContainsIP(d, x) PROVE Has(excepts', x)
  <2>1. CASE d \in excepts'
    BY <1>3, <2>1, Zenon DEF Has
  <2>2. CASE d \notin excepts'
    <3>1. d \in excepts \ merged /\ ContainsIP(m, d.ip)
      BY <2>2, Zenon DEF mergeCIDRs
    <3>2. m.len <= d.len
      BY <3>1, Zenon DEF mergeCIDRs, First
    <3>3. d \in CIDR /\ d.ip \in Addresses /\ ContainsIP(d, d.ip)
      BY <1>2, Zenon DEF CIDR, ContainsIP, Start
    <3>4. ContainsIP(m, x)
      BY <1>2, <1>3, <3>1, <3>2, <3>3, Nested, Zenon
    <3> QED  BY <1>1, <3>4, Zenon DEF Has
  <2> QED  BY <2>1, <2>2, Zenon
<1>4. \A x \in Addresses : Has(excepts', x) <=> Has(excepts, x)
  BY <1>1, <1>3, Zenon DEF Has
<1>5. \A x \in Addresses : Has(given', x) <=> Has(given, x)
  BY <1>1, Zenon
<1>6. Inside(allow)' = Inside(allow)
  BY <1>1, Zenon DEF Inside
<1> QED  BY <1>1, <1>4, <1>5, <1>6, Zenon DEF BlocksInv, Has

(* Subtract: an exception is taken out of one CIDR.                         *)
LEMMA SubtractPreserves ==
  ASSUME Width \in Nat, BlocksInv, NEW e \in excepts, NEW c \in blocks, Subtract(e, c)
  PROVE  BlocksInv'
<1> DEFINE D == diffFromCIDR(c, e)
<1>1. /\ ipStep = "diff" /\ ipStep' = "diff" /\ allow' = allow /\ given' = given
      /\ excepts' = excepts
  BY Zenon DEF Subtract
<1>2. c \in CIDR /\ e \in CIDR /\ excepts \subseteq CIDR /\ c.len <= e.len
  BY <1>1, Zenon DEF BlocksInv, Inside
<1>3. ContainsIP(c, Start(e))
  <2>1. Start(e) \in Addresses /\ ContainsIP(e, Start(e))
    BY <1>2, StartAgree, Zenon
  <2>2. ASSUME ContainsIP(e, c.ip) PROVE ContainsIP(c, Start(e))
    <3>1. c.ip \in Addresses /\ ContainsIP(c, c.ip)
      BY <1>2, Zenon DEF CIDR, ContainsIP, Start
    <3> QED  BY <1>2, <2>1, <2>2, <3>1, Nested, Zenon
  <2> QED  BY <2>2, Zenon DEF Subtract, Overlaps
<1>4. blocks' = (blocks \ {c}) \cup D
  BY <1>3, Zenon DEF Subtract
<1>5. \A x \in Addresses : (\E d \in D : ContainsIP(d, x)) <=> ContainsIP(c, x) /\ ~ContainsIP(e, x)
  BY <1>2, <1>3, DiffCovers, Zenon
<1>6. /\ \A d \in D : d \in CIDR /\ d.len <= e.len
      /\ \A a, d \in D, x \in Addresses : ContainsIP(a, x) /\ ContainsIP(d, x) => a = d
  BY <1>2, <1>3, DiffDisjoint, Zenon
<1> HIDE DEF D
<1>7. blocks' \subseteq CIDR
  BY <1>1, <1>4, <1>6, Zenon DEF BlocksInv
<1>8. ASSUME NEW d \in blocks', NEW f \in excepts' PROVE d.len <= f.len
  <2>1. CASE d \in blocks
    BY <1>1, <2>1, Zenon DEF BlocksInv
  <2>2. CASE d \in D
    <3>1. d.len <= e.len /\ e.len <= f.len
      BY <1>1, <1>6, <2>2, Zenon DEF Subtract, Current, First
    <3>2. d.len \in 0 .. Width /\ e.len \in 0 .. Width /\ f.len \in 0 .. Width
      BY <1>1, <1>2, <1>7, Zenon DEF CIDR
    <3> QED  BY <3>1, <3>2
  <2> QED  BY <1>4, <2>1, <2>2, Zenon
<1>9. ASSUME NEW a \in blocks', NEW d \in blocks', NEW x \in Addresses,
             ContainsIP(a, x), ContainsIP(d, x)
      PROVE  a = d
  <2>1. \A b \in D : ContainsIP(b, x) => ContainsIP(c, x)
    BY <1>5, Zenon
  <2>2. \A b \in blocks \ {c} : ContainsIP(b, x) => ~ContainsIP(c, x)
    BY <1>1, Zenon DEF BlocksInv
  <2>3. \A b, f \in blocks : ContainsIP(b, x) /\ ContainsIP(f, x) => b = f
    BY <1>1, Zenon DEF BlocksInv
  <2> QED  BY <1>4, <1>6, <1>9, <2>1, <2>2, <2>3, Zenon
<1>10. ASSUME NEW x \in Addresses
       PROVE  Has(blocks', x) /\ ~Has(excepts', x) <=> ContainsIP(allow', x) /\ ~Has(given', x)
  <2>1. Has(blocks, x) /\ ~Has(excepts, x) <=> ContainsIP(allow, x) /\ ~Has(given, x)
    BY <1>1, Zenon DEF BlocksInv
  <2>2. ~Has(excepts, x) => (Has(blocks', x) <=> Has(blocks, x))
    <3>1. Has(blocks', x) <=> (\E b \in blocks \ {c} : ContainsIP(b, x)) \/ (\E b \in D : ContainsIP(b, x))
      BY <1>4, Zenon DEF Has
    <3>2. Has(blocks, x) <=> (\E b \in blocks \ {c} : ContainsIP(b, x)) \/ ContainsIP(c, x)
      BY Zenon DEF Has
    <3>3. ~Has(excepts, x) => ~ContainsIP(e, x)
      BY Zenon DEF Has
    <3> QED  BY <3>1, <3>2, <3>3, <1>5, Zenon
  <2> QED  BY <1>1, <2>1, <2>2, Zenon
<1>11. Inside(allow)' = Inside(allow)
  BY <1>1, Zenon DEF Inside
<1> QED  BY <1>1, <1>7, <1>8, <1>9, <1>10, <1>11, Zenon DEF BlocksInv, Has

(* The inner loop ends when no CIDR and the exception have an address in    *)
(* common.                                                                  *)
LEMMA NextExceptPreserves ==
  ASSUME Width \in Nat, BlocksInv, NEW e \in excepts, NextExcept(e)
  PROVE  BlocksInv'
<1>1. /\ ipStep = "diff" /\ ipStep' = "diff" /\ allow' = allow /\ given' = given
      /\ excepts' = excepts \ {e} /\ blocks' = blocks
  BY Zenon DEF NextExcept
<1>2. e \in CIDR /\ blocks \subseteq CIDR /\ \A c \in blocks : c.len <= e.len
  BY <1>1, Zenon DEF BlocksInv, Inside
<1>3. ASSUME NEW x \in Addresses, NEW c \in blocks, ContainsIP(c, x), ContainsIP(e, x) PROVE FALSE
  <2>1. Start(e) \in Addresses /\ ContainsIP(e, Start(e))
    BY <1>2, StartAgree, Zenon
  <2>2. ContainsIP(c, Start(e))
    BY <1>2, <1>3, <2>1, Nested, Zenon
  <2> QED  BY <2>2, Zenon DEF NextExcept, Overlaps
<1>4. ASSUME NEW x \in Addresses
      PROVE  Has(blocks, x) /\ ~Has(excepts', x) <=> Has(blocks, x) /\ ~Has(excepts, x)
  BY <1>1, <1>3, Zenon DEF Has
<1>5. Inside(allow)' = Inside(allow)
  BY <1>1, Zenon DEF Inside
<1> QED  BY <1>1, <1>4, <1>5, Zenon DEF BlocksInv, Has

(* The induction step.                                                      *)
LEMMA BlocksPreserved ==
  ASSUME Width \in Nat, BlocksInv, [IPNext]_ipVars
  PROVE  BlocksInv'
<1>1. ASSUME NEW c \in excepts, mergeCIDRs(c) PROVE BlocksInv'
  BY <1>1, MergePreserves, Zenon
<1>2. CASE Merged
  <2>1. allow \in CIDR /\ \A e \in excepts : allow.len <= e.len
    BY Zenon DEF BlocksInv, Inside
  <2>2. \A x \in Addresses : Has({allow}, x) <=> ContainsIP(allow, x)
    BY Zenon DEF Has
  <2>3. Inside(allow)' = Inside(allow)
    BY <1>2, Zenon DEF Inside, Merged
  <2> QED  BY <1>2, <2>1, <2>2, <2>3, Zenon DEF Merged, BlocksInv, Has
<1>3. CASE Return
  <2>1. Inside(allow)' = Inside(allow)
    BY <1>3, Zenon DEF Inside, Return
  <2> QED  BY <1>3, <2>1, Zenon DEF Return, BlocksInv, Has
<1>4. ASSUME NEW e \in excepts, NextExcept(e) PROVE BlocksInv'
  BY <1>4, NextExceptPreserves, Zenon
<1>5. ASSUME NEW e \in excepts, NEW c \in blocks, Subtract(e, c) PROVE BlocksInv'
  BY <1>5, SubtractPreserves, Zenon
<1>6. CASE UNCHANGED ipVars
  <2>1. Inside(allow)' = Inside(allow)
    BY <1>6, Zenon DEF Inside, ipVars
  <2> QED  BY <1>6, <2>1, Zenon DEF ipVars, BlocksInv, Has
<1> QED  BY <1>1, <1>2, <1>3, <1>4, <1>5, <1>6, Zenon DEF IPNext

(* What the rules of an ipBlock with exceptions match is what it says.      *)
THEOREM Exact ==
  ASSUME Width \in Nat, MaxExcepts \in Nat
  PROVE  IPSpec => []ExceptionsSubtracted
<1>1. ASSUME BlocksInv PROVE DiffIsExact
  <2> SUFFICES ASSUME ipStep = "done"
               PROVE  /\ Covered(blocks) = Covered({allow}) \ Covered(given)
                      /\ \A c, d \in blocks : c # d => Covered({c}) \cap Covered({d}) = {}
    BY Zenon DEF DiffIsExact
  <2>1. \A x \in Addresses : Has(blocks, x) <=> ContainsIP(allow, x) /\ ~Has(given, x)
    <3>1. \A x : ~Has(excepts, x)
      BY <1>1, Zenon DEF BlocksInv, Has
    <3> QED  BY <1>1, <3>1, Zenon DEF BlocksInv
  <2>2. Covered(blocks) = Covered({allow}) \ Covered(given)
    BY <2>1, Zenon DEF Covered, Has
  <2>3. \A c, d \in blocks : c # d => Covered({c}) \cap Covered({d}) = {}
    BY <1>1, ZenonT(40) DEF BlocksInv, Covered
  <2> QED  BY <2>2, <2>3, Zenon
<1>2. BlocksInv => SplitsOnlySupersets
  BY Zenon DEF BlocksInv, SplitsOnlySupersets
<1>3. BlocksInv => ExceptionsSubtracted
  BY <1>1, <1>2, Zenon DEF ExceptionsSubtracted
<1>4. IPInit => BlocksInv
  BY BlocksInit, Zenon
<1>5. BlocksInv /\ [IPNext]_ipVars => BlocksInv'
  BY BlocksPreserved, Zenon
<1> QED  BY <1>3, <1>4, <1>5, PTL DEF IPSpec

-----------------------------------------------------------------------------
(***************************************************************************)
(* For any number of requests, the bundle that is shown is the one of the    *)
(* latest request. The argument is that there is one collection that is not  *)
(* canceled, the latest, and that a bundle is shown only while its goroutine *)
(* waits for the expiry, when its file is still there.                       *)
(***************************************************************************)

Places == {"none", "collecting", "packed", "collected", "failed", "nil", "waiting",
           "removing", "done"}

Types ==
  /\ latest \in 0 .. MaxRequests
  /\ collection \in [Collections -> Places]
  /\ canceled \subseteq Collections
  /\ bundle \in [status : {"None", "Collecting", "Collected"}, file : 0 .. MaxRequests]

\* The collections that were requested, and those a later request canceled.
Superseded ==
  \A c \in Collections : /\ collection[c] # "none" => c <= latest
                         /\ c < latest => c \in canceled
                         /\ c \in canceled => c <= latest

\* Where a goroutine owns a file.
Owned ==
  \A c \in Collections :
    collection[c] \in {"packed", "collected", "waiting", "removing"} => c \in files

Shown ==
  bundle.status = "Collected" =>
    /\ latest \in Collections /\ bundle.file = latest
    /\ collection[latest] = "waiting" /\ latest \notin canceled

BundleInv == Types /\ Superseded /\ Owned /\ Shown

LEMMA BundleInitially == ASSUME MaxRequests \in Nat, BundleInit PROVE BundleInv
BY DEF BundleInit, BundleInv, Types, Superseded, Owned, Shown, NoBundle, Collections, Places

\* Requests change which collection is the latest.
LEMMA RequestsKeepInv ==
  ASSUME MaxRequests \in Nat, BundleInv, CreateBundle \/ DeleteBundle PROVE BundleInv'
<1> USE DEF BundleInv, Types, Superseded, Owned, Shown, Collections, Places, Goes, Cancel, NoBundle
<1>1. CASE CreateBundle
  <2>1. Types' BY <1>1 DEF CreateBundle
  <2>2. Superseded' BY <1>1 DEF CreateBundle
  <2>3. Owned' BY <1>1, Zenon DEF CreateBundle
  <2>4. Shown' BY <1>1, Zenon DEF CreateBundle
  <2> QED BY <2>1, <2>2, <2>3, <2>4, Zenon
<1>2. CASE DeleteBundle
  <2>1. Types' BY <1>2 DEF DeleteBundle
  <2>2. Superseded' BY <1>2 DEF DeleteBundle
  <2>3. Owned' /\ Shown' BY <1>2, Zenon DEF DeleteBundle
  <2> QED BY <2>1, <2>2, <2>3, Zenon
<1> QED BY <1>1, <1>2, Zenon

\* A goroutine moves only itself, and publishes only if it is the latest.
LEMMA GoroutinesKeepInv ==
  ASSUME MaxRequests \in Nat, BundleInv, NEW c \in Collections, Step(c) \/ collectFails(c)
  PROVE  BundleInv'
<1> USE DEF BundleInv, Types, Superseded, Owned, Shown, Collections, Places, Goes, At
<1>1. CASE packDir(c) BY <1>1, Zenon DEF packDir
<1>2. CASE collect(c)
  <2>1. (Types /\ Superseded)' BY <1>2, Zenon DEF collect
  <2>2. Owned' BY <1>2, Zenon DEF collect
  <2>3. Shown' BY <1>2, Zenon DEF collect
  <2> QED BY <2>1, <2>2, <2>3, Zenon
<1>3. CASE publish(c)
  <2>1. c \notin canceled => c = latest BY <1>3 DEF publish
  <2>2. (Types /\ Superseded /\ Owned)' BY <1>3 DEF publish
  <2>3. Shown' BY <1>3, <2>1, Zenon DEF publish
  <2> QED BY <2>2, <2>3, Zenon
<1>4. CASE publishError(c) BY <1>4, Zenon DEF publishError
<1>5. CASE readFilepath(c) BY <1>5, Zenon DEF readFilepath
<1>6. CASE clean(c)
  <2>1. c \notin canceled => c = latest BY <1>6 DEF clean
  <2>2. (Types /\ Superseded /\ Owned)' BY <1>6 DEF clean, NoBundle
  <2>3. Shown' BY <1>6, <2>1, Zenon DEF clean, NoBundle
  <2> QED BY <2>2, <2>3, Zenon
<1>7. CASE Remove(c)
  <2>1. (Types /\ Superseded)' BY <1>7, Zenon DEF Remove
  <2>2. Owned' BY <1>7, Zenon DEF Remove
  <2>3. Shown' BY <1>7, Zenon DEF Remove
  <2> QED BY <2>1, <2>2, <2>3, Zenon
<1>8. CASE collectFails(c)
  <2>1. (Types /\ Superseded)' BY <1>8, Zenon DEF collectFails
  <2>2. Owned' BY <1>8, Zenon DEF collectFails
  <2>3. Shown' BY <1>8, Zenon DEF collectFails
  <2> QED BY <2>1, <2>2, <2>3, Zenon
<1> QED BY <1>1, <1>2, <1>3, <1>4, <1>5, <1>6, <1>7, <1>8, Zenon DEF Step

LEMMA BundleShowsLatest == ASSUME MaxRequests \in Nat, BundleInv PROVE CollectedIsLatest
BY Zenon DEF BundleInv, Types, Owned, Shown, CollectedIsLatest, Collections

(***************************************************************************)
(* For any number of requests, failures and orders in which Create, Delete   *)
(* and the goroutines take the lock, a bundle shown as collected is the one  *)
(* of the latest request and has its file.                                   *)
(***************************************************************************)
THEOREM ShownIsLatest == ASSUME MaxRequests \in Nat PROVE BundleSpec => []CollectedIsLatest
<1>1. BundleInit => BundleInv BY BundleInitially, Zenon
<1>2. BundleInv /\ [BundleNext]_sbVars => BundleInv'
  <2> SUFFICES ASSUME BundleInv, [BundleNext]_sbVars PROVE BundleInv' BY Zenon
  <2>1. CASE BundleNext BY <2>1, RequestsKeepInv, GoroutinesKeepInv, Zenon DEF BundleNext
  <2>2. CASE UNCHANGED sbVars
    BY <2>2, Zenon DEF sbVars, BundleInv, Types, Superseded, Owned, Shown
  <2> QED BY <2>1, <2>2, Zenon
<1>3. BundleInv => CollectedIsLatest BY BundleShowsLatest, Zenon
<1> QED BY <1>1, <1>2, <1>3, PTL DEF BundleSpec
==============================================================================
