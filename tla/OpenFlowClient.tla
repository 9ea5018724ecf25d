--------------------------- MODULE OpenFlowClient ---------------------------
(***************************************************************************)
(* The OpenFlow client of the agent seen as a cache in front of the OVS     *)
(* bridge: flows are installed and removed per cache key (a Node, a Pod     *)
(* interface, a Service), replayed after a reconnection, and tagged with    *)
(* the round number of the agent run that installed them, so that the       *)
(* flows left by an earlier run can be told apart and deleted.              *)
(*                                                                         *)
(* The bridge, the OVSDB and the agent fail independently: the bridge may   *)
(* restart (and lose its flows), the connection may drop, the agent may     *)
(* crash between any two calls.                                             *)
(***************************************************************************)
EXTENDS Integers, FiniteSets

CONSTANTS Keys,         \* cache keys of Pods, Nodes and Services
          Values,       \* what the flows of a key say (a set of strings)
          RoundModulus, \* 2^BitwidthRound in the code
          MaxFlowFaults     \* bound on crashes, disconnections and failed calls

VARIABLES
  ovs,          \* the flows of each key on the bridge, with their round
  flowCache,        \* nodeFlowCache, podFlowCache, serviceFlowCache, gatewayFlows
  op,           \* a call between its bundle and its update of the cache
  up,           \* the agent process
  round, prevRound,  \* roundInfo of this run of the agent
  persisted,    \* the round number in the OVSDB
  cleaner,      \* the goroutine that deletes stale flows
  connected,    \* the OpenFlow connection
  notices,      \* reconnections not yet taken from ofConnCh
  replay, left, \* ReplayFlows: its phase and the keys it has not added yet
  missed,       \* keys whose replay failed although the bridge was connected
  restoreWait,  \* flow-restore-wait in the OVSDB
  readFailed,   \* the persisted round number could once not be read
  faults

switchVars == <<ovs, connected, restoreWait>>
agentVars  == <<flowCache, op, up, round, prevRound, cleaner, notices, replay, left>>
ofVars == <<switchVars, agentVars, persisted, missed, readFailed, faults>>

NoFlows == "nothing"
NoRound == -1
InitialRoundNum == 1
Fixed   == "fixed"             \* default, gateway, tunnel and Service flows
AllKeys == Keys \cup {Fixed}
Absent  == [val |-> NoFlows, round |-> NoRound]
NoCall    == [kind |-> "none", val |-> NoFlows]
FlowFault   == faults < MaxFlowFaults /\ faults' = faults + 1

FlowInit ==
  /\ ovs = [k \in AllKeys |-> Absent]
  /\ flowCache = [k \in AllKeys |-> NoFlows]
  /\ op = [k \in AllKeys |-> NoCall]
  /\ up = "down"
  /\ round = NoRound /\ prevRound = NoRound /\ persisted = NoRound
  /\ cleaner = "none"
  /\ connected = FALSE /\ notices = 0
  /\ replay = "idle" /\ left = {} /\ missed = {}
  /\ restoreWait = TRUE
  /\ readFailed = FALSE
  /\ faults = 0

---------------------------------------------------------------------------
(* Start of the agent.                                                     *)

\* getRoundInfo: the number after the persisted one, modulo the width of the
\* cookie's round, or the first one when none can be read.
getRoundInfo(read) ==
  IF read = NoRound THEN InitialRoundNum % RoundModulus
                    ELSE (read + 1) % RoundModulus

deleteFlowsByRoundNum(r) ==
  [k \in AllKeys |-> IF ovs[k].round = r THEN Absent ELSE ovs[k]]

\* client.Initialize connects, swallows the first notification and deletes
\* what an interrupted run with the same number left.
StartWith(read) ==
  /\ up = "down"
  /\ up' = "initializing"
  /\ round' = getRoundInfo(read)
  /\ prevRound' = read
  /\ ovs' = deleteFlowsByRoundNum(getRoundInfo(read))
  /\ connected' = TRUE
  /\ UNCHANGED <<flowCache, op, cleaner, notices, replay, left, persisted, missed, restoreWait>>

Initialize == StartWith(persisted) /\ UNCHANGED <<readFailed, faults>>

\* The same start, with a read of the OVSDB that fails.
InitializeReadFails ==
  /\ persisted # NoRound
  /\ StartWith(NoRound)
  /\ readFailed' = TRUE
  /\ FlowFault

\* initialize, InstallGatewayFlows, InstallDefaultTunnelFlows and the flows
\* for Services, then the removal of flow-restore-wait by the main routine.
InstallFixedFlows ==
  /\ up = "initializing"
  /\ connected
  /\ ovs' = [ovs EXCEPT ![Fixed] = [val |-> Fixed, round |-> round]]
  /\ flowCache' = [flowCache EXCEPT ![Fixed] = Fixed]
  /\ up' = "running"
  /\ cleaner' = "sleeping"
  /\ restoreWait' = FALSE
  /\ UNCHANGED <<op, round, prevRound, persisted, connected, notices, replay, left, missed,
                 readFailed, faults>>

Exit ==
  /\ up' = "down"
  /\ flowCache' = [k \in AllKeys |-> NoFlows]
  /\ op' = [k \in AllKeys |-> NoCall]
  /\ cleaner' = "none" /\ notices' = 0 /\ replay' = "idle" /\ left' = {}
  /\ missed' = {} /\ connected' = FALSE
  /\ UNCHANGED <<ovs, round, prevRound, persisted, restoreWait, readFailed>>

\* A failed call of the start makes the agent exit.
StartFails == up = "initializing" /\ ~connected /\ Exit /\ UNCHANGED faults

Crash == up # "down" /\ Exit /\ FlowFault

---------------------------------------------------------------------------
(* Installing and removing the flows of a key. Each call holds replayMutex  *)
(* for reading from its first step to its last; a failed bundle changes     *)
(* nothing. Calls for one key never overlap.                                *)

\* A writer that waits for the lock stops new readers, as sync.RWMutex does.
ReadLock == replay \notin {"locking", "replaying"}

\* addFlows: return at once when the key is cached, else one bundle ...
addFlows(k, v) ==
  /\ up = "running" /\ ReadLock /\ op[k] = NoCall
  /\ flowCache[k] = NoFlows
  /\ connected
  /\ ovs' = [ovs EXCEPT ![k] = [val |-> v, round |-> round]]
  /\ op' = [op EXCEPT ![k] = [kind |-> "add", val |-> v]]
  /\ UNCHANGED <<flowCache, up, round, prevRound, persisted, cleaner, connected, notices, replay,
                 left, missed, restoreWait, readFailed, faults>>

\* ... and then the entry of the cache.
storeFlows(k) ==
  /\ op[k].kind = "add"
  /\ flowCache' = [flowCache EXCEPT ![k] = op[k].val]
  /\ op' = [op EXCEPT ![k] = NoCall]
  /\ missed' = missed \ {k}
  /\ UNCHANGED <<ovs, up, round, prevRound, persisted, cleaner, connected, notices, replay, left,
                 restoreWait, readFailed, faults>>

deleteFlows(k) ==
  /\ up = "running" /\ ReadLock /\ op[k] = NoCall
  /\ flowCache[k] # NoFlows
  /\ connected
  /\ ovs' = [ovs EXCEPT ![k] = Absent]
  /\ op' = [op EXCEPT ![k] = [kind |-> "delete", val |-> flowCache[k]]]
  /\ UNCHANGED <<flowCache, up, round, prevRound, persisted, cleaner, connected, notices, replay,
                 left, missed, restoreWait, readFailed, faults>>

dropFlows(k) ==
  /\ op[k].kind = "delete"
  /\ flowCache' = [flowCache EXCEPT ![k] = NoFlows]
  /\ op' = [op EXCEPT ![k] = NoCall]
  /\ missed' = missed \ {k}
  /\ UNCHANGED <<ovs, up, round, prevRound, persisted, cleaner, connected, notices, replay, left,
                 restoreWait, readFailed, faults>>

---------------------------------------------------------------------------
(* The bridge and the connection.                                          *)

\* ovs-vswitchd restarts: the flows are gone and flow-restore-wait is set.
RestartOVS ==
  /\ FlowFault
  /\ ovs' = [k \in AllKeys |-> Absent]
  /\ connected' = FALSE
  /\ restoreWait' = TRUE
  /\ UNCHANGED <<agentVars, persisted, missed, readFailed>>

Disconnect ==
  /\ connected
  /\ FlowFault
  /\ connected' = FALSE
  /\ UNCHANGED <<ovs, restoreWait, agentVars, persisted, missed, readFailed>>

\* SwitchConnected: the goroutine that tells the agent waits for its turn on
\* the unbuffered ofConnCh.
SwitchConnected ==
  /\ up # "down" /\ ~connected
  /\ connected' = TRUE
  /\ notices' = notices + 1
  /\ UNCHANGED <<ovs, restoreWait, flowCache, op, up, round, prevRound, cleaner, replay, left,
                 persisted, missed, readFailed, faults>>

---------------------------------------------------------------------------
(* ReplayFlows, under replayMutex held for writing.                        *)

\* The loop of initOpenFlowPipeline takes a notification and asks for the lock.
TakeNotice ==
  /\ up = "running" /\ replay = "idle" /\ notices > 0
  /\ notices' = notices - 1
  /\ replay' = "locking"
  /\ UNCHANGED <<switchVars, flowCache, op, up, round, prevRound, cleaner, left, persisted, missed,
                 readFailed, faults>>

\* A replay that does not wait for the calls under way.
ReplayFlowsUnlocked ==
  /\ replay = "locking"
  /\ replay' = "replaying"
  /\ left' = {k \in AllKeys : flowCache[k] # NoFlows}
  /\ UNCHANGED <<switchVars, flowCache, op, up, round, prevRound, cleaner, notices, persisted, missed,
                 readFailed, faults>>

ReplayFlows ==
  /\ replay = "locking"
  /\ \A k \in AllKeys : op[k] = NoCall
  /\ replay' = "replaying"
  /\ left' = {k \in AllKeys : flowCache[k] # NoFlows}
  /\ UNCHANGED <<switchVars, flowCache, op, up, round, prevRound, cleaner, notices, persisted, missed,
                 readFailed, faults>>

installCachedFlows(k) ==
  /\ replay = "replaying" /\ k \in left
  /\ connected
  /\ ovs' = [ovs EXCEPT ![k] = [val |-> flowCache[k], round |-> round]]
  /\ left' = left \ {k}
  /\ missed' = missed \ {k}
  /\ UNCHANGED <<flowCache, op, up, round, prevRound, cleaner, notices, replay, persisted, connected,
                 restoreWait, readFailed, faults>>

\* An error is logged and the next key is replayed.
installCachedFlowsFails(k) ==
  /\ replay = "replaying" /\ k \in left
  /\ IF connected THEN FlowFault /\ missed' = missed \cup {k}
                  ELSE UNCHANGED <<faults, missed>>
  /\ left' = left \ {k}
  /\ UNCHANGED <<switchVars, flowCache, op, up, round, prevRound, cleaner, notices, replay,
                 persisted, readFailed>>

ReplayDone ==
  /\ replay = "replaying" /\ left = {}
  /\ replay' = "restoring"
  /\ UNCHANGED <<switchVars, flowCache, op, up, round, prevRound, cleaner, notices, left, persisted,
                 missed, readFailed, faults>>

\* A replay that leaves flow-restore-wait set.
FlowRestoreForgotten ==
  /\ replay = "restoring"
  /\ replay' = "idle"
  /\ UNCHANGED <<switchVars, flowCache, op, up, round, prevRound, cleaner, notices, left,
                 persisted, missed, readFailed, faults>>

\* FlowRestoreComplete is polled for longer than the OVSDB client needs to
\* reconnect; it times out only when OVS is gone again. The lock was given up
\* before, but the loop takes no other notification meanwhile.
FlowRestoreComplete ==
  /\ replay = "restoring"
  /\ replay' = "idle"
  /\ restoreWait' = (restoreWait /\ ~connected)
  /\ UNCHANGED <<ovs, connected, flowCache, op, up, round, prevRound, cleaner, notices, left,
                 persisted, missed, readFailed, faults>>

---------------------------------------------------------------------------
(* The goroutine of initOpenFlowPipeline that cleans up ten seconds later.  *)

\* The number is persisted before the stale flows are deleted.
DeleteStaleFlowsLate ==
  /\ up = "running" /\ cleaner = "sleeping"
  /\ persisted' = round
  /\ cleaner' = "persisting"
  /\ UNCHANGED <<switchVars, flowCache, op, up, round, prevRound, notices, replay, left, missed,
                 readFailed, faults>>

\* DeleteStaleFlows does nothing when no previous number was read.
DeleteStaleFlows ==
  /\ up = "running" /\ cleaner = "sleeping"
  /\ prevRound # NoRound => connected
  /\ ovs' = IF prevRound = NoRound THEN ovs ELSE deleteFlowsByRoundNum(prevRound)
  /\ cleaner' = "persisting"
  /\ UNCHANGED <<connected, restoreWait, flowCache, op, up, round, prevRound, notices, replay, left,
                 persisted, missed, readFailed, faults>>

\* An error, which a lost connection is, ends the goroutine and the number is
\* not persisted.
DeleteStaleFlowsFails ==
  /\ up = "running" /\ cleaner = "sleeping" /\ prevRound # NoRound
  /\ IF connected THEN FlowFault ELSE UNCHANGED faults
  /\ cleaner' = "gave up"
  /\ UNCHANGED <<switchVars, flowCache, op, up, round, prevRound, notices, replay, left, persisted,
                 missed, readFailed>>

\* persistRoundNum tries until the OVSDB takes the number.
persistRoundNum ==
  /\ up = "running" /\ cleaner = "persisting"
  /\ persisted' = round
  /\ cleaner' = "done"
  /\ UNCHANGED <<switchVars, flowCache, op, up, round, prevRound, notices, replay, left, missed,
                 readFailed, faults>>

\* The goroutines: ReplayFlows is called by the one that takes the notices.
Replayer == \/ TakeNotice \/ ReplayFlows \/ ReplayDone \/ FlowRestoreComplete
            \/ \E k \in AllKeys : installCachedFlows(k) \/ installCachedFlowsFails(k)
Cleaner == DeleteStaleFlows \/ DeleteStaleFlowsFails \/ persistRoundNum

FlowNext ==
  \/ Initialize
  \/ InitializeReadFails
  \/ InstallFixedFlows
  \/ StartFails
  \/ Crash
  \/ \E k \in Keys : \E v \in Values : addFlows(k, v)
  \/ \E k \in Keys : storeFlows(k) \/ deleteFlows(k) \/ dropFlows(k)
  \/ RestartOVS
  \/ Disconnect
  \/ SwitchConnected
  \/ Replayer
  \/ Cleaner

FlowSpec == FlowInit /\ [][FlowNext]_ofVars

\* The goroutines of the agent are scheduled, the supervisor restarts it, the
\* connection is retried and a call that can finish does.
Fairness ==
  /\ WF_ofVars(Initialize) /\ WF_ofVars(InstallFixedFlows) /\ WF_ofVars(SwitchConnected)
  /\ \A k \in Keys : WF_ofVars(storeFlows(k) \/ dropFlows(k))
  /\ WF_ofVars(Replayer) /\ WF_ofVars(Cleaner)

FlowFairSpec == FlowSpec /\ Fairness

---------------------------------------------------------------------------
FlowTypeOK ==
  /\ ovs \in [AllKeys -> [val : Values \cup {NoFlows, Fixed}, round : -1 .. (RoundModulus - 1)]]
  /\ flowCache \in [AllKeys -> Values \cup {NoFlows, Fixed}]
  /\ op \in [AllKeys -> [kind : {"none", "add", "delete"}, val : Values \cup {NoFlows}]]
  /\ up \in {"down", "initializing", "running"}
  /\ {round, prevRound, persisted} \subseteq (-1 .. (RoundModulus - 1))
  /\ cleaner \in {"none", "sleeping", "persisting", "done", "gave up"}
  /\ notices \in 0 .. MaxFlowFaults /\ faults \in 0 .. MaxFlowFaults
  /\ replay \in {"idle", "locking", "replaying", "restoring"}
  /\ left \subseteq AllKeys /\ missed \subseteq AllKeys
  /\ {connected, restoreWait, readFailed} \subseteq BOOLEAN

Rounds == {ovs[k].round : k \in AllKeys} \ {NoRound}

\* initOpenFlowPipeline promises that at most two rounds of flows exist on the
\* bridge at any time, whatever the agent crashes between: the number of this
\* run and the one persisted before. It holds as long as the persisted number
\* could be read whenever there was one.
AtMostTwoRounds ==
  /\ ~readFailed => Cardinality(Rounds) <= 2
  /\ (up = "running" /\ ~readFailed) => Rounds \subseteq {round, prevRound}

\* No call, replay or notification is under way.
Quiet == up = "running" /\ connected /\ notices = 0 /\ replay = "idle"

\* After any sequence of disconnections, restarts of OVS and replays, the
\* bridge holds exactly what the cache says of this run's flows: nothing
\* cached is missing (except what a replay failed to add, which is logged),
\* and no flow of this run is left that the cache has forgotten.
CacheMirrorsBridge ==
  Quiet => \A k \in AllKeys : op[k] = NoCall =>
    /\ (flowCache[k] # NoFlows /\ k \notin missed) => ovs[k] = [val |-> flowCache[k], round |-> round]
    /\ ovs[k].round = round => ovs[k].val = flowCache[k]

\* The flows of the run before are deleted in the end, unless the deletion
\* failed (it is tried once per run) or their number was never read.
StaleFlowsGo == <>[](readFailed \/ cleaner = "gave up" \/ Rounds \subseteq {round})

\* flow-restore-wait, which stops the bridge from handling packets, is always
\* removed again after a restart of OVS, however often it restarts meanwhile.
RestoreWaitEnds == []<>~restoreWait
=============================================================================
