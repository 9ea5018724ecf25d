----------------------------- MODULE FlowExporter -----------------------------
(***************************************************************************)
(* The flow exporter of the agent. One goroutine polls conntrack into the   *)
(* connection store and signals the end of the poll; another one, on every  *)
(* ExportFrequency-th signal, builds flow records from the store and sends  *)
(* them to the collector. A connection that a poll did not find is sent a   *)
(* last time, then dropped. The lock on the store is held for single        *)
(* accesses only, so a slow export overlaps with the next poll.             *)
(* A counter stands for the packets and bytes of both directions.           *)
(***************************************************************************)
EXTENDS Integers, FiniteSets

CONSTANTS Keys,            \* 5-tuples
          Inbound,         \* Keys with a remote source: tracked, not exported
          ExportFrequency,
          MaxTraffic, MaxOpens, MaxFaults

VARIABLES
  ct,        \* conntrack: the counter of a connection, or Absent
  conns,     \* ConnectionStore
  records,   \* FlowRecords
  poll,      \* the polling goroutine: phase and the dump left to apply
  pollCycle, \* pollDone signals since the last successful export
  export,    \* the exporting goroutine: phase and records left to send
  process,   \* the connection to the collector is up
  dumped,    \* history: connections the last completed dump found
  sent,      \* history: first total sent for a record plus the deltas sent since
  reborn,    \* history: Keys whose connection was closed and opened again
  opens, feFaults

feVars == <<ct, conns, records, poll, pollCycle, export, process, dumped, sent, reborn, opens, feFaults>>

Absent   == -1
NoConn   == [count |-> Absent, active |-> FALSE]
NoRecord == [count |-> Absent, active |-> FALSE, prev |-> 0]
Fault    == feFaults < MaxFaults /\ feFaults' = feFaults + 1
Kernel   == <<ct, reborn, opens>>
Poller   == <<conns, poll, dumped>>
Exporter == <<records, pollCycle, export, process, sent>>

Init ==
  /\ ct = [k \in Keys |-> Absent]
  /\ conns = [k \in Keys |-> NoConn] /\ records = [k \in Keys |-> NoRecord]
  /\ poll = [phase |-> "wait", left |-> << >>]
  /\ pollCycle = 0 /\ export = [phase |-> "wait", todo |-> {}] /\ process = FALSE
  /\ dumped = {} /\ sent = [k \in Keys |-> 0] /\ reborn = {} /\ opens = 0 /\ feFaults = 0

---------------------------------------------------------------------------
(* Conntrack                                                               *)

Open(k) ==
  /\ ct[k] = Absent /\ opens < MaxOpens /\ opens' = opens + 1
  /\ ct' = [ct EXCEPT ![k] = 1]
  /\ reborn' = IF conns[k] # NoConn \/ k \in DOMAIN poll.left THEN reborn \cup {k} ELSE reborn
  /\ UNCHANGED <<Poller, Exporter, feFaults>>

Count(k) ==
  /\ ct[k] \in 1 .. MaxTraffic - 1
  /\ ct' = [ct EXCEPT ![k] = @ + 1]
  /\ UNCHANGED <<Poller, Exporter, reborn, opens, feFaults>>

Close(k) ==
  /\ ct[k] # Absent
  /\ ct' = [ct EXCEPT ![k] = Absent]
  /\ UNCHANGED <<Poller, Exporter, reborn, opens, feFaults>>

---------------------------------------------------------------------------
(* ConnectionStore.Run                                                     *)

\* Poll first marks every connection as inactive.
resetConn ==
  /\ poll.phase = "wait"
  /\ conns' = [k \in Keys |-> [conns[k] EXCEPT !.active = FALSE]]
  /\ poll' = [poll EXCEPT !.phase = "dump"]
  /\ UNCHANGED <<Kernel, Exporter, dumped, feFaults>>

DumpFlows ==
  /\ poll.phase = "dump"
  /\ LET there == {k \in Keys : ct[k] # Absent}
     IN /\ poll' = [poll EXCEPT !.phase = "apply", !.left = [k \in there |-> ct[k]]]
        /\ dumped' = there
  /\ UNCHANGED <<Kernel, Exporter, conns, feFaults>>

\* After a failed dump the connections stay inactive; the signal is sent.
DumpFlowsFails ==
  /\ poll.phase = "dump" /\ Fault
  /\ poll' = [poll EXCEPT !.phase = "signal"]
  /\ UNCHANGED <<Kernel, Exporter, conns, dumped>>

\* The entry of a connection the store has is written back with new counters
\* even if the exporter removes it in between, so both branches leave the same.
addOrUpdateConn(k) ==
  /\ poll.phase = "apply" /\ k \in DOMAIN poll.left
  /\ conns' = [conns EXCEPT ![k] = [count |-> poll.left[k], active |-> TRUE]]
  /\ poll' = [poll EXCEPT !.left = [j \in DOMAIN poll.left \ {k} |-> poll.left[j]]]
  /\ UNCHANGED <<Kernel, Exporter, dumped, feFaults>>

PollDone ==
  /\ poll.phase = "apply" /\ DOMAIN poll.left = {}
  /\ poll' = [poll EXCEPT !.phase = "signal"]
  /\ UNCHANGED <<Kernel, Exporter, conns, dumped, feFaults>>

---------------------------------------------------------------------------
(* Export                                                                  *)

\* The poller hands its signal over when the exporter is waiting for it.
Signal ==
  /\ poll.phase = "signal" /\ export.phase = "wait"
  /\ poll' = [poll EXCEPT !.phase = "wait"]
  /\ pollCycle' = (pollCycle + 1) % ExportFrequency
  /\ export' = IF pollCycle' # 0 THEN export ELSE [export EXCEPT !.phase = "build"]
  /\ UNCHANGED <<Kernel, conns, dumped, records, process, sent, feFaults>>

\* initFlowExporter connects to the collector if need be; a failure ends this
\* export, and wait.Until starts Export again.
initFlowExporterFails ==
  /\ export.phase = "build" /\ ~process /\ Fault
  /\ export' = [export EXCEPT !.phase = "wait"]
  /\ UNCHANGED <<Kernel, Poller, records, pollCycle, process, sent>>


\* BuildFlowRecords copies the connections under the lock.
BuildFlowRecords ==
  /\ export.phase = "build" /\ process' = TRUE
  /\ records' = [k \in Keys |-> IF conns[k] = NoConn \/ k \in Inbound THEN records[k]
                                ELSE [records[k] EXCEPT !.count = conns[k].count, !.active = conns[k].active]]
  /\ export' = [phase |-> "send", todo |-> {k \in Keys : records'[k] # NoRecord}]
  /\ UNCHANGED <<Kernel, Poller, pollCycle, sent, feFaults>>

\* The delta of a record that was not sent before is zero; it carries its total.
sendDataRecord(k) ==
  sent' = [sent EXCEPT ![k] = IF records[k].prev = 0 THEN records[k].count
                              ELSE @ + (records[k].count - records[k].prev)]

\* ValidateAndUpdateStats, after the record was sent.
sendFlowRecord(k) ==
  /\ export.phase = "send" /\ k \in export.todo
  /\ \/ /\ records[k].active
        /\ records' = [records EXCEPT ![k].prev = records[k].count]
        /\ sendDataRecord(k)
        /\ UNCHANGED conns
     \/ /\ ~records[k].active
        /\ records' = [records EXCEPT ![k] = NoRecord]
        /\ sent' = [sent EXCEPT ![k] = 0]
        /\ conns' = [conns EXCEPT ![k] = NoConn]
  /\ export' = [export EXCEPT !.todo = @ \ {k}]
  /\ UNCHANGED <<Kernel, poll, dumped, pollCycle, process, feFaults>>


\* The rest of the records waits for the next export, over a new connection.
sendFlowRecordFails ==
  /\ export.phase = "send" /\ export.todo # {} /\ Fault
  /\ export' = [phase |-> "wait", todo |-> {}] /\ process' = FALSE
  /\ UNCHANGED <<Kernel, Poller, records, pollCycle, sent>>

ExportDone ==
  /\ export.phase = "send" /\ export.todo = {}
  /\ export' = [export EXCEPT !.phase = "wait"]
  /\ UNCHANGED <<Kernel, Poller, records, pollCycle, process, sent, feFaults>>

PollPass   == resetConn \/ DumpFlows \/ PollDone \/ \E k \in Keys : addOrUpdateConn(k)
ExportPass == BuildFlowRecords \/ ExportDone \/ \E k \in Keys : sendFlowRecord(k)

Next ==
  \/ \E k \in Keys : Open(k) \/ Count(k) \/ Close(k)
  \/ PollPass \/ DumpFlowsFails \/ Signal
  \/ ExportPass \/ initFlowExporterFails \/ sendFlowRecordFails

Spec == Init /\ [][Next]_feVars

\* Both goroutines keep running; the collector does not always fail.
FairSpec ==
  /\ Spec
  /\ WF_feVars(PollPass) /\ WF_feVars(Signal) /\ WF_feVars(ExportPass)

---------------------------------------------------------------------------
(* Properties                                                              *)


=============================================================================
