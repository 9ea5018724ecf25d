------------------------------- MODULE Traceflow -------------------------------
(***************************************************************************)
(* Traceflow requests and the two controllers that carry them out. The      *)
(* Traceflow controller of antrea-controller gives a request one of the     *)
(* data plane tags, times it out and closes it; the Traceflow controller of *)
(* the agent on the sender's Node injects the packet and adds what it saw   *)
(* of it to the status. They meet only in the API object, which each reads  *)
(* from a lister that lags and writes with optimistic concurrency - except  *)
(* for the agent's patch of the phase.                                      *)
(***************************************************************************)
EXTENDS Integers, FiniteSets

CONSTANTS Requests,  \* names of Traceflow objects
          MaxTag,    \* maxTagNum; minTagNum is 1
          MaxVersion,\* bound on writes of a user: the versions a name may reach
          MaxTraceFaults \* bound on failed writes, lost replies and restarts

VARIABLES
  api,        \* the objects in the API server
  late,       \* requests created more than timeoutDuration ago
  tfView,       \* lister of the Traceflow controller
  queue,      \* its work queue
  tfJob,        \* its worker on a request
  tags,       \* its runningTraceflows
  agView,     \* lister of the agent
  agTags,     \* its runningTraceflows
  injected,   \* its injectedTags
  packets,    \* packets, by request and tag, from injectPacket to HandlePacketIn
  shaken,     \* history: requests one of the write outcomes below left behind
  tfFaults

ctlVars == <<tfView, queue, tfJob, tags>>
agVars  == <<agView, agTags, injected, packets>>
tfVars  == <<api, late, ctlVars, agVars, shaken, tfFaults>>

Tags   == 1 .. MaxTag
NoName == "none"
Gone   == [phase |-> "Gone", tag |-> 0, sender |-> FALSE, receiver |-> FALSE, version |-> 0]
NoWork == [pc |-> "idle", obj |-> Gone, phase |-> "Gone", tag |-> 0]
NoTags == [k \in Tags |-> NoName]
TraceFault == tfFaults < MaxTraceFaults /\ tfFaults' = tfFaults + 1
Finished == {"Succeeded", "Failed"}

ASSUME TraceflowAssumption == MaxTag \in Nat /\ NoName \notin Requests

TraceInit ==
  /\ api = [t \in Requests |-> Gone] /\ late = {}
  /\ tfView = api /\ queue = {} /\ tfJob = [t \in Requests |-> NoWork] /\ tags = NoTags
  /\ agView = api /\ agTags = NoTags /\ injected = NoTags /\ packets = {}
  /\ shaken = {} /\ tfFaults = 0

---------------------------------------------------------------------------
(* The API server. A deleted object keeps its last state, which its DELETE *)
(* event carries; the name can be used again once the event is delivered.  *)

CreateTraceflow(t) ==
  /\ api[t].phase = "Gone" /\ tfView[t] = api[t] /\ agView[t] = api[t]
  /\ api[t].version < MaxVersion
  /\ api' = [api EXCEPT ![t] = [Gone EXCEPT !.phase = "Pending", !.version = api[t].version + 1]]
  /\ late' = late \ {t}
  /\ shaken' = shaken \ {t}
  /\ UNCHANGED <<ctlVars, agVars, tfFaults>>

DeleteTraceflow(t) ==
  /\ api[t].phase # "Gone"
  /\ api' = [api EXCEPT ![t] = [api[t] EXCEPT !.phase = "Gone", !.version = @ + 1]]
  /\ UNCHANGED <<late, ctlVars, agVars, shaken, tfFaults>>

TimePasses(t) ==
  /\ api[t].phase # "Gone" /\ t \notin late
  /\ late' = late \cup {t}
  /\ UNCHANGED <<api, ctlVars, agVars, shaken, tfFaults>>

\* UpdateStatus is refused for an object that is gone or was written since the
\* copy was read.
Accepted(t, obj) == api[t].phase # "Gone" /\ api[t].version = obj.version
Updated(t, obj) == [api EXCEPT ![t] = [obj EXCEPT !.version = api[t].version + 1]]

---------------------------------------------------------------------------
(* The Traceflow controller.                                               *)

\* deallocateTag frees the tag only for the request that holds it, so that
\* the tag of a request that was closed before is safe.
deallocateTag(t, k) == IF tags[k] = t THEN [tags EXCEPT ![k] = NoName] ELSE tags
\* deallocateTagForTF ignores the invalid tag 0.
deallocateTagForTF(obj, t) == IF obj.tag # 0 THEN deallocateTag(t, obj.tag) ELSE tags


\* addTraceflow, updateTraceflow and deleteTraceflow.
Observe(t) ==
  /\ tfView[t] # api[t]
  /\ tfView' = [tfView EXCEPT ![t] = api[t]]
  /\ IF api[t].phase = "Gone"
     THEN tags' = deallocateTagForTF(api[t], t) /\ UNCHANGED queue
     ELSE queue' = queue \cup {t} /\ UNCHANGED tags
  /\ UNCHANGED <<api, late, tfJob, agVars, shaken, tfFaults>>

\* checkTraceflowTimeout posts every request that holds a tag.
checkTraceflowTimeout ==
  /\ \E k \in Tags : tags[k] # NoName /\ tags[k] \notin queue
  /\ queue' = queue \cup {tags[k] : k \in {j \in Tags : tags[j] # NoName}}
  /\ UNCHANGED <<api, late, tfView, tfJob, tags, agVars, shaken, tfFaults>>

Take(t) == t \in queue /\ tfJob[t] = NoWork /\ queue' = queue \ {t}
ToWrite(t, phase, k) ==
  tfJob' = [tfJob EXCEPT ![t] = [pc |-> "write", obj |-> tfView[t], phase |-> phase, tag |-> k]]

\* startTraceflow: a request that holds a tag has been started already.
Holds(t) == \E k \in Tags : tags[k] = t
Free == {k \in Tags : tags[k] = NoName}

startTraceflow(t) ==
  /\ Take(t) /\ tfView[t].phase = "Pending" /\ ~Holds(t)
  /\ Free # {}
  /\ LET k == CHOOSE j \in Free : \A i \in Free : j <= i
     IN tags' = [tags EXCEPT ![k] = t] /\ ToWrite(t, "Running", k)
  /\ UNCHANGED <<api, late, tfView, agVars, shaken, tfFaults>>

\* checkTraceflowStatus: done, or too late; the tag is freed before the status
\* is written.
checkTraceflowStatus(t) ==
  /\ Take(t) /\ tfView[t].phase = "Running"
  /\ LET success == tfView[t].sender /\ tfView[t].receiver
     IN IF success \/ t \in late
        THEN /\ ToWrite(t, IF success THEN "Succeeded" ELSE "Failed", 0)
             /\ tags' = deallocateTagForTF(tfView[t], t)
        ELSE UNCHANGED <<tfJob, tags>>
  /\ UNCHANGED <<api, late, tfView, agVars, shaken, tfFaults>>

\* The other outcomes of syncTraceflow: no tag is left (retried), the request
\* holds one, it is gone, or it is finished.
syncTraceflow(t) ==
  /\ t \in queue /\ tfJob[t] = NoWork
  /\ \/ tfView[t].phase = "Pending" /\ ~Holds(t) /\ Free = {} /\ UNCHANGED <<queue, tags>>
     \/ tfView[t].phase = "Pending" /\ Holds(t) /\ Take(t) /\ UNCHANGED tags
     \/ tfView[t].phase \in {"Gone", "Succeeded"} /\ Take(t) /\ UNCHANGED tags
     \/ tfView[t].phase = "Failed" /\ Take(t) /\ tags' = deallocateTagForTF(tfView[t], t)
  /\ UNCHANGED <<api, late, tfView, tfJob, agVars, shaken, tfFaults>>

\* updateTraceflowStatus. On an error a new tag is given back and the request
\* is queued again.
Write(t) == [tfJob[t].obj EXCEPT !.phase = tfJob[t].phase, !.tag = tfJob[t].tag]
GiveBack(t) == IF tfJob[t].tag # 0 THEN deallocateTag(t, tfJob[t].tag) ELSE tags

updateTraceflowStatus(t) ==
  /\ tfJob[t].pc = "write" /\ Accepted(t, tfJob[t].obj)
  /\ api' = Updated(t, Write(t))
  /\ tfJob' = [tfJob EXCEPT ![t] = NoWork]
  /\ UNCHANGED <<late, tfView, queue, tags, agVars, shaken, tfFaults>>

updateTraceflowStatusFails(t) ==
  /\ tfJob[t].pc = "write"
  /\ \/ ~Accepted(t, tfJob[t].obj) /\ UNCHANGED <<api, shaken, tfFaults>>
     \/ Accepted(t, tfJob[t].obj) /\ TraceFault /\ UNCHANGED <<api, shaken>>
     \/ Accepted(t, tfJob[t].obj) /\ TraceFault  \* written, but the reply is lost
        /\ api' = Updated(t, Write(t)) /\ shaken' = shaken \cup {t}
  /\ tags' = GiveBack(t)
  /\ queue' = queue \cup {t}
  /\ tfJob' = [tfJob EXCEPT ![t] = NoWork]
  /\ UNCHANGED <<late, tfView, agVars>>

\* A restart loses everything; Run reads the tags in use back from the running
\* requests, in the order of the lister, before it starts the workers.
RestartForgetful ==
  /\ TraceFault
  /\ tfView' = api /\ tfJob' = [t \in Requests |-> NoWork]
  /\ queue' = {t \in Requests : api[t].phase # "Gone"}
  /\ tags' = NoTags
  /\ UNCHANGED <<api, late, agVars, shaken>>

Restart ==
  /\ TraceFault
  /\ tfView' = api /\ tfJob' = [t \in Requests |-> NoWork]
  /\ queue' = {t \in Requests : api[t].phase # "Gone"}
  /\ LET users(k) == {t \in Requests : api[t].phase = "Running" /\ api[t].tag = k}
     IN \E own \in [Tags -> Requests \cup {NoName}] :
          /\ \A k \in Tags : IF users(k) = {} THEN own[k] = NoName ELSE own[k] \in users(k)
          /\ tags' = own
          /\ shaken' = shaken \cup {t \in Requests : api[t].phase = "Running" /\
                                      \A k \in Tags : own[k] # t}
  /\ UNCHANGED <<api, late, agVars>>

---------------------------------------------------------------------------
(* The agent on the Node of the sender and of the destination.             *)

\* deallocateTag looks the tag up by name, as the controller may have cleared
\* the one in the status.
agDeallocate(t) ==
  /\ agTags' = [k \in Tags |-> IF agTags[k] = t THEN NoName ELSE agTags[k]]
  /\ injected' = [k \in Tags |-> IF agTags[k] = t /\ injected[k] = t THEN NoName ELSE injected[k]]

\* errorTraceflowCRD patches the phase whatever the version is, and changes
\* the object in the lister's cache.
errorTraceflowCRD(t) ==
  /\ api' = IF api[t].phase = "Gone" THEN api
            ELSE [api EXCEPT ![t] = [api[t] EXCEPT !.phase = "Failed", !.version = @ + 1]]
  /\ agView' = [agView EXCEPT ![t] = [api[t] EXCEPT !.phase = "Failed"]]

\* An event and the syncTraceflow it queues: the informer's lag stands for the
\* time in the queue. A request that does not run (any more) gives up its tag.
AgStop(t) ==
  /\ agView[t] # api[t] /\ api[t].phase # "Running"
  /\ agView' = [agView EXCEPT ![t] = api[t]]
  /\ agDeallocate(t)
  /\ UNCHANGED <<api, late, ctlVars, packets, shaken, tfFaults>>

\* startTraceflow, unless the tag is taken: the flows are installed, and the
\* packet is sent after a delay.
AgStart(t) ==
  /\ agView[t] # api[t] /\ api[t].phase = "Running"
  /\ agView' = [agView EXCEPT ![t] = api[t]]
  /\ LET k == api[t].tag
     IN IF k = 0 \/ agTags[k] # NoName THEN UNCHANGED <<agTags, injected, packets>>
        ELSE /\ agTags' = [agTags EXCEPT ![k] = t]
             /\ injected' = [injected EXCEPT ![k] = t]
             /\ packets' = packets \cup {<<t, k>>}
  /\ UNCHANGED <<api, late, ctlVars, shaken, tfFaults>>

AgStartFails(t) ==
  /\ agView[t] # api[t] /\ api[t].phase = "Running"
  /\ api[t].tag # 0 /\ agTags[api[t].tag] = NoName
  /\ TraceFault
  /\ agTags' = [agTags EXCEPT ![api[t].tag] = t]
  /\ errorTraceflowCRD(t)
  /\ UNCHANGED <<late, ctlVars, injected, packets, shaken>>

\* The packet could not be sent, after the delay.
injectPacketFails(t, k) ==
  /\ <<t, k>> \in packets /\ TraceFault
  /\ packets' = packets \ {<<t, k>>}
  /\ errorTraceflowCRD(t)
  /\ UNCHANGED <<late, ctlVars, agTags, injected, shaken>>

\* HandlePacketIn finds a request by the tag, not necessarily the one the
\* packet was sent for, and adds the observations to the lister's copy, again
\* as often as RetryOnConflict allows; or it gives up.
HandlePacketIn(t, k) ==
  /\ <<t, k>> \in packets
  /\ packets' = packets \ {<<t, k>>}
  /\ LET u == agTags[k]
         found == u # NoName /\ agView[u].phase # "Gone" /\ Accepted(u, agView[u])
     IN api' = IF found
               THEN Updated(u, [agView[u] EXCEPT !.receiver = TRUE, !.sender = @ \/ injected[k] # NoName])
               ELSE api
  /\ UNCHANGED <<late, ctlVars, agView, agTags, injected, shaken, tfFaults>>

\* The lister is filled anew, and every request comes as an ADD event.
AgRestart ==
  /\ TraceFault
  /\ agView' = [t \in Requests |-> IF api[t].phase = "Gone" THEN api[t] ELSE Gone]
  /\ agTags' = NoTags /\ injected' = NoTags
  /\ UNCHANGED <<api, late, ctlVars, packets, shaken>>

---------------------------------------------------------------------------
\* A worker of the Traceflow controller on t.
Worker(t) == \/ startTraceflow(t) \/ checkTraceflowStatus(t) \/ syncTraceflow(t)
             \/ updateTraceflowStatus(t) \/ updateTraceflowStatusFails(t)

TraceNext ==
  \/ \E t \in Requests :
       \/ CreateTraceflow(t) \/ DeleteTraceflow(t) \/ TimePasses(t) \/ Observe(t) \/ Worker(t)
       \/ AgStop(t) \/ AgStart(t) \/ AgStartFails(t)
  \/ \E t \in Requests, k \in Tags : HandlePacketIn(t, k) \/ injectPacketFails(t, k)
  \/ checkTraceflowTimeout \/ Restart \/ AgRestart

TraceSpec == TraceInit /\ [][TraceNext]_tfVars

\* The clock, the informers, the workers and the timeout check of the Traceflow
\* controller keep going; nothing is asked of the agent.
TraceFairSpec ==
  /\ TraceSpec
  /\ \A t \in Requests :
       WF_tfVars(TimePasses(t)) /\ WF_tfVars(Observe(t)) /\ WF_tfVars(Worker(t))
  /\ WF_tfVars(checkTraceflowTimeout)

---------------------------------------------------------------------------
(* Properties                                                              *)

\* A running request that no worker is closing holds its tag in
\* runningTraceflows, through stale listers, conflicting writes of the agent
\* and restarts of the controller: this is what checkTraceflowTimeout and
\* allocateTag rely on. Excepted are requests whose write was answered by an
\* error although it was made, and those that lost a shared tag in a restart.
RunningHoldsTag ==
  \A t \in Requests : api[t].phase = "Running" /\ t \notin shaken
    => \/ tags[api[t].tag] = t
       \/ tfJob[t].pc = "write" /\ tfJob[t].phase \in Finished
       \/ t \in queue

\* A finished request never runs again, however old the copy is from which the
\* controller or the agent writes the status.
NeverRestarts ==
  [][\A t \in Requests : api[t].phase \in Finished => api'[t].phase \in Finished \cup {"Gone"}]_tfVars

\* Every request is finished or deleted in the end: it gets a tag, and results
\* or the timeout close it (checkTraceflowStatus).
EveryRequestEnds ==
  \A t \in Requests : []<>(api[t].phase \in Finished \cup {"Gone"} \/ t \in shaken)

\* Tags come back: the controller's tags do not leak, although a tag is freed
\* by name and tag and the status may have lost the tag by then.
TagsComeBack ==
  \A k \in Tags : []<>(tags[k] = NoName \/ shaken # {})

=============================================================================
