------------------------- MODULE TraceflowProofs ----------------------------
(***************************************************************************)
(* Traceflow: the versions of the API order all copies of an object, so a   *)
(* write decided on an old copy is refused; a running request can only be   *)
(* without its tag while its end is on the way.                             *)
(***************************************************************************)
EXTENDS Traceflow, WellFoundedInduction, TLAPS

(* The shape of the objects and of the work of a worker.                    *)
Phases  == {"Gone", "Pending", "Running"} \cup Finished
Objects == [phase : Phases, tag : 0 .. MaxTag, sender : BOOLEAN, receiver : BOOLEAN, version : Nat]
Jobs    == [pc : {"idle", "write"}, obj : Objects, phase : Phases, tag : 0 .. MaxTag]

TraceTypes ==
  /\ api \in [Requests -> Objects] /\ tfView \in [Requests -> Objects]
  /\ agView \in [Requests -> Objects] /\ tfJob \in [Requests -> Jobs]
  /\ tags \in [Tags -> Requests \cup {NoName}] /\ agTags \in [Tags -> Requests \cup {NoName}]

(* A request that runs by what the API says, and that is not one of those   *)
(* excepted (shaken); it holds its tag; it is about to be closed.           *)
Running(t) == api[t].phase = "Running" /\ t \notin shaken
Holding(t) == tags[api[t].tag] = t
Closing(t) == tfJob[t].pc = "write" /\ tfJob[t].phase \in Finished

(* Versions order the copies of an object, and equal versions are equal     *)
(* objects; errorTraceflowCRD spoils only a copy that is not accepted.      *)
AgentCopy(t) ==
  /\ agView[t].version <= api[t].version
  /\ agView[t].version = api[t].version /\ api[t].phase # "Gone" => agView[t] = api[t]

Copies(t) ==
  /\ api[t].phase # "Gone" => api[t].version > 0
  /\ tfView[t].version <= api[t].version
  /\ tfView[t].version = api[t].version => tfView[t] = api[t]
  /\ AgentCopy(t)
  /\ tfJob[t].pc = "write" =>
       /\ tfJob[t].obj.version <= tfView[t].version
       /\ tfJob[t].obj.version = tfView[t].version => tfJob[t].obj = tfView[t]

(* The lister of the controller shows an earlier phase of the request.      *)
Past(t) ==
  /\ tfView[t].phase = "Gone" => api[t].phase # "Running"
  /\ tfView[t].phase \in Finished => api[t].phase \in Finished \cup {"Gone"}
  /\ tfView[t].phase = "Running" => api[t].phase # "Pending"
  /\ tfView[t].phase = "Running" /\ api[t].phase = "Running" =>
       /\ tfView[t].tag = api[t].tag
       /\ tfView[t].sender => api[t].sender
       /\ tfView[t].receiver => api[t].receiver

(* What a worker is about to write: a start of a request that does not run  *)
(* yet, with a tag it holds if the write will be accepted, or an end.       *)
Writes(t) == tfJob[t].pc = "write" =>
  \/ /\ tfJob[t].phase = "Running" /\ tfJob[t].tag \in Tags /\ tfJob[t].obj.phase = "Pending"
     /\ Accepted(t, tfJob[t].obj) => tags[tfJob[t].tag] = t
     /\ ~Running(t)
  \/ /\ tfJob[t].phase \in Finished /\ tfJob[t].tag = 0 /\ tfJob[t].obj.phase = "Running"

(* A running request without its tag is one that checkTraceflowStatus has   *)
(* decided to close, and will again when the write fails.                   *)
Tagged(t) ==
  /\ api[t].phase = "Running" => api[t].tag \in Tags
  /\ Running(t) /\ ~Holding(t) =>
       /\ tfView[t].phase = "Running"
       /\ t \in late \/ (tfView[t].sender /\ tfView[t].receiver)
       /\ t \in queue \/ Closing(t)

(* What every step keeps, request by request.                               *)
Good(t) == Copies(t) /\ Past(t) /\ Writes(t) /\ Tagged(t)

TraceInv == TraceTypes /\ \A t \in Requests : Good(t)

(* A step leaves a request alone when it keeps its objects and its tags.    *)
Untouched(t) ==
  /\ api'[t] = api[t] /\ tfView'[t] = tfView[t] /\ tfJob'[t] = tfJob[t] /\ AgentCopy(t)'
  /\ t \in shaken' <=> t \in shaken
  /\ t \in late => t \in late'
  /\ t \in queue => t \in queue'
  /\ \A k \in Tags : tags[k] = t => tags'[k] = t

(* A request that a step leaves alone stays good.                           *)
LEMMA UntouchedIsGood == ASSUME NEW t \in Requests, Good(t), Untouched(t) PROVE Good(t)'
<1>1. Copies(t)' BY Zenon DEF Good, Copies, Untouched
<1>2. Past(t)' BY Zenon DEF Good, Past, Untouched
<1>3. Writes(t)' BY Zenon DEF Good, Writes, Untouched, Accepted, Running
<1>4. Tagged(t)'
  <2>1. api'[t].phase = "Running" => api'[t].tag \in Tags BY Zenon DEF Good, Tagged, Untouched
  <2>2. Running(t)' /\ ~Holding(t)' => Running(t) /\ ~Holding(t)
    BY <2>1, Zenon DEF Untouched, Running, Holding
  <2>3. Closing(t) => Closing(t)' BY Zenon DEF Untouched, Closing
  <2> QED BY <2>1, <2>2, <2>3, Zenon DEF Good, Tagged, Untouched
<1> QED BY <1>1, <1>2, <1>3, <1>4, Zenon DEF Good

(* Before the first request there are no objects and no tags.               *)
LEMMA TraceInitially == TraceInit => TraceInv
<1> SUFFICES ASSUME TraceInit PROVE TraceInv BY Zenon
<1>1. Gone \in Objects /\ NoWork \in Jobs /\ NoTags \in [Tags -> Requests \cup {NoName}]
  BY TraceflowAssumption DEF Gone, Objects, Jobs, NoWork, NoTags, Phases
<1>2. TraceTypes BY <1>1, Zenon DEF TraceInit, TraceTypes
<1>3. ASSUME NEW t \in Requests PROVE Good(t)
  <2>1. api[t] = Gone /\ tfView[t] = Gone /\ agView[t] = Gone /\ tfJob[t] = NoWork
    BY Zenon DEF TraceInit
  <2>2. Gone.phase = "Gone" /\ Gone.version = 0 /\ NoWork.pc = "idle" BY Zenon DEF Gone, NoWork
  <2>3. Copies(t) BY <2>1, <2>2 DEF Copies, AgentCopy
  <2> QED BY <2>1, <2>2, <2>3 DEF Good, Past, Writes, Tagged, Running, Finished
<1> QED BY <1>2, <1>3, Zenon DEF TraceInv

(* The fields of an object.                                                 *)
LEMMA ObjectFields ==
  ASSUME NEW o \in Objects
  PROVE /\ o.phase \in Phases /\ o.tag \in 0 .. MaxTag /\ o.version \in Nat
        /\ o.sender \in BOOLEAN /\ o.receiver \in BOOLEAN
  BY Zenon DEF Objects

(* A write that leaves the request finished or gone is a new version: no    *)
(* copy of an older one is accepted after it.                               *)
LEMMA EndIsGood ==
  ASSUME TraceTypes, NEW t \in Requests, Good(t), api'[t] \in Objects, agView'[t] \in Objects,
         api'[t].version = api[t].version + 1, api'[t].phase \in Finished \cup {"Gone"},
         tfView'[t] = tfView[t], tfJob'[t] \in {tfJob[t], NoWork}, agView'[t].version <= api[t].version
  PROVE Good(t)'
<1>1. api[t].version \in Nat /\ tfView[t].version \in Nat /\ agView'[t].version \in Nat
  BY ObjectFields DEF TraceTypes
<1>2. NoWork.pc = "idle" BY Zenon DEF NoWork
<1>3. api'[t].phase # "Running" /\ api'[t].phase # "Pending" BY DEF Finished
<1>4. tfJob[t].pc = "write" => tfJob[t].obj.version <= tfView[t].version /\ tfJob[t].obj.version \in Nat
  <2>1. tfJob[t].obj \in Objects BY Zenon DEF TraceTypes, Jobs
  <2> QED BY <2>1, ObjectFields, Zenon DEF Good, Copies
<1>5. Copies(t)'
  <2>1. tfView[t].version <= api[t].version BY Zenon DEF Good, Copies
  <2>2. AgentCopy(t)' BY <1>1 DEF AgentCopy
  <2>3. tfJob'[t].pc = "write" => tfJob'[t] = tfJob[t] BY <1>2, Zenon
  <2>4. /\ tfView'[t].version <= api'[t].version
        /\ tfView'[t].version # api'[t].version
        /\ api'[t].version > 0
    BY <1>1, <2>1
  <2> QED BY <2>2, <2>3, <2>4, Zenon DEF Good, Copies
<1>6. Past(t)' BY <1>3, Zenon DEF Past
<1>7. Writes(t)'
  <2>1. ASSUME tfJob'[t].pc = "write" PROVE tfJob'[t] = tfJob[t] /\ tfJob[t].pc = "write"
    BY <1>2, <2>1, Zenon
  <2>2. ASSUME tfJob'[t].pc = "write" PROVE tfJob[t].obj.version # api'[t].version
    <3>1. tfView[t].version <= api[t].version BY Zenon DEF Good, Copies
    <3> QED BY <1>1, <1>4, <2>1, <2>2, <3>1
  <2> QED BY <1>3, <2>1, <2>2, Zenon DEF Good, Writes, Accepted, Running
<1>8. Tagged(t)' BY <1>3, Zenon DEF Tagged, Running
<1> QED BY <1>5, <1>6, <1>7, <1>8, Zenon DEF Good

(* The user: a new object is a new version, as is the deleted one.          *)
LEMMA UserKeeps ==
  ASSUME TraceInv, NEW t \in Requests, CreateTraceflow(t) \/ DeleteTraceflow(t) \/ TimePasses(t)
  PROVE TraceInv'
<1>1. \A u \in Requests : Good(u) BY Zenon DEF TraceInv
<1>2. TraceTypes BY Zenon DEF TraceInv
<1>3. ASSUME NEW u \in Requests, u # t \/ TimePasses(t) PROVE Good(u)'
  <2>1. api'[u] = api[u] /\ agView'[u] = agView[u] BY <1>2, <1>3, Zenon
    DEF CreateTraceflow, DeleteTraceflow, TimePasses, TraceTypes, agVars
  <2>2. AgentCopy(u)' BY <1>1, <2>1, Zenon DEF Good, Copies, AgentCopy
  <2>3. Untouched(u) BY <1>3, <2>1, <2>2, Zenon
    DEF CreateTraceflow, DeleteTraceflow, TimePasses, Untouched, ctlVars
  <2> QED BY <1>1, <2>3, UntouchedIsGood
<1>4. api[t] \in Objects /\ api[t].version \in Nat BY <1>2, ObjectFields, Zenon DEF TraceTypes
<1>5. CASE CreateTraceflow(t)
  <2> DEFINE o == [Gone EXCEPT !.phase = "Pending", !.version = api[t].version + 1]
  <2>1. api[t].version + 1 \in Nat BY <1>4
  <2>2. o \in Objects /\ o.phase = "Pending" /\ o.version = api[t].version + 1
    <3>1. 0 \in 0 .. MaxTag BY TraceflowAssumption
    <3> QED BY <2>1, <3>1, Zenon DEF Objects, Gone, Phases
  <2>3. api' = [api EXCEPT ![t] = o] /\ api'[t] = o BY <1>2, <1>5, Zenon DEF CreateTraceflow, TraceTypes
  <2>4. TraceTypes' BY <1>2, <1>5, <2>2, <2>3, Zenon DEF CreateTraceflow, TraceTypes, ctlVars, agVars
  <2>5. /\ tfView'[t] = tfView[t] /\ agView'[t] = agView[t] /\ tfJob'[t] = tfJob[t]
        /\ tfView[t] = api[t] /\ agView[t] = api[t] /\ api[t].phase = "Gone"
    BY <1>5, Zenon DEF CreateTraceflow, ctlVars, agVars
  <2> HIDE DEF o
  <2>6. Copies(t)' BY <1>1, <1>4, <2>2, <2>3, <2>5 DEF Good, Copies, AgentCopy
  <2>7. Past(t)' BY <2>2, <2>3, <2>5 DEF Past, Finished
  <2>8. ~Accepted(t, tfJob[t].obj)' \/ tfJob[t].pc # "write"
    BY <1>1, <1>4, <2>2, <2>3, <2>5 DEF Good, Copies, Accepted
  <2>9. ~Running(t)' BY <2>2, <2>3 DEF Running
  <2>10. Writes(t)' /\ Tagged(t)' BY <1>1, <2>2, <2>3, <2>5, <2>8, <2>9 DEF Good, Writes, Tagged, Accepted
  <2>11. Good(t)' BY <2>6, <2>7, <2>10, Zenon DEF Good
  <2> QED BY <1>3, <2>4, <2>11, Zenon DEF TraceInv
<1>6. CASE DeleteTraceflow(t)
  <2> DEFINE o == [api[t] EXCEPT !.phase = "Gone", !.version = @ + 1]
  <2>1. api[t].version + 1 \in Nat BY <1>4
  <2>2. o \in Objects /\ o.phase = "Gone" /\ o.version = api[t].version + 1
    BY <1>4, <2>1, Zenon DEF Objects, Phases
  <2>3. api' = [api EXCEPT ![t] = o] /\ api'[t] = o BY <1>2, <1>6, Zenon DEF DeleteTraceflow, TraceTypes
  <2>4. TraceTypes' BY <1>2, <1>6, <2>2, <2>3, Zenon DEF DeleteTraceflow, TraceTypes, ctlVars, agVars
  <2>5. /\ tfView'[t] = tfView[t] /\ agView'[t] = agView[t] /\ tfJob'[t] = tfJob[t]
        /\ agView[t].version <= api[t].version /\ agView[t] \in Objects
    BY <1>1, <1>2, <1>6, Zenon DEF DeleteTraceflow, ctlVars, agVars, Good, Copies, AgentCopy, TraceTypes
  <2> HIDE DEF o
  <2>6. Good(t)' BY <1>1, <1>2, <2>2, <2>3, <2>5, EndIsGood
  <2> QED BY <1>3, <2>4, <2>6, Zenon DEF TraceInv
<1>7. CASE TimePasses(t)
  <2>1. TraceTypes' BY <1>2, <1>7, Zenon DEF TimePasses, TraceTypes, ctlVars, agVars
  <2> QED BY <1>3, <1>7, <2>1, Zenon DEF TraceInv
<1> QED BY <1>5, <1>6, <1>7, Zenon

(* The agent's lister, tags and restart touch no request.                   *)
LEMMA AgentKeeps ==
  ASSUME TraceInv, AgRestart \/ \E t \in Requests : AgStop(t) \/ AgStart(t)
  PROVE TraceInv'
<1>1. \A u \in Requests : Good(u) BY Zenon DEF TraceInv
<1>2. TraceTypes BY Zenon DEF TraceInv
<1>3. api' = api /\ tfView' = tfView /\ tfJob' = tfJob /\ tags' = tags /\ UNCHANGED <<shaken, late, queue>>
  BY Zenon DEF AgRestart, AgStop, AgStart, ctlVars
<1>4. Gone \in Objects /\ NoTags \in [Tags -> Requests \cup {NoName}] /\ Gone.version = 0
  BY TraceflowAssumption DEF Gone, Objects, Phases, NoTags
<1>5. agView' \in [Requests -> Objects] /\ agTags' \in [Tags -> Requests \cup {NoName}]
  <2>1. CASE AgRestart BY <1>2, <1>4, <2>1, Zenon DEF AgRestart, TraceTypes
  <2>2. ASSUME NEW t \in Requests, AgStop(t)
        PROVE agView' \in [Requests -> Objects] /\ agTags' \in [Tags -> Requests \cup {NoName}]
    BY <1>2, <2>2, Zenon DEF AgStop, agDeallocate, TraceTypes
  <2>3. ASSUME NEW t \in Requests, AgStart(t)
        PROVE agView' \in [Requests -> Objects] /\ agTags' \in [Tags -> Requests \cup {NoName}]
    <3>1. agView' = [agView EXCEPT ![t] = api[t]] BY <2>3, Zenon DEF AgStart
    <3>2. agTags' = agTags \/ agTags' = [agTags EXCEPT ![api[t].tag] = t] BY <2>3, Zenon DEF AgStart
    <3> QED BY <1>2, <3>1, <3>2, Zenon DEF TraceTypes
  <2> QED BY <2>1, <2>2, <2>3, Zenon
<1>6. ASSUME NEW u \in Requests PROVE Good(u)'
  <2>1. agView'[u] \in {agView[u], api[u]} \/ (agView'[u] = Gone /\ api[u].phase # "Gone")
    <3>1. CASE AgRestart BY <3>1, Zenon DEF AgRestart
    <3>2. ASSUME NEW t \in Requests, AgStop(t) \/ AgStart(t) PROVE agView'[u] \in {agView[u], api[u]}
      <4>1. agView' = [agView EXCEPT ![t] = api[t]] BY <3>2, Zenon DEF AgStop, AgStart
      <4> QED BY <1>2, <4>1, Zenon DEF TraceTypes
    <3> QED BY <3>1, <3>2, Zenon
  <2>2. api[u].version \in Nat BY <1>2, ObjectFields DEF TraceTypes
  <2>3. AgentCopy(u)' BY <1>1, <1>3, <1>4, <2>1, <2>2 DEF Good, Copies, AgentCopy
  <2> QED BY <1>1, <1>3, <2>3, UntouchedIsGood, Zenon DEF Untouched
<1> QED BY <1>2, <1>3, <1>5, <1>6, Zenon DEF TraceInv, TraceTypes

(* errorTraceflowCRD fails a request that is there.                         *)
LEMMA ErrorKeeps ==
  ASSUME TraceInv, NEW t \in Requests,
         AgStartFails(t) \/ \E k \in Tags : injectPacketFails(t, k)
  PROVE TraceInv'
<1>1. \A u \in Requests : Good(u) BY Zenon DEF TraceInv
<1>2. TraceTypes BY Zenon DEF TraceInv
<1>3. /\ errorTraceflowCRD(t)
      /\ tfView' = tfView /\ tfJob' = tfJob /\ tags' = tags /\ UNCHANGED <<shaken, late, queue>>
  BY Zenon DEF AgStartFails, injectPacketFails, ctlVars
<1>4. agTags' \in [Tags -> Requests \cup {NoName}]
  BY <1>2, Zenon DEF AgStartFails, injectPacketFails, TraceTypes
<1>5. api[t] \in Objects /\ api[t].version \in Nat BY <1>2, ObjectFields, Zenon DEF TraceTypes
<1> DEFINE a == [api[t] EXCEPT !.phase = "Failed"]
           o == [api[t] EXCEPT !.phase = "Failed", !.version = @ + 1]
<1>6. a \in Objects /\ a.version = api[t].version BY <1>5, Zenon DEF Objects, Phases, Finished
<1>7. o \in Objects /\ o.phase = "Failed" /\ o.version = api[t].version + 1
  <2>1. api[t].version + 1 \in Nat BY <1>5
  <2> QED BY <1>5, <2>1, Zenon DEF Objects, Phases, Finished
<1>8. agView' = [agView EXCEPT ![t] = a] /\ agView'[t] = a
  BY <1>2, <1>3, Zenon DEF errorTraceflowCRD, TraceTypes
<1>9. api' = IF api[t].phase = "Gone" THEN api ELSE [api EXCEPT ![t] = o]
  BY <1>3, Zenon DEF errorTraceflowCRD
<1> HIDE DEF a, o
<1>10. TraceTypes' BY <1>2, <1>3, <1>4, <1>6, <1>7, <1>8, <1>9, Zenon DEF TraceTypes
<1>11. ASSUME NEW u \in Requests, u # t PROVE Good(u)'
  <2>1. api'[u] = api[u] /\ agView'[u] = agView[u] BY <1>2, <1>8, <1>9, <1>11, Zenon DEF TraceTypes
  <2>2. AgentCopy(u)' BY <1>1, <2>1, Zenon DEF Good, Copies, AgentCopy
  <2> QED BY <1>1, <1>3, <2>1, <2>2, UntouchedIsGood, Zenon DEF Untouched
<1>12. Good(t)'
  <2>1. CASE api[t].phase = "Gone"
    <3>1. api' = api BY <1>9, <2>1, Zenon
    <3>2. AgentCopy(t)' BY <1>5, <1>6, <1>8, <2>1, <3>1 DEF AgentCopy
    <3> QED BY <1>1, <1>3, <3>1, <3>2, UntouchedIsGood, Zenon DEF Untouched
  <2>2. CASE api[t].phase # "Gone"
    <3>1. api'[t] = o BY <1>2, <1>9, <2>2, Zenon DEF TraceTypes
    <3>2. agView'[t].version <= api[t].version BY <1>5, <1>6, <1>8
    <3>3. api'[t].phase \in Finished BY <1>7, <3>1, Zenon DEF Finished
    <3> QED BY <1>1, <1>2, <1>3, <1>6, <1>7, <1>8, <3>1, <3>2, <3>3, EndIsGood, Zenon
  <2> QED BY <2>1, <2>2, Zenon
<1> QED BY <1>10, <1>11, <1>12, Zenon DEF TraceInv

(* HandlePacketIn writes to the version it has read: it adds results only.  *)
LEMMA ResultKeeps ==
  ASSUME TraceInv, NEW t \in Requests, NEW k \in Tags, HandlePacketIn(t, k)
  PROVE TraceInv'
<1> PICK u : u = agTags[k] BY Zenon
<1> DEFINE o == [[agView[u] EXCEPT !.receiver = TRUE, !.sender = @ \/ injected[k] # NoName]
                   EXCEPT !.version = api[u].version + 1]
<1>1. \A r \in Requests : Good(r) BY Zenon DEF TraceInv
<1>2. TraceTypes BY Zenon DEF TraceInv
<1>3. /\ UNCHANGED <<tfView, tfJob, tags, shaken, late, queue, agView, agTags>>
      /\ api' = api \/ (u # NoName /\ Accepted(u, agView[u]) /\ api' = [api EXCEPT ![u] = o])
  <2>1. UNCHANGED <<tfView, tfJob, tags, shaken, late, queue, agView, agTags>>
    BY Zenon DEF HandlePacketIn, ctlVars
  <2> QED BY <2>1, Zenon DEF HandlePacketIn, Updated
<1>4. CASE api' = api
  <2>1. TraceTypes' BY <1>2, <1>3, <1>4, Zenon DEF TraceTypes
  <2>2. ASSUME NEW r \in Requests PROVE Good(r)'
    <3>1. AgentCopy(r)' BY <1>1, <1>3, <1>4, Zenon DEF Good, Copies, AgentCopy
    <3> QED BY <1>1, <1>3, <1>4, <3>1, UntouchedIsGood, Zenon DEF Untouched
  <2> QED BY <2>1, <2>2, Zenon DEF TraceInv
<1>5. CASE u # NoName /\ Accepted(u, agView[u]) /\ api' = [api EXCEPT ![u] = o]
  <2>1. u \in Requests BY <1>2, <1>5, Zenon DEF TraceTypes
  <2>2. /\ agView[u] = api[u] /\ api[u] \in Objects /\ api[u].version \in Nat
        /\ api[u].phase # "Gone"
    BY <1>1, <1>2, <1>5, <2>1, ObjectFields, Zenon DEF Accepted, Good, Copies, AgentCopy, TraceTypes
  <2>3. /\ o \in Objects /\ o.version = api[u].version + 1 /\ o.phase = api[u].phase
        /\ o.tag = api[u].tag /\ (api[u].sender => o.sender) /\ o.receiver
    <3>1. api[u].version + 1 \in Nat BY <2>2
    <3> QED BY <2>2, <3>1, Zenon DEF Objects
  <2>4. api'[u] = o BY <1>2, <1>5, <2>1, Zenon DEF TraceTypes
  <2> HIDE DEF o
  <2>5. TraceTypes' BY <1>2, <1>3, <1>5, <2>1, <2>3, Zenon DEF TraceTypes
  <2>6. ASSUME NEW r \in Requests, r # u PROVE Good(r)'
    <3>1. api'[r] = api[r] BY <1>2, <1>5, <2>6, Zenon DEF TraceTypes
    <3>2. AgentCopy(r)' BY <1>1, <1>3, <3>1, Zenon DEF Good, Copies, AgentCopy
    <3> QED BY <1>1, <1>3, <3>1, <3>2, UntouchedIsGood, Zenon DEF Untouched
  <2>7. /\ tfView'[u] = tfView[u] /\ agView'[u] = agView[u] /\ tfJob'[u] = tfJob[u]
        /\ tfView[u].version \in Nat
    BY <1>2, <1>3, <2>1, ObjectFields, Zenon DEF TraceTypes
  <2>8. tfView[u].version <= api[u].version BY <1>1, <2>1, Zenon DEF Good, Copies
  <2>9. tfJob[u].pc = "write" => tfJob[u].obj.version <= tfView[u].version /\ tfJob[u].obj.version \in Nat
    <3>1. tfJob[u].obj \in Objects BY <1>2, <2>1, Zenon DEF TraceTypes, Jobs
    <3> QED BY <1>1, <2>1, <3>1, ObjectFields, Zenon DEF Good, Copies
  <2>10. Copies(u)'
    <3>1. /\ tfView'[u].version <= api'[u].version /\ tfView'[u].version # api'[u].version
          /\ agView'[u].version <= api'[u].version /\ agView'[u].version # api'[u].version
          /\ api'[u].version > 0
      BY <2>2, <2>3, <2>4, <2>7, <2>8
    <3>2. AgentCopy(u)' BY <3>1, Zenon DEF AgentCopy
    <3> QED BY <1>1, <2>1, <2>7, <3>1, <3>2, Zenon DEF Good, Copies
  <2>11. Past(u)'
    <3>1. Past(u) BY <1>1, <2>1, Zenon DEF Good
    <3>2. /\ api'[u].phase = api[u].phase /\ api'[u].tag = api[u].tag
          /\ api[u].sender => api'[u].sender
          /\ api'[u].receiver
      BY <2>3, <2>4, Zenon
    <3> QED BY <2>7, <3>1, <3>2, Zenon DEF Past
  <2>12. Running(u)' <=> Running(u) BY <1>3, <2>3, <2>4, Zenon DEF Running
  <2>13. Writes(u)'
    <3>1. tfJob[u].pc = "write" => tfJob[u].obj.version # api'[u].version
      BY <2>2, <2>3, <2>4, <2>7, <2>8, <2>9
    <3> QED BY <1>1, <2>1, <2>7, <2>12, <3>1, Zenon DEF Good, Writes, Accepted
  <2>14. Tagged(u)'
    <3>1. Holding(u)' <=> Holding(u) BY <1>3, <2>3, <2>4, Zenon DEF Holding
    <3>2. Closing(u)' <=> Closing(u) BY <2>7, Zenon DEF Closing
    <3> QED BY <1>1, <1>3, <2>1, <2>3, <2>4, <2>7, <2>12, <3>1, <3>2, Zenon DEF Good, Tagged
  <2>15. Good(u)' BY <2>10, <2>11, <2>13, <2>14, Zenon DEF Good
  <2> QED BY <2>5, <2>6, <2>15, Zenon DEF TraceInv
<1> QED BY <1>3, <1>4, <1>5, Zenon

(* deallocateTag takes a tag from the request that has it only.             *)
LEMMA OthersKeepTags ==
  ASSUME TraceTypes, NEW t \in Requests, NEW k
  PROVE /\ deallocateTag(t, k) \in [Tags -> Requests \cup {NoName}]
        /\ \A r \in Requests \ {t}, j \in Tags : tags[j] = r => deallocateTag(t, k)[j] = r
<1>1. CASE tags[k] # t BY <1>1, Zenon DEF TraceTypes, deallocateTag
<1>2. CASE tags[k] = t
  <2>1. deallocateTag(t, k) = [tags EXCEPT ![k] = NoName] BY <1>2, Zenon DEF deallocateTag
  <2> QED BY <1>2, <2>1, Zenon DEF TraceTypes
<1> QED BY <1>1, <1>2, Zenon

(* The informer: the lister catches up, and a tag is freed only for an      *)
(* object that is gone.                                                     *)
LEMMA ObserveKeeps == ASSUME TraceInv, NEW t \in Requests, Observe(t) PROVE TraceInv'
<1>1. \A r \in Requests : Good(r) BY Zenon DEF TraceInv
<1>2. TraceTypes BY Zenon DEF TraceInv
<1>3. /\ UNCHANGED <<api, late, tfJob, shaken, agView, agTags>> /\ queue \subseteq queue'
      /\ tfView' = [tfView EXCEPT ![t] = api[t]] /\ tfView[t] # api[t]
      /\ tags' = tags \/ (api[t].phase = "Gone" /\ tags' = deallocateTag(t, api[t].tag))
  <2>1. UNCHANGED <<api, late, tfJob, shaken, agView, agTags>> BY Zenon DEF Observe, agVars
  <2>2. queue \subseteq queue' BY Zenon DEF Observe
  <2> QED BY <2>1, <2>2, Zenon DEF Observe, deallocateTagForTF
<1>4. /\ tags' \in [Tags -> Requests \cup {NoName}]
      /\ \A r \in Requests \ {t}, j \in Tags : tags[j] = r => tags'[j] = r
  <2>1. /\ deallocateTag(t, api[t].tag) \in [Tags -> Requests \cup {NoName}]
        /\ \A r \in Requests \ {t}, j \in Tags : tags[j] = r => deallocateTag(t, api[t].tag)[j] = r
    BY <1>2, OthersKeepTags
  <2> QED BY <1>2, <1>3, <2>1, Zenon DEF TraceTypes
<1>40. TraceTypes' BY <1>2, <1>3, <1>4, Zenon DEF TraceTypes
<1>5. ASSUME NEW r \in Requests, r # t PROVE Good(r)'
  <2>1. AgentCopy(r)' BY <1>1, <1>3, Zenon DEF Good, Copies, AgentCopy
  <2>2. tfView'[r] = tfView[r] BY <1>2, <1>3, <1>5, Zenon DEF TraceTypes
  <2>3. \A j \in Tags : tags[j] = r => tags'[j] = r BY <1>4, <1>5, Zenon
  <2>4. r \in queue => r \in queue' BY <1>3, Zenon
  <2> QED BY <1>1, <1>3, <2>1, <2>2, <2>3, <2>4, UntouchedIsGood, Zenon DEF Untouched
<1>6. Good(t)'
  <2>1. tfView'[t] = api[t] BY <1>2, <1>3, Zenon DEF TraceTypes
  <2>2. api[t].version \in Nat /\ tfView[t].version \in Nat BY <1>2, ObjectFields, Zenon DEF TraceTypes
  <2>3. tfView[t].version < api[t].version BY <1>1, <1>3, <2>2 DEF Good, Copies
  <2>4. tfJob[t].pc = "write" => tfJob[t].obj.version <= tfView[t].version /\ tfJob[t].obj.version \in Nat
    <3>1. tfJob[t].obj \in Objects BY <1>2, Zenon DEF TraceTypes, Jobs
    <3> QED BY <1>1, <3>1, ObjectFields, Zenon DEF Good, Copies
  <2>5. tfJob[t].pc = "write" => tfJob[t].obj.version < api[t].version BY <2>2, <2>3, <2>4
  <2>6. Copies(t)'
    <3>1. AgentCopy(t)' BY <1>1, <1>3, Zenon DEF Good, Copies, AgentCopy
    <3>2. tfJob[t].pc = "write" => tfJob[t].obj.version <= api[t].version /\ tfJob[t].obj.version # api[t].version
      BY <2>2, <2>4, <2>5
    <3>3. api[t].version <= api[t].version BY <2>2
    <3> QED BY <1>1, <1>3, <2>1, <3>1, <3>2, <3>3, Zenon DEF Good, Copies
  <2>7. Past(t)' BY <1>3, <2>1 DEF Past, Finished
  <2>8. Writes(t)'
    <3>1. tfJob[t].pc = "write" => tfJob[t].obj.version # api[t].version BY <2>2, <2>4, <2>5
    <3> QED BY <1>1, <1>3, <3>1, Zenon DEF Good, Writes, Accepted, Running
  <2>9. Tagged(t)'
    <3> SUFFICES ASSUME api[t].phase = "Running" PROVE Tagged(t)'
      BY <1>3, Zenon DEF Tagged, Running
    <3>1. tags' = tags BY <1>3, Zenon
    <3>2. Past(t) /\ Tagged(t) BY <1>1, Zenon DEF Good
    <3>3. t \in queue => t \in queue' BY <1>3, Zenon
    <3> QED BY <1>3, <2>1, <3>1, <3>2, <3>3, Zenon DEF Past, Tagged, Running, Holding, Closing
  <2> QED BY <2>6, <2>7, <2>8, <2>9, Zenon DEF Good
<1> QED BY <1>40, <1>5, <1>6, Zenon DEF TraceInv

(* checkTraceflowTimeout only fills the queue.                              *)
LEMMA TimeoutKeeps == ASSUME TraceInv, checkTraceflowTimeout PROVE TraceInv'
<1>1. /\ UNCHANGED <<api, late, tfView, tfJob, tags, shaken, agView, agTags>>
      /\ \A r : r \in queue => r \in queue'
  BY Zenon DEF checkTraceflowTimeout, agVars
<1>2. ASSUME NEW r \in Requests PROVE Good(r)'
  <2>1. AgentCopy(r)' BY <1>1, Zenon DEF TraceInv, Good, Copies, AgentCopy
  <2>2. Good(r) BY Zenon DEF TraceInv
  <2> QED BY <1>1, <2>1, <2>2, UntouchedIsGood, Zenon DEF Untouched
<1> QED BY <1>1, <1>2, Zenon DEF TraceInv, TraceTypes

(* A set of natural numbers has a smallest member.                          *)
LEMMA Smallest ==
  ASSUME NEW T, T \subseteq Nat, T # {}
  PROVE  \E m \in T : \A k \in T : m <= k
<1>1. PICK m \in T : \A k \in T : ~(<<k, m>> \in OpToRel(<, Nat))
  BY WFMin, NatLessThanWellFounded, Zenon
<1>2. \A k \in T : ~(k < m)
  BY <1>1, Zenon DEF OpToRel
<1> QED  BY <1>2

(* A worker leaves the requests of the others alone.                        *)
LEMMA OthersAreGood ==
  ASSUME TraceInv, NEW t \in Requests, UNCHANGED <<tfView, late, agView>>,
         \A r \in Requests \ {t} :
           /\ api'[r] = api[r] /\ tfJob'[r] = tfJob[r]
           /\ (r \in shaken' <=> r \in shaken) /\ (r \in queue => r \in queue')
           /\ \A j \in Tags : tags[j] = r => tags'[j] = r
  PROVE \A r \in Requests \ {t} : Good(r)'
<1> SUFFICES ASSUME NEW r \in Requests \ {t} PROVE Good(r)' BY Zenon
<1>1. Good(r) BY Zenon DEF TraceInv
<1>2. AgentCopy(r)' BY <1>1, Zenon DEF Good, Copies, AgentCopy
<1>3. Untouched(r) BY <1>2, Zenon DEF Untouched
<1> QED BY <1>1, <1>3, UntouchedIsGood

(* startTraceflow takes a tag that is free, for a request that cannot be    *)
(* running: it would hold its tag, or the lister would show it running.     *)
LEMMA StartKeeps == ASSUME TraceInv, NEW t \in Requests, startTraceflow(t) PROVE TraceInv'
<1>1. Good(t) /\ TraceTypes BY Zenon DEF TraceInv
<1> DEFINE k == CHOOSE j \in Free : \A i \in Free : j <= i
           w == [pc |-> "write", obj |-> tfView[t], phase |-> "Running", tag |-> k]
<1>2. k \in Tags /\ tags[k] = NoName
  <2>1. Free \subseteq Nat /\ Free # {} BY TraceflowAssumption DEF startTraceflow, Free, Tags
  <2>2. k \in Free BY <2>1, Smallest
  <2> QED BY <2>2, Zenon DEF Free
<1>3. /\ UNCHANGED <<api, late, tfView, shaken, agView, agTags>>
      /\ tags' = [tags EXCEPT ![k] = t] /\ tfJob' = [tfJob EXCEPT ![t] = w]
      /\ queue' = queue \ {t} /\ tfView[t].phase = "Pending" /\ ~Holds(t)
  <2>1. UNCHANGED <<api, late, tfView, shaken, agView, agTags>> BY Zenon DEF startTraceflow, agVars
  <2>2. tags' = [tags EXCEPT ![k] = t] /\ tfJob' = [tfJob EXCEPT ![t] = w]
    BY Zenon DEF startTraceflow, ToWrite
  <2> QED BY <2>1, <2>2, Zenon DEF startTraceflow, Take
<1>4. w \in Jobs /\ w.pc = "write" /\ w.obj = tfView[t] /\ w.phase = "Running" /\ w.tag = k
  <2>1. k \in 0 .. MaxTag BY <1>2, TraceflowAssumption DEF Tags
  <2>2. tfView[t] \in Objects BY <1>1, Zenon DEF TraceTypes
  <2> QED BY <2>1, <2>2, Zenon DEF Jobs, Phases
<1> HIDE DEF k, w
<1>5. TraceTypes' BY <1>1, <1>2, <1>3, <1>4, Zenon DEF TraceTypes
<1>6. tfJob'[t] = w /\ tags'[k] = t BY <1>1, <1>2, <1>3, Zenon DEF TraceTypes
<1>7. ~Running(t)
  <2> SUFFICES ASSUME Running(t) PROVE FALSE BY Zenon
  <2>1. api[t].tag \in Tags BY <1>1, Zenon DEF Running, Good, Tagged
  <2>2. ~Holding(t) BY <1>3, <2>1, Zenon DEF Holding, Holds
  <2> QED BY <1>1, <1>3, <2>2 DEF Good, Tagged
<1>8. ~Running(t)' BY <1>3, <1>7, Zenon DEF Running
<1>9. \A r \in Requests \ {t} : Good(r)'
  <2>1. \A r \in Requests \ {t} : tfJob'[r] = tfJob[r] BY <1>1, <1>3, Zenon DEF TraceTypes
  <2>2. \A r \in Requests \ {t} : r \in queue => r \in queue' BY <1>3, Zenon
  <2>3. ASSUME NEW r \in Requests \ {t}, NEW j \in Tags, tags[j] = r PROVE tags'[j] = r
    <3>1. j # k BY <1>2, <2>3, TraceflowAssumption
    <3> QED BY <1>1, <1>3, <2>3, <3>1, Zenon DEF TraceTypes
  <2> QED BY <1>3, <2>1, <2>2, <2>3, OthersAreGood, Zenon
<1>10. Good(t)'
  <2>1. tfView[t].version <= tfView[t].version
    BY <1>1, ObjectFields DEF TraceTypes
  <2>2. Copies(t)' BY <1>1, <1>3, <1>4, <1>6, <2>1, Zenon DEF Good, Copies, AgentCopy
  <2>3. Past(t)' BY <1>1, <1>3, Zenon DEF Good, Past
  <2>4. Writes(t)' BY <1>2, <1>3, <1>4, <1>6, <1>8, Zenon DEF Writes
  <2>5. Tagged(t)' BY <1>1, <1>3, <1>8, Zenon DEF Good, Tagged
  <2> QED BY <2>2, <2>3, <2>4, <2>5, Zenon DEF Good
<1> QED BY <1>5, <1>9, <1>10, Zenon DEF TraceInv

(* checkTraceflowStatus frees a tag only with the decision to close; a      *)
(* request without its tag is closed whenever it is looked at.              *)
LEMMA CheckKeeps == ASSUME TraceInv, NEW t \in Requests, checkTraceflowStatus(t) PROVE TraceInv'
<1>1. Good(t) /\ TraceTypes BY Zenon DEF TraceInv
<1> DEFINE success == tfView[t].sender /\ tfView[t].receiver
           p == IF success THEN "Succeeded" ELSE "Failed"
           w == [pc |-> "write", obj |-> tfView[t], phase |-> p, tag |-> 0]
<1>2. /\ UNCHANGED <<api, late, tfView, shaken, agView, agTags>>
      /\ queue' = queue \ {t} /\ tfView[t].phase = "Running"
      /\ \/ /\ success \/ t \in late
            /\ tfJob' = [tfJob EXCEPT ![t] = w]
            /\ tags' = tags \/ tags' = deallocateTag(t, tfView[t].tag)
         \/ ~success /\ t \notin late /\ UNCHANGED <<tfJob, tags>>
  <2>1. UNCHANGED <<api, late, tfView, shaken, agView, agTags>>
    BY Zenon DEF checkTraceflowStatus, agVars
  <2>2. queue' = queue \ {t} /\ tfView[t].phase = "Running" BY Zenon DEF checkTraceflowStatus, Take
  <2> QED BY <2>1, <2>2, Zenon DEF checkTraceflowStatus, ToWrite, deallocateTagForTF
<1>3. w \in Jobs /\ w.pc = "write" /\ w.obj = tfView[t] /\ w.phase \in Finished /\ w.tag = 0
  <2>1. 0 \in 0 .. MaxTag BY TraceflowAssumption
  <2>2. tfView[t] \in Objects BY <1>1, Zenon DEF TraceTypes
  <2>3. p \in Finished BY Zenon DEF Finished
  <2> QED BY <2>1, <2>2, <2>3, Zenon DEF Jobs, Phases
<1>4. tags' = tags \/ tags' = deallocateTag(t, tfView[t].tag) BY <1>2, Zenon
<1>5. /\ tags' \in [Tags -> Requests \cup {NoName}]
      /\ \A r \in Requests \ {t}, j \in Tags : tags[j] = r => tags'[j] = r
  <2>1. /\ deallocateTag(t, tfView[t].tag) \in [Tags -> Requests \cup {NoName}]
        /\ \A r \in Requests \ {t}, j \in Tags : tags[j] = r => deallocateTag(t, tfView[t].tag)[j] = r
    BY <1>1, OthersKeepTags
  <2> QED BY <1>1, <1>4, <2>1, Zenon DEF TraceTypes
<1> HIDE DEF w, p
<1>6. tfJob' = [tfJob EXCEPT ![t] = w] \/ tfJob' = tfJob BY <1>2, Zenon
<1>7. TraceTypes'
  <2>1. tfJob' \in [Requests -> Jobs] BY <1>1, <1>3, <1>6, Zenon DEF TraceTypes
  <2>2. UNCHANGED <<api, tfView, agView, agTags>> BY <1>2, Zenon
  <2> QED BY <1>1, <1>5, <2>1, <2>2, Zenon DEF TraceTypes
<1>8. \A r \in Requests \ {t} : Good(r)'
  <2>1. \A r \in Requests \ {t} : tfJob'[r] = tfJob[r] BY <1>1, <1>6, Zenon DEF TraceTypes
  <2>2. \A r \in Requests \ {t} : r \in queue => r \in queue' BY <1>2, Zenon
  <2> QED BY <1>2, <1>5, <2>1, <2>2, OthersAreGood, Zenon
<1>9. CASE (success \/ t \in late) /\ tfJob' = [tfJob EXCEPT ![t] = w]
  <2>1. tfJob'[t] = w BY <1>1, <1>9, Zenon DEF TraceTypes
  <2>2. tfView[t].version <= tfView[t].version BY <1>1, ObjectFields DEF TraceTypes
  <2>3. Copies(t)' BY <1>1, <1>2, <1>3, <2>1, <2>2, Zenon DEF Good, Copies, AgentCopy
  <2>4. Past(t)' BY <1>1, <1>2, Zenon DEF Good, Past
  <2>5. Writes(t)' BY <1>2, <1>3, <2>1, Zenon DEF Writes
  <2>6. Closing(t)' BY <1>3, <2>1, Zenon DEF Closing
  <2>7. Tagged(t)' BY <1>1, <1>2, <1>9, <2>6, Zenon DEF Good, Tagged, Running
  <2>8. Good(t)' BY <2>3, <2>4, <2>5, <2>7, Zenon DEF Good
  <2> QED BY <1>7, <1>8, <2>8, Zenon DEF TraceInv
<1>10. CASE ~success /\ t \notin late /\ UNCHANGED <<tfJob, tags>>
  <2>1. ~Running(t) \/ Holding(t) BY <1>1, <1>10, Zenon DEF Good, Tagged
  <2>2. Copies(t)' BY <1>1, <1>2, <1>10, Zenon DEF Good, Copies, AgentCopy
  <2>3. Past(t)' BY <1>1, <1>2, Zenon DEF Good, Past
  <2>4. Writes(t)' BY <1>1, <1>2, <1>10, Zenon DEF Good, Writes, Accepted, Running
  <2>5. Tagged(t)' BY <1>1, <1>2, <1>10, <2>1, Zenon DEF Good, Tagged, Running, Holding
  <2>6. Good(t)' BY <2>2, <2>3, <2>4, <2>5, Zenon DEF Good
  <2> QED BY <1>7, <1>8, <2>6, Zenon DEF TraceInv
<1> QED BY <1>2, <1>9, <1>10, Zenon

(* The other outcomes of syncTraceflow concern no request that runs without *)
(* its tag: the lister would show it running.                               *)
LEMMA SyncKeeps == ASSUME TraceInv, NEW t \in Requests, syncTraceflow(t) PROVE TraceInv'
<1>1. Good(t) /\ TraceTypes BY Zenon DEF TraceInv
<1>2. /\ UNCHANGED <<api, late, tfView, tfJob, shaken, agView, agTags>>
      /\ tfView[t].phase # "Running"
  <2>1. UNCHANGED <<api, late, tfView, tfJob, shaken, agView, agTags>> BY Zenon DEF syncTraceflow, agVars
  <2>2. tfView[t].phase \in {"Pending", "Gone", "Succeeded", "Failed"} BY Zenon DEF syncTraceflow
  <2> QED BY <2>1, <2>2
<1>3. tags' = tags \/ (tfView[t].phase = "Failed" /\ tags' = deallocateTag(t, tfView[t].tag))
  BY Zenon DEF syncTraceflow, deallocateTagForTF
<1>4. \A r \in Requests \ {t} : r \in queue => r \in queue' BY Zenon DEF syncTraceflow, Take
<1>5. /\ tags' \in [Tags -> Requests \cup {NoName}]
      /\ \A r \in Requests \ {t}, j \in Tags : tags[j] = r => tags'[j] = r
  <2>1. /\ deallocateTag(t, tfView[t].tag) \in [Tags -> Requests \cup {NoName}]
        /\ \A r \in Requests \ {t}, j \in Tags : tags[j] = r => deallocateTag(t, tfView[t].tag)[j] = r
    BY <1>1, OthersKeepTags
  <2> QED BY <1>1, <1>3, <2>1, Zenon DEF TraceTypes
<1>6. TraceTypes' BY <1>1, <1>2, <1>5, Zenon DEF TraceTypes
<1>7. \A r \in Requests \ {t} : Good(r)' BY <1>2, <1>4, <1>5, OthersAreGood, Zenon
<1>8. tfJob[t].pc # "write" BY DEF syncTraceflow, NoWork
<1>9. Running(t) => Holding(t) /\ tags' = tags
  <2>1. Running(t) => Holding(t) BY <1>1, <1>2, Zenon DEF Good, Tagged
  <2>2. tfView[t].phase = "Failed" => ~Running(t) BY <1>1 DEF Good, Past, Running, Finished
  <2> QED BY <1>3, <2>1, <2>2, Zenon
<1>10. Good(t)'
  <2>1. Copies(t)' BY <1>1, <1>2, Zenon DEF Good, Copies, AgentCopy
  <2>2. Past(t)' BY <1>1, <1>2, Zenon DEF Good, Past
  <2>3. Writes(t)' BY <1>2, <1>8, Zenon DEF Writes
  <2>4. Tagged(t)' BY <1>1, <1>2, <1>9, Zenon DEF Good, Tagged, Running, Holding
  <2> QED BY <2>1, <2>2, <2>3, <2>4, Zenon DEF Good
<1> QED BY <1>6, <1>7, <1>10, Zenon DEF TraceInv

(* What updateTraceflowStatus writes when it is accepted: its copy was the  *)
(* current object, so a start finds a request that is pending.              *)
LEMMA WriteIs ==
  ASSUME TraceInv, NEW t \in Requests, tfJob[t].pc = "write", Accepted(t, tfJob[t].obj),
         api' = Updated(t, Write(t))
  PROVE /\ api' \in [Requests -> Objects] /\ api'[t] \in Objects
        /\ \A r \in Requests \ {t} : api'[r] = api[r]
        /\ api'[t].version = api[t].version + 1
        /\ api'[t].phase = tfJob[t].phase /\ api'[t].tag = tfJob[t].tag
        /\ tfView[t] = api[t] /\ tfJob[t].obj = api[t]
<1>1. Good(t) /\ TraceTypes BY Zenon DEF TraceInv
<1>2. tfJob[t] \in Jobs BY <1>1, Zenon DEF TraceTypes
<1>3. tfJob[t].obj \in Objects /\ tfJob[t].phase \in Phases /\ tfJob[t].tag \in 0 .. MaxTag
  BY <1>2, Zenon DEF Jobs
<1>4. /\ tfView[t].version \in Nat /\ api[t].version \in Nat /\ tfJob[t].obj.version \in Nat
      /\ api[t].version + 1 \in Nat
  <2>1. tfView[t].version \in Nat /\ api[t].version \in Nat /\ tfJob[t].obj.version \in Nat
    BY <1>1, <1>3, ObjectFields, Zenon DEF TraceTypes
  <2> QED BY <2>1
<1>5. tfView[t].version = api[t].version /\ tfJob[t].obj.version = tfView[t].version
  <2>1. /\ tfJob[t].obj.version <= tfView[t].version /\ tfView[t].version <= api[t].version
        /\ tfJob[t].obj.version = api[t].version
    BY <1>1, Zenon DEF Good, Copies, Accepted
  <2> QED BY <1>4, <2>1
<1>6. tfView[t] = api[t] /\ tfJob[t].obj = api[t] BY <1>1, <1>5, Zenon DEF Good, Copies
<1> DEFINE o == [[tfJob[t].obj EXCEPT !.phase = tfJob[t].phase, !.tag = tfJob[t].tag]
                   EXCEPT !.version = api[t].version + 1]
<1>7. /\ o \in Objects /\ o.version = api[t].version + 1 /\ o.phase = tfJob[t].phase
      /\ o.tag = tfJob[t].tag
  BY <1>3, <1>4, Zenon DEF Objects
<1>8. api' = [api EXCEPT ![t] = o] BY Zenon DEF Updated, Write
<1> HIDE DEF o
<1>9. api' \in [Requests -> Objects] /\ api'[t] = o /\ \A r \in Requests \ {t} : api'[r] = api[r]
  BY <1>1, <1>7, <1>8, Zenon DEF TraceTypes
<1> QED BY <1>6, <1>7, <1>9, Zenon

(* updateTraceflowStatus.                                                   *)
LEMMA UpdateKeeps == ASSUME TraceInv, NEW t \in Requests, updateTraceflowStatus(t) PROVE TraceInv'
<1>1. Good(t) /\ TraceTypes BY Zenon DEF TraceInv
<1>2. /\ tfJob[t].pc = "write" /\ Accepted(t, tfJob[t].obj) /\ api' = Updated(t, Write(t))
      /\ tfJob' = [tfJob EXCEPT ![t] = NoWork]
      /\ UNCHANGED <<late, tfView, queue, tags, agView, agTags, shaken>>
  BY Zenon DEF updateTraceflowStatus, agVars
<1>3. /\ api' \in [Requests -> Objects] /\ api'[t] \in Objects
      /\ \A r \in Requests \ {t} : api'[r] = api[r]
      /\ api'[t].version = api[t].version + 1
      /\ api'[t].phase = tfJob[t].phase /\ api'[t].tag = tfJob[t].tag
      /\ tfView[t] = api[t] /\ tfJob[t].obj = api[t]
  BY <1>2, WriteIs
<1>4. NoWork \in Jobs /\ NoWork.pc = "idle"
  BY TraceflowAssumption DEF NoWork, Jobs, Gone, Objects, Phases
<1>5. TraceTypes' BY <1>1, <1>2, <1>3, <1>4, Zenon DEF TraceTypes
<1>6. tfJob'[t] = NoWork /\ \A r \in Requests \ {t} : tfJob'[r] = tfJob[r]
  BY <1>1, <1>2, Zenon DEF TraceTypes
<1>7. \A r \in Requests \ {t} : Good(r)' BY <1>2, <1>3, <1>6, OthersAreGood, Zenon
<1>8. agView[t] \in Objects /\ agView[t].version <= api[t].version
  BY <1>1, Zenon DEF TraceTypes, Good, Copies, AgentCopy
<1>9. CASE tfJob[t].phase \in Finished
  <2>1. Good(t)' BY <1>1, <1>2, <1>3, <1>6, <1>8, <1>9, EndIsGood, Zenon
  <2> QED BY <1>5, <1>7, <2>1, Zenon DEF TraceInv
<1>10. CASE tfJob[t].phase \notin Finished
  <2>1. /\ tfJob[t].phase = "Running" /\ tfJob[t].tag \in Tags /\ tags[tfJob[t].tag] = t
        /\ api[t].phase = "Pending"
    BY <1>1, <1>2, <1>3, <1>10, Zenon DEF Good, Writes
  <2>2. api[t].version \in Nat /\ agView[t].version \in Nat
    BY <1>1, <1>8, ObjectFields, Zenon DEF TraceTypes
  <2>3. Copies(t)'
    <3>1. /\ tfView'[t].version <= api'[t].version /\ tfView'[t].version # api'[t].version
          /\ agView'[t].version <= api'[t].version /\ agView'[t].version # api'[t].version
          /\ api'[t].version > 0
      BY <1>2, <1>3, <1>8, <2>2
    <3>2. AgentCopy(t)' BY <3>1, Zenon DEF AgentCopy
    <3> QED BY <1>4, <1>6, <3>1, <3>2 DEF Copies
  <2>4. Past(t)' BY <1>2, <1>3, <2>1 DEF Past, Finished
  <2>5. Writes(t)' BY <1>4, <1>6 DEF Writes
  <2>6. Tagged(t)' BY <1>2, <1>3, <2>1, Zenon DEF Tagged, Holding
  <2>7. Good(t)' BY <2>3, <2>4, <2>5, <2>6, Zenon DEF Good
  <2> QED BY <1>5, <1>7, <2>7, Zenon DEF TraceInv
<1> QED BY <1>9, <1>10, Zenon

(* A write that fails, or seems to: a start gives its tag back, and there   *)
(* was no running request to lose it; an end is queued again.               *)
LEMMA FailKeeps == ASSUME TraceInv, NEW t \in Requests, updateTraceflowStatusFails(t) PROVE TraceInv'
<1>1. Good(t) /\ TraceTypes BY Zenon DEF TraceInv
<1>2. /\ tfJob[t].pc = "write" /\ tfJob' = [tfJob EXCEPT ![t] = NoWork]
      /\ queue' = queue \cup {t} /\ tags' = GiveBack(t)
      /\ UNCHANGED <<late, tfView, agView, agTags>>
  BY Zenon DEF updateTraceflowStatusFails, agVars
<1>3. \/ UNCHANGED <<api, shaken>>
      \/ /\ Accepted(t, tfJob[t].obj) /\ api' = Updated(t, Write(t)) /\ shaken' = shaken \cup {t}
  BY Zenon DEF updateTraceflowStatusFails
<1>4. NoWork \in Jobs /\ NoWork.pc = "idle"
  BY TraceflowAssumption DEF NoWork, Jobs, Gone, Objects, Phases
<1>5. tfJob'[t] = NoWork /\ \A r \in Requests \ {t} : tfJob'[r] = tfJob[r]
  BY <1>1, <1>2, Zenon DEF TraceTypes
<1>6. /\ tags' \in [Tags -> Requests \cup {NoName}]
      /\ \A r \in Requests \ {t}, j \in Tags : tags[j] = r => tags'[j] = r
  <2>1. /\ deallocateTag(t, tfJob[t].tag) \in [Tags -> Requests \cup {NoName}]
        /\ \A r \in Requests \ {t}, j \in Tags : tags[j] = r => deallocateTag(t, tfJob[t].tag)[j] = r
    BY <1>1, OthersKeepTags
  <2> QED BY <1>1, <1>2, <2>1, Zenon DEF TraceTypes, GiveBack
<1>7. CASE UNCHANGED <<api, shaken>>
  <2>1. TraceTypes' BY <1>1, <1>2, <1>4, <1>6, <1>7, Zenon DEF TraceTypes
  <2>2. \A r \in Requests \ {t} : Good(r)' BY <1>2, <1>5, <1>6, <1>7, OthersAreGood, Zenon
  <2>3. Copies(t)' BY <1>1, <1>2, <1>4, <1>5, <1>7 DEF Good, Copies, AgentCopy
  <2>4. Past(t)' BY <1>1, <1>2, <1>7, Zenon DEF Good, Past
  <2>5. Writes(t)' BY <1>4, <1>5 DEF Writes
  <2>6. Running(t) => tags' = tags
    <3>1. Running(t) => tfJob[t].tag = 0 BY <1>1, <1>2, Zenon DEF Good, Writes
    <3> QED BY <1>2, <3>1, Zenon DEF GiveBack
  <2>7. Tagged(t)' BY <1>1, <1>2, <1>7, <2>6, Zenon DEF Good, Tagged, Running, Holding
  <2>8. Good(t)' BY <2>3, <2>4, <2>5, <2>7, Zenon DEF Good
  <2> QED BY <2>1, <2>2, <2>8, Zenon DEF TraceInv
<1>8. CASE /\ Accepted(t, tfJob[t].obj) /\ api' = Updated(t, Write(t)) /\ shaken' = shaken \cup {t}
  <2>1. /\ api' \in [Requests -> Objects] /\ api'[t] \in Objects
        /\ \A r \in Requests \ {t} : api'[r] = api[r]
        /\ api'[t].version = api[t].version + 1
        /\ api'[t].phase = tfJob[t].phase /\ api'[t].tag = tfJob[t].tag
        /\ tfView[t] = api[t] /\ tfJob[t].obj = api[t]
    BY <1>2, <1>8, WriteIs
  <2>2. TraceTypes' BY <1>1, <1>2, <1>4, <1>6, <2>1, Zenon DEF TraceTypes
  <2>3. \A r \in Requests \ {t} : (r \in shaken' <=> r \in shaken) /\ (r \in queue => r \in queue')
    BY <1>2, <1>8, Zenon
  <2>4. \A r \in Requests \ {t} : Good(r)' BY <1>2, <1>5, <1>6, <2>1, <2>3, OthersAreGood, Zenon
  <2>5. agView[t] \in Objects /\ agView[t].version <= api[t].version
    BY <1>1, Zenon DEF TraceTypes, Good, Copies, AgentCopy
  <2>6. CASE tfJob[t].phase \in Finished
    <3>1. Good(t)' BY <1>1, <1>2, <1>5, <2>1, <2>5, <2>6, EndIsGood, Zenon
    <3> QED BY <2>2, <2>4, <3>1, Zenon DEF TraceInv
  <2>7. CASE tfJob[t].phase \notin Finished
    <3>1. tfJob[t].phase = "Running" /\ tfJob[t].tag \in Tags /\ api[t].phase = "Pending"
      BY <1>1, <1>2, <2>1, <2>7, Zenon DEF Good, Writes
    <3>2. api[t].version \in Nat /\ agView[t].version \in Nat
      BY <1>1, <2>5, ObjectFields, Zenon DEF TraceTypes
    <3>3. Copies(t)'
      <4>1. /\ tfView'[t].version <= api'[t].version /\ tfView'[t].version # api'[t].version
            /\ agView'[t].version <= api'[t].version /\ agView'[t].version # api'[t].version
            /\ api'[t].version > 0
        BY <1>2, <2>1, <2>5, <3>2
      <4>2. AgentCopy(t)' BY <4>1, Zenon DEF AgentCopy
      <4> QED BY <1>4, <1>5, <4>1, <4>2 DEF Copies
    <3>4. Past(t)' BY <1>2, <2>1, <3>1 DEF Past, Finished
    <3>5. Writes(t)' BY <1>4, <1>5 DEF Writes
    <3>6. Tagged(t)' BY <1>8, <2>1, <3>1, Zenon DEF Tagged, Running
    <3>7. Good(t)' BY <3>3, <3>4, <3>5, <3>6, Zenon DEF Good
    <3> QED BY <2>2, <2>4, <3>7, Zenon DEF TraceInv
  <2> QED BY <2>6, <2>7, Zenon
<1> QED BY <1>3, <1>7, <1>8, Zenon

(* Run reads the tags in use back before the workers start.                 *)
LEMMA RestartKeeps == ASSUME TraceInv, Restart PROVE TraceInv'
<1>1. TraceTypes /\ \A t \in Requests : Good(t) BY Zenon DEF TraceInv
<1> DEFINE users(k) == {t \in Requests : api[t].phase = "Running" /\ api[t].tag = k}
<1>2. PICK own \in [Tags -> Requests \cup {NoName}] :
        /\ \A k \in Tags : IF users(k) = {} THEN own[k] = NoName ELSE own[k] \in users(k)
        /\ tags' = own
        /\ shaken' = shaken \cup {t \in Requests : api[t].phase = "Running" /\ \A k \in Tags : own[k] # t}
  BY Zenon DEF Restart
<1>3. tfView' = api /\ tfJob' = [t \in Requests |-> NoWork] /\ UNCHANGED <<api, late, agView, agTags>>
  BY Zenon DEF Restart, agVars
<1>4. NoWork \in Jobs /\ NoWork.pc = "idle"
  BY TraceflowAssumption DEF NoWork, Jobs, Gone, Objects, Phases
<1>5. TraceTypes' BY <1>1, <1>2, <1>3, <1>4, Zenon DEF TraceTypes
<1>6. ASSUME NEW t \in Requests PROVE Good(t)'
  <2>1. tfJob'[t] = NoWork BY <1>3, Zenon
  <2>2. api[t].version \in Nat BY <1>1, ObjectFields, Zenon DEF TraceTypes
  <2>3. Copies(t)' BY <1>1, <1>3, <1>4, <2>1, <2>2 DEF Good, Copies, AgentCopy
  <2>4. Past(t)' BY <1>3 DEF Past, Finished
  <2>5. Writes(t)' BY <1>4, <2>1 DEF Writes
  <2>6. ASSUME Running(t)' PROVE Holding(t)'
    <3>1. api[t].phase = "Running" /\ t \notin shaken' BY <1>3, <2>6, Zenon DEF Running
    <3>2. PICK k \in Tags : own[k] = t BY <1>2, <3>1, Zenon
    <3>3. t # NoName BY TraceflowAssumption
    <3>4. t \in users(k) BY <1>2, <3>2, <3>3, Zenon
    <3>5. api[t].tag = k BY <3>4, Zenon
    <3> QED BY <1>2, <1>3, <3>2, <3>5, Zenon DEF Holding
  <2>7. Tagged(t)' BY <1>1, <1>3, <2>6, Zenon DEF Good, Tagged
  <2> QED BY <2>3, <2>4, <2>5, <2>7, Zenon DEF Good
<1> QED BY <1>5, <1>6, Zenon DEF TraceInv

(* The induction step over the user, the informers, the controller's        *)
(* workers and the agent.                                                   *)
LEMMA TraceStep == TraceInv /\ [TraceNext]_tfVars => TraceInv'
<1> SUFFICES ASSUME TraceInv, [TraceNext]_tfVars PROVE TraceInv' BY Zenon
<1>1. CASE UNCHANGED tfVars
  <2>1. UNCHANGED <<api, late, tfView, queue, tfJob, tags, agView, agTags, shaken>>
    BY <1>1, Zenon DEF tfVars, ctlVars, agVars
  <2>2. ASSUME NEW t \in Requests PROVE Good(t)'
    <3>1. Good(t) BY Zenon DEF TraceInv
    <3>2. AgentCopy(t)' BY <2>1, <3>1, Zenon DEF Good, Copies, AgentCopy
    <3> QED BY <2>1, <3>1, <3>2, UntouchedIsGood, Zenon DEF Untouched
  <2> QED BY <2>1, <2>2, Zenon DEF TraceInv, TraceTypes
<1>2. CASE TraceNext
  <2>1. CASE checkTraceflowTimeout \/ Restart \/ AgRestart
    BY <2>1, TimeoutKeeps, RestartKeeps, AgentKeeps, Zenon
  <2>2. ASSUME NEW t \in Requests, Worker(t) PROVE TraceInv'
    BY <2>2, StartKeeps, CheckKeeps, SyncKeeps, UpdateKeeps, FailKeeps, Zenon DEF Worker
  <2>3. ASSUME NEW t \in Requests,
               CreateTraceflow(t) \/ DeleteTraceflow(t) \/ TimePasses(t) \/ Observe(t)
        PROVE TraceInv'
    BY <2>3, UserKeeps, ObserveKeeps, Zenon
  <2>4. ASSUME NEW t \in Requests, AgStop(t) \/ AgStart(t) \/ AgStartFails(t) PROVE TraceInv'
    BY <2>4, AgentKeeps, ErrorKeeps, Zenon
  <2>5. ASSUME NEW t \in Requests, NEW k \in Tags, HandlePacketIn(t, k) \/ injectPacketFails(t, k)
        PROVE TraceInv'
    BY <2>5, ResultKeeps, ErrorKeeps, Zenon
  <2> QED BY <1>2, <2>1, <2>2, <2>3, <2>4, <2>5, Zenon DEF TraceNext
<1> QED BY <1>1, <1>2, Zenon

(* A request that the API shows as running holds the tag in its status,     *)
(* unless it is queued or a worker is about to close it, for any number of  *)
(* requests, tags, failed and conflicting writes and restarts of controller *)
(* and agent.                                                               *)
THEOREM RunningIsTagged == TraceSpec => []RunningHoldsTag
<1>1. TraceInv => RunningHoldsTag
  BY Zenon DEF TraceInv, Good, Tagged, Running, Holding, Closing, RunningHoldsTag
<1> QED BY <1>1, TraceInitially, TraceStep, PTL DEF TraceSpec

(* A step does not take a request from an end back to work.                 *)
Stays(t) == api[t].phase \in Finished => api'[t].phase \in Finished \cup {"Gone"}

(* No action does: a start is only accepted by an object that is pending.   *)
LEMMA PhaseStays ==
  ASSUME TraceInv, TraceNext, NEW t \in Requests
  PROVE Stays(t)
<1>1. Good(t) /\ TraceTypes BY Zenon DEF TraceInv
<1>2. CASE api'[t] = api[t] BY <1>2, Zenon DEF Stays
<1>3. CASE checkTraceflowTimeout \/ Restart \/ AgRestart
  BY <1>2, <1>3, Zenon DEF checkTraceflowTimeout, Restart, AgRestart
<1>4. ASSUME NEW u \in Requests, Observe(u) \/ TimePasses(u) \/ startTraceflow(u) \/
               checkTraceflowStatus(u) \/ syncTraceflow(u) \/ AgStop(u) \/ AgStart(u)
      PROVE Stays(t)
  <2>1. api' = api BY <1>4, Zenon
    DEF Observe, TimePasses, startTraceflow, checkTraceflowStatus, syncTraceflow, AgStop, AgStart
  <2> QED BY <1>2, <2>1, Zenon
<1>5. ASSUME NEW u \in Requests, CreateTraceflow(u) \/ DeleteTraceflow(u) PROVE Stays(t)
  <2>1. CASE u # t BY <1>1, <1>2, <1>5, <2>1, Zenon DEF CreateTraceflow, DeleteTraceflow, TraceTypes
  <2>2. CASE CreateTraceflow(t) BY <2>2 DEF CreateTraceflow, Finished, Stays
  <2>3. CASE DeleteTraceflow(t)
    <3>1. api'[t] = [api[t] EXCEPT !.phase = "Gone", !.version = @ + 1]
      BY <1>1, <2>3, Zenon DEF DeleteTraceflow, TraceTypes
    <3>2. api[t] \in Objects BY <1>1, Zenon DEF TraceTypes
    <3> QED BY <3>1, <3>2, Zenon DEF Objects, Stays
  <2> QED BY <1>5, <2>1, <2>2, <2>3, Zenon
<1>6. ASSUME NEW u \in Requests, errorTraceflowCRD(u) PROVE Stays(t)
  <2>1. CASE u # t BY <1>1, <1>2, <1>6, <2>1, Zenon DEF errorTraceflowCRD, TraceTypes
  <2>2. CASE u = t
    <3>1. api'[t] = api[t] \/ api'[t] = [api[t] EXCEPT !.phase = "Failed", !.version = @ + 1]
      BY <1>1, <1>6, <2>2, Zenon DEF errorTraceflowCRD, TraceTypes
    <3>2. api[t] \in Objects BY <1>1, Zenon DEF TraceTypes
    <3> QED BY <1>2, <3>1, <3>2, Zenon DEF Objects, Stays, Finished
  <2> QED BY <2>1, <2>2, Zenon
<1>7. ASSUME NEW u \in Requests, updateTraceflowStatus(u) \/ updateTraceflowStatusFails(u) PROVE Stays(t)
  <2>1. /\ tfJob[u].pc = "write"
        /\ api' = api \/ (Accepted(u, tfJob[u].obj) /\ api' = Updated(u, Write(u)))
    BY <1>7, Zenon DEF updateTraceflowStatus, updateTraceflowStatusFails
  <2>2. CASE api' = api BY <1>2, <2>2, Zenon
  <2>3. CASE Accepted(u, tfJob[u].obj) /\ api' = Updated(u, Write(u))
    <3>1. /\ \A r \in Requests \ {u} : api'[r] = api[r]
          /\ api'[u].phase = tfJob[u].phase /\ tfJob[u].obj = api[u]
      BY <2>1, <2>3, WriteIs
    <3>2. Writes(u) BY Zenon DEF TraceInv, Good
    <3>3. tfJob[u].phase \in Finished \/ tfJob[u].obj.phase = "Pending" BY <2>1, <3>2, Zenon DEF Writes
    <3> QED BY <1>2, <3>1, <3>3 DEF Stays, Finished
  <2> QED BY <2>1, <2>2, <2>3, Zenon
<1>8. ASSUME NEW u \in Requests, NEW k \in Tags, HandlePacketIn(u, k) PROVE Stays(t)
  <2>1. PICK v : v = agTags[k] BY Zenon
  <2> DEFINE o == [[agView[v] EXCEPT !.receiver = TRUE, !.sender = @ \/ injected[k] # NoName]
                     EXCEPT !.version = api[v].version + 1]
  <2>2. api' = api \/ (v # NoName /\ Accepted(v, agView[v]) /\ api' = [api EXCEPT ![v] = o])
    BY <1>8, <2>1, Zenon DEF HandlePacketIn, Updated
  <2>3. CASE api' = api \/ v # t BY <1>1, <1>2, <2>2, <2>3, Zenon DEF TraceTypes
  <2>4. CASE v = t /\ Accepted(t, agView[t]) /\ api' = [api EXCEPT ![t] = o]
    <3>1. agView[t] = api[t] /\ api[t] \in Objects
      BY <1>1, <2>4, Zenon DEF Accepted, Good, Copies, AgentCopy, TraceTypes
    <3>2. o.phase = api[t].phase BY <2>4, <3>1, Zenon DEF Objects
    <3>3. api'[t] = o BY <1>1, <2>4, Zenon DEF TraceTypes
    <3> QED BY <3>2, <3>3, Zenon DEF Stays
  <2> QED BY <2>2, <2>3, <2>4, Zenon
<1>9. ASSUME NEW u \in Requests, AgStartFails(u) PROVE Stays(t) BY <1>6, <1>9, Zenon DEF AgStartFails
<1>10. ASSUME NEW u \in Requests, NEW k \in Tags, injectPacketFails(u, k) PROVE Stays(t)
  BY <1>6, <1>10, Zenon DEF injectPacketFails
<1> QED BY <1>3, <1>4, <1>5, <1>7, <1>8, <1>9, <1>10, Zenon DEF TraceNext, Worker

(* Once Succeeded or Failed, a Traceflow is never started again by the      *)
(* controller, whatever copy of it a worker still has.                      *)
THEOREM FinishedStaysFinished == TraceSpec => NeverRestarts
<1>1. TraceInv /\ [TraceNext]_tfVars =>
        [\A t \in Requests : api[t].phase \in Finished => api'[t].phase \in Finished \cup {"Gone"}]_tfVars
  BY PhaseStays, Zenon DEF Stays
<1> QED BY <1>1, TraceInitially, TraceStep, PTL DEF TraceSpec, NeverRestarts
=============================================================================
