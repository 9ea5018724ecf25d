------------------------------ MODULE RamStore ------------------------------
(* The in-memory store of antrea-controller (pkg/apiserver/storage/ram) and *)
(* the events that the three stores built on it send to their watchers      *)
(* (pkg/controller/networkpolicy/store).                                    *)
(*                                                                          *)
(* Writers change the content under eventMutex and push an event to the     *)
(* channel incoming.  One dispatcher moves events from there to the channel *)
(* input of every watcher, under watcherMutex.  One goroutine per watcher   *)
(* (process) converts them for its client and pushes them to result.        *)
EXTENDS Integers, Sequences, FiniteSets, Folds

CONSTANTS
    Keys,         \* keys of objects
    Nodes,        \* Nodes, the elements of a span
    Items,        \* elements of a body: rules, members, or <<node, member>>
    Objects,      \* resource -> objects that are written: [span, body]
    Watchers,     \* one per call of Watch
    NodeOf,       \* the Node in the field selector of a watcher, or Nil
    KeyOf,        \* the key in the selector of a watcher, or Nil
    IncomingSize, \* size of incoming (100)
    ChanSize,     \* size of input and of result (watcherChanSize)
    MaxWrites,    \* bound on the number of writes
    Nil

VARIABLES
    resource,        \* "NetworkPolicy", "AddressGroup" or "AppliedToGroup"
    storage,         \* Keys -> objects, Nil when absent
    resourceVersion,
    writer,          \* event of the writer that holds eventMutex, or Nil
    incoming,        \* channel
    dispatch,        \* local state of the dispatcher, or Nil
    watchers,        \* the registered watchers
    initEvents,      \* per watcher: init events not sent yet, then a bookmark
    startRV,         \* per watcher: the resourceVersion passed to process
    input,           \* per watcher: channel
    pending,         \* per watcher: the event process is sending, or Nil
    result,          \* per watcher: channel
    proc,            \* per watcher: "none", "running" or "exited"
    stop,            \* per watcher: "no", "forgotten" or "closed"
    cancelled,       \* watchers whose context is done
    view,            \* per watcher: what its client knows
    synced,          \* watchers whose client has received the bookmark
    history          \* all contents so far, history[rv + 1] after rv

storeVars == <<resource, storage, resourceVersion, writer, history>>
dispatchVars == <<incoming, dispatch>>
processVars == <<initEvents, startRV, pending, proc>>
stopVars == <<watchers, stop, cancelled>>
clientVars == <<view, synced>>
vars == <<storeVars, dispatchVars, processVars, stopVars, clientVars, input, result>>

Bookmark == [type |-> "BOOKMARK"]

(* An object, an event of the store, and a message to a client, which is an *)
(* object, a patch of a group, a deletion or a bookmark.                    *)
Object == [span : SUBSET Nodes, body : SUBSET Items]

Event == [key : Keys, prev : Object \cup {Nil}, curr : Object \cup {Nil}, rv : Nat]

Message ==
    [type : {"ADDED", "MODIFIED"}, key : Keys, body : SUBSET Items]
    \cup [type : {"MODIFIED"}, key : Keys, added : SUBSET Items, removed : SUBSET Items]
    \cup [type : {"DELETED"}, key : Keys] \cup {Bookmark}

Dispatch ==
    [phase : {"taken", "add", "wait", "stop"}, event : Event, todo : SUBSET Watchers,
     blocked : SUBSET Watchers, failed : SUBSET Watchers, fired : BOOLEAN]

ASSUME RamStoreAssumption ==
    /\ DOMAIN Objects \subseteq {"NetworkPolicy", "AddressGroup", "AppliedToGroup"}
    /\ \A r \in DOMAIN Objects : Objects[r] \subseteq Object
    /\ NodeOf \in [Watchers -> Nodes \cup {Nil}]
    /\ KeyOf \in [Watchers -> Keys \cup {Nil}]
    /\ IncomingSize \in Nat \ {0} /\ ChanSize \in Nat \ {0} /\ MaxWrites \in Nat
    /\ Nil \notin Nodes \cup Keys
    /\ Nil \notin Object /\ Nil \notin Event /\ Nil \notin Message /\ Nil \notin Dispatch
    /\ \A body \in SUBSET Items : body # Nil

-----------------------------------------------------------------------------
(* Events and their conversion.                                             *)

keyAndSpanSelectFunc(w, key, obj) ==
    /\ KeyOf[w] # Nil => key = KeyOf[w]
    /\ NodeOf[w] # Nil => NodeOf[w] \in obj.span

(* Init events have been filtered already.                                  *)
isSelected(w, e, isInitEvent) ==
    IF isInitEvent THEN [prev |-> FALSE, curr |-> TRUE]
    ELSE [prev |-> e.prev # Nil /\ keyAndSpanSelectFunc(w, e.key, e.prev),
          curr |-> e.curr # Nil /\ keyAndSpanSelectFunc(w, e.key, e.curr)]

ToNetworkPolicyMsg(obj) == obj.body

ToAddressGroupMsg(obj) == obj.body

(* For a watcher with a Node, only the members on it.                       *)
ToAppliedToGroupMsg(w, obj) ==
    IF NodeOf[w] = Nil THEN obj.body ELSE {x \in obj.body : x[1] = NodeOf[w]}

(* The three stores differ in their conversions: r is the resource.         *)
Body(r, w, obj) ==
    CASE r = "NetworkPolicy" -> ToNetworkPolicyMsg(obj)
      [] r = "AddressGroup" -> ToAddressGroupMsg(obj)
      [] r = "AppliedToGroup" -> ToAppliedToGroupMsg(w, obj)

(* The incremental message for a group: none if the members are the same,   *)
(* even when the span has changed.                                          *)
Patch(key, prev, curr) ==
    IF curr = prev THEN Nil
    ELSE [type |-> "MODIFIED", key |-> key, added |-> curr \ prev, removed |-> prev \ curr]

PatchAddressGroup(e) ==
    Patch(e.key, ToAddressGroupMsg(e.prev), ToAddressGroupMsg(e.curr))

PatchAppliedToGroup(w, e) ==
    Patch(e.key, ToAppliedToGroupMsg(w, e.prev), ToAppliedToGroupMsg(w, e.curr))

Modified(r, w, e) ==
    CASE r = "NetworkPolicy" ->
            [type |-> "MODIFIED", key |-> e.key, body |-> ToNetworkPolicyMsg(e.curr)]
      [] r = "AddressGroup" -> PatchAddressGroup(e)
      [] r = "AppliedToGroup" -> PatchAppliedToGroup(w, e)

(* Slip: an object that leaves the span of the watcher is not reported.     *)
ToWatchEventNoLeave(r, w, e, isInitEvent) ==
    LET selected == isSelected(w, e, isInitEvent)
    IN  CASE e = Bookmark -> Bookmark
          [] e # Bookmark /\ selected.curr /\ ~ selected.prev ->
                [type |-> "ADDED", key |-> e.key, body |-> Body(r, w, e.curr)]
          [] e # Bookmark /\ selected.curr /\ selected.prev -> Modified(r, w, e)
          [] e # Bookmark /\ ~ selected.curr ->
                IF selected.prev /\ e.curr = Nil
                THEN [type |-> "DELETED", key |-> e.key] ELSE Nil

ToWatchEvent(r, w, e, isInitEvent) ==
    LET selected == isSelected(w, e, isInitEvent)
    IN  CASE e = Bookmark -> Bookmark
          [] e # Bookmark /\ ~ selected.curr /\ ~ selected.prev -> Nil
          [] e # Bookmark /\ selected.curr /\ ~ selected.prev ->
                [type |-> "ADDED", key |-> e.key, body |-> Body(r, w, e.curr)]
          [] e # Bookmark /\ selected.curr /\ selected.prev -> Modified(r, w, e)
          [] e # Bookmark /\ ~ selected.curr /\ selected.prev ->
                [type |-> "DELETED", key |-> e.key]

-----------------------------------------------------------------------------
(* Writers.  The content changes before the event is in incoming; eventMutex *)
(* is held until it is, however long incoming is full.                      *)

(* No event for an equal object.                                            *)
genEvent(key, prev, curr, rv) ==
    IF prev = curr THEN Nil ELSE [key |-> key, prev |-> prev, curr |-> curr, rv |-> rv]

(* The resourceVersion is taken whether there is an event or not.           *)
Write(key, obj) ==
    /\ writer = Nil
    /\ resourceVersion < MaxWrites
    /\ resourceVersion' = resourceVersion + 1
    /\ storage' = [storage EXCEPT ![key] = obj]
    /\ history' = Append(history, storage')
    /\ writer' = genEvent(key, storage[key], obj, resourceVersion')
    /\ UNCHANGED <<resource, dispatchVars, processVars, stopVars, clientVars, input, result>>

Create(key, obj) == storage[key] = Nil /\ Write(key, obj)

Update(key, obj) == storage[key] # Nil /\ Write(key, obj)

Delete(key) == storage[key] # Nil /\ Write(key, Nil)

processEvent ==
    /\ writer # Nil
    /\ Len(incoming) < IncomingSize
    /\ incoming' = Append(incoming, writer)
    /\ writer' = Nil
    /\ UNCHANGED <<resource, storage, resourceVersion, history, dispatch, processVars,
                   stopVars, clientVars, input, result>>

-----------------------------------------------------------------------------
(* The dispatcher.  Between Take and Unlock's end it owns one event; in     *)
(* phases "add" and "wait" it holds watcherMutex for reading.               *)

WatcherMutexFree == dispatch # Nil => dispatch.phase \in {"taken", "stop"}

DispatchTake ==
    /\ dispatch = Nil /\ incoming # <<>>
    /\ dispatch' = [phase |-> "taken", event |-> Head(incoming), todo |-> {},
                    blocked |-> {}, failed |-> {}, fired |-> FALSE]
    /\ incoming' = Tail(incoming)
    /\ UNCHANGED <<storeVars, processVars, stopVars, clientVars, input, result>>

DispatchLock ==
    /\ dispatch # Nil /\ dispatch.phase = "taken"
    /\ dispatch' = [dispatch EXCEPT !.phase = "add", !.todo = watchers]
    /\ UNCHANGED <<incoming, storeVars, processVars, stopVars, clientVars, input, result>>

nonBlockingAdd(w) ==
    /\ dispatch # Nil /\ dispatch.phase = "add" /\ w \in dispatch.todo
    /\ IF Len(input[w]) < ChanSize
       THEN /\ input' = [input EXCEPT ![w] = Append(@, dispatch.event)]
            /\ dispatch' = [dispatch EXCEPT !.todo = @ \ {w}]
       ELSE /\ dispatch' = [dispatch EXCEPT !.todo = @ \ {w}, !.blocked = @ \cup {w}]
            /\ UNCHANGED input
    /\ UNCHANGED <<incoming, storeVars, processVars, stopVars, clientVars, result>>

DispatchWait ==
    /\ dispatch # Nil /\ dispatch.phase = "add" /\ dispatch.todo = {}
    /\ dispatch' = [dispatch EXCEPT !.phase = "wait"]
    /\ UNCHANGED <<incoming, storeVars, processVars, stopVars, clientVars, input, result>>

add(w) ==
    /\ dispatch # Nil /\ dispatch.phase = "wait" /\ w \in dispatch.blocked
    /\ Len(input[w]) < ChanSize
    /\ input' = [input EXCEPT ![w] = Append(@, dispatch.event)]
    /\ dispatch' = [dispatch EXCEPT !.blocked = @ \ {w}]
    /\ UNCHANGED <<incoming, storeVars, processVars, stopVars, clientVars, result>>

(* Slip: the dispatcher waits for a slow watcher without a timeout.         *)
addTimeoutNever(w) == FALSE /\ w \in Watchers /\ UNCHANGED vars

(* The timer may win over room in the channel the first time; once it has   *)
(* fired, a watcher fails only when its channel is full.                    *)
addTimeout(w) ==
    /\ dispatch # Nil /\ dispatch.phase = "wait" /\ w \in dispatch.blocked
    /\ dispatch.fired => Len(input[w]) = ChanSize
    /\ dispatch' = [dispatch EXCEPT !.blocked = @ \ {w}, !.failed = @ \cup {w},
                                    !.fired = TRUE]
    /\ UNCHANGED <<incoming, storeVars, processVars, stopVars, clientVars, input, result>>

DispatchUnlock ==
    /\ dispatch # Nil /\ dispatch.phase = "wait" /\ dispatch.blocked = {}
    /\ dispatch' = IF dispatch.failed = {} THEN Nil ELSE [dispatch EXCEPT !.phase = "stop"]
    /\ UNCHANGED <<incoming, storeVars, processVars, stopVars, clientVars, input, result>>

-----------------------------------------------------------------------------
(* Stop: forget takes watcherMutex, then done and input are closed.         *)

Forget(w) ==
    /\ stop[w] = "no" /\ WatcherMutexFree
    /\ watchers' = watchers \ {w}
    /\ stop' = [stop EXCEPT ![w] = "forgotten"]

(* The API server's handler stops the watcher when the request ends.        *)
ClientStop(w) ==
    /\ proc[w] # "none"
    /\ Forget(w)
    /\ UNCHANGED <<cancelled, storeVars, dispatchVars, processVars, clientVars,
                   input, result>>

DispatchForget(w) ==
    /\ dispatch # Nil /\ dispatch.phase = "stop" /\ w \in dispatch.failed
    /\ Forget(w)
    /\ UNCHANGED <<cancelled, storeVars, dispatchVars, processVars, clientVars,
                   input, result>>

StopClose(w) ==
    /\ stop[w] = "forgotten"
    /\ stop' = [stop EXCEPT ![w] = "closed"]
    /\ UNCHANGED <<watchers, cancelled, storeVars, dispatchVars, processVars,
                   clientVars, input, result>>

(* Stop returns to the dispatcher once some caller has completed it.        *)
DispatchStopped(w) ==
    /\ dispatch # Nil /\ dispatch.phase = "stop" /\ w \in dispatch.failed
    /\ stop[w] = "closed"
    /\ dispatch' = IF dispatch.failed = {w} THEN Nil
                   ELSE [dispatch EXCEPT !.failed = @ \ {w}]
    /\ UNCHANGED <<incoming, storeVars, processVars, stopVars, clientVars, input, result>>

-----------------------------------------------------------------------------
(* The orders of the elements of S: every one has its place.               *)
Orders(S) ==
    {order \in UNION {[1 .. n -> S] : n \in 0 .. Cardinality(S)} :
        \A k \in S : \E i \in DOMAIN order : \A j \in DOMAIN order : order[j] = k <=> i = j}

(* Watch holds eventMutex for reading while it lists the objects, in any    *)
(* order, and watcherMutex while it registers the watcher.                  *)
Watch(w) ==
    /\ proc[w] = "none" /\ writer = Nil /\ WatcherMutexFree
    /\ \E order \in Orders({k \in Keys : storage[k] # Nil
                                /\ keyAndSpanSelectFunc(w, k, storage[k])}) :
          initEvents' = [initEvents EXCEPT ![w] =
              Append([i \in DOMAIN order |-> [key |-> order[i], prev |-> Nil,
                                              curr |-> storage[order[i]],
                                              rv |-> resourceVersion]], Bookmark)]
    /\ startRV' = [startRV EXCEPT ![w] = resourceVersion]
    /\ proc' = [proc EXCEPT ![w] = "running"]
    /\ watchers' = watchers \cup {w}
    /\ UNCHANGED <<pending, stop, cancelled, storeVars, dispatchVars, clientVars,
                   input, result>>

-----------------------------------------------------------------------------
(* process and sendWatchEvent.  An event that is taken while done is open   *)
(* is pending: it is then sent, or dropped when done is closed first.       *)

Pending(w, event) ==
    pending' = [pending EXCEPT ![w] = IF stop[w] = "closed" THEN Nil ELSE event]

processInit(w) ==
    /\ proc[w] = "running" /\ pending[w] = Nil /\ initEvents[w] # <<>>
    /\ Pending(w, ToWatchEvent(resource, w, Head(initEvents[w]), TRUE))
    /\ initEvents' = [initEvents EXCEPT ![w] = Tail(@)]
    /\ UNCHANGED <<startRV, proc, storeVars, dispatchVars, stopVars, clientVars,
                   input, result>>

processInput(w) ==
    /\ proc[w] = "running" /\ pending[w] = Nil /\ initEvents[w] = <<>>
    /\ input[w] # <<>>
    /\ LET e == Head(input[w])
       IN  Pending(w, IF e.rv > startRV[w] THEN ToWatchEvent(resource, w, e, FALSE) ELSE Nil)
    /\ input' = [input EXCEPT ![w] = Tail(@)]
    /\ UNCHANGED <<initEvents, startRV, proc, storeVars, dispatchVars, stopVars,
                   clientVars, result>>

sendWatchEvent(w) ==
    /\ pending[w] # Nil
    /\ \/ /\ Len(result[w]) < ChanSize
          /\ result' = [result EXCEPT ![w] = Append(@, pending[w])]
       \/ /\ stop[w] = "closed"
          /\ UNCHANGED result
    /\ pending' = [pending EXCEPT ![w] = Nil]
    /\ UNCHANGED <<initEvents, startRV, proc, storeVars, dispatchVars, stopVars,
                   clientVars, input>>

(* The loop ends when input is closed and empty, or the context is done.    *)
processExit(w) ==
    /\ proc[w] = "running" /\ pending[w] = Nil /\ initEvents[w] = <<>>
    /\ w \in cancelled \/ (stop[w] = "closed" /\ input[w] = <<>>)
    /\ proc' = [proc EXCEPT ![w] = "exited"]
    /\ UNCHANGED <<initEvents, startRV, pending, storeVars, dispatchVars, stopVars,
                   clientVars, input, result>>

-----------------------------------------------------------------------------
(* The client of a watcher: it reads result and applies what it reads.      *)

Apply(r, known, event) ==
    CASE event.type = "BOOKMARK" -> known
      [] event.type = "DELETED" -> [known EXCEPT ![event.key] = Nil]
      [] event.type = "ADDED" \/ (event.type = "MODIFIED" /\ r = "NetworkPolicy") ->
            [known EXCEPT ![event.key] = event.body]
      [] event.type = "MODIFIED" /\ r # "NetworkPolicy" ->
            [known EXCEPT ![event.key] = (@ \ event.removed) \cup event.added]

Receive(w) ==
    /\ result[w] # <<>>
    /\ view' = [view EXCEPT ![w] = Apply(resource, @, Head(result[w]))]
    /\ synced' = IF Head(result[w]) = Bookmark THEN synced \cup {w} ELSE synced
    /\ result' = [result EXCEPT ![w] = Tail(@)]
    /\ UNCHANGED <<storeVars, dispatchVars, processVars, stopVars, input>>

(* The connection is lost.                                                  *)
Cancel(w) ==
    /\ w \notin cancelled /\ proc[w] = "running"
    /\ cancelled' = cancelled \cup {w}
    /\ UNCHANGED <<watchers, stop, storeVars, dispatchVars, processVars, clientVars,
                   input, result>>

-----------------------------------------------------------------------------
Init ==
    /\ resource \in DOMAIN Objects
    /\ storage = [k \in Keys |-> Nil] /\ resourceVersion = 0 /\ writer = Nil
    /\ history = <<storage>>
    /\ incoming = <<>> /\ dispatch = Nil
    /\ watchers = {} /\ cancelled = {} /\ synced = {}
    /\ initEvents = [w \in Watchers |-> <<>>] /\ startRV = [w \in Watchers |-> 0]
    /\ input = [w \in Watchers |-> <<>>] /\ pending = [w \in Watchers |-> Nil]
    /\ result = [w \in Watchers |-> <<>>]
    /\ proc = [w \in Watchers |-> "none"] /\ stop = [w \in Watchers |-> "no"]
    /\ view = [w \in Watchers |-> [k \in Keys |-> Nil]]

Writer ==
    \E k \in Keys : \/ \E obj \in Objects[resource] : Create(k, obj) \/ Update(k, obj)
                    \/ Delete(k)

DispatchStep ==
    \/ DispatchTake \/ DispatchLock \/ DispatchWait \/ DispatchUnlock
    \/ \E w \in Watchers : \/ nonBlockingAdd(w) \/ add(w) \/ addTimeout(w)
                           \/ DispatchForget(w) \/ DispatchStopped(w)

processStep(w) ==
    processInit(w) \/ processInput(w) \/ sendWatchEvent(w) \/ processExit(w)

Client(w) == Watch(w) \/ ClientStop(w) \/ Cancel(w) \/ Receive(w)

Next ==
    \/ Writer \/ processEvent \/ DispatchStep
    \/ \E w \in Watchers : StopClose(w) \/ processStep(w) \/ Client(w)

Spec == Init /\ [][Next]_vars

(* Goroutines that can run do run, and the timer fires.  Nothing is assumed *)
(* of writers, nor of clients: they may stop reading.                       *)
FairSpec ==
    /\ Spec /\ WF_vars(processEvent) /\ WF_vars(DispatchStep)
    /\ \A w \in Watchers : WF_vars(StopClose(w)) /\ WF_vars(processStep(w))

-----------------------------------------------------------------------------
(* What the client of w would know of a content.                            *)
Selected(r, w, content) ==
    [k \in Keys |-> IF content[k] # Nil /\ keyAndSpanSelectFunc(w, k, content[k])
                    THEN Body(r, w, content[k]) ELSE Nil]

(* The message that process makes of an event for w, or Nil.                *)
Converted(r, since, w, e, isInit) ==
    IF e # Nil /\ (isInit \/ e.rv > since) THEN ToWatchEvent(r, w, e, isInit) ELSE Nil

Convert(r, since, w, events, isInit) ==
    [i \in DOMAIN events |-> Converted(r, since, w, events[i], isInit)]

(* The event that the dispatcher has taken and will give to w.              *)
Dispatched(w) ==
    IF dispatch # Nil /\ (dispatch.phase = "taken" \/ w \in dispatch.todo \cup dispatch.blocked)
    THEN dispatch.event ELSE Nil

(* Events of w that process has not converted yet.                          *)
Unconverted(w) == input[w] \o <<Dispatched(w)>> \o incoming \o <<writer>>

InFlight(w) ==
    result[w] \o <<pending[w]>> \o Convert(resource, startRV[w], w, initEvents[w], TRUE)
    \o Convert(resource, startRV[w], w, Unconverted(w), FALSE)

(* Where there is no message the client learns nothing.                     *)
Learn(r, known, event) == IF event = Nil THEN known ELSE Apply(r, known, event)

LastIndex(indices) == CHOOSE i \in indices : \A j \in indices : i >= j

(* The client learns the messages one after the other.                      *)
LearnAll(r, known, events) ==
    MapThenFoldSet(LAMBDA event, k : Learn(r, k, event), known,
                   LAMBDA i : events[i], LAMBDA indices : LastIndex(indices), DOMAIN events)

(* For a watcher that is registered and not about to be stopped, what its   *)
(* client knows and the events under way to it make up the content of the   *)
(* store: the list and the events after it leave no gap, wherever the       *)
(* writer, the dispatcher and process are.                                  *)
NothingLost ==
    \A w \in watchers :
        proc[w] = "running" /\ (dispatch = Nil \/ w \notin dispatch.failed) =>
            LearnAll(resource, view[w], InFlight(w)) = Selected(resource, w, storage)

(* After the bookmark, what a client knows is what the store once held,     *)
(* whether its watcher is slow, stopped or cancelled: no event is skipped   *)
(* before one that is delivered.                                            *)
ViewWasReal ==
    \A w \in synced : \E i \in (startRV[w] + 1) .. Len(history) :
        view[w] = Selected(resource, w, history[i])

(* A client is told that an object is added only if it does not know it,    *)
(* and that it is modified or deleted only if it does: the agent's patch    *)
(* handlers return an error for an unknown group and give up the watch.     *)
EventsApply ==
    \A w \in Watchers : result[w] # <<>> =>
        LET event == Head(result[w])
        IN  event # Bookmark => (event.type = "ADDED" <=> view[w][event.key] = Nil)

(* A writer does not wait for ever for clients that do not read: their      *)
(* watchers are stopped when the timer fires.                               *)
WriterProceeds == []<>(writer = Nil)

(* When writes cease, a client that goes on reading and keeps its watch     *)
(* ends up knowing exactly the objects it selects.                          *)
Converges ==
    \A w \in Watchers :
        WF_vars(Receive(w)) =>
            <>[](w \in watchers \ cancelled =>
                    w \in synced /\ view[w] = Selected(resource, w, storage))

(* What a client is told is a faithful account of the store: nothing is     *)
(* lost on the way, what it knows was once true, and every event applies.   *)
WatchIsFaithful == NothingLost /\ ViewWasReal /\ EventsApply

(* Writers and clients make progress together.                              *)
StoreServes == WriterProceeds /\ Converges
=============================================================================
