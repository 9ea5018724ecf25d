--------------------------- MODULE RamStoreProofs ---------------------------
(* Clients of a watch are told the truth: WatchIsFaithful is an invariant   *)
(* of the store for any numbers of keys, Nodes, members, watchers, writes   *)
(* and channel sizes. The inductive invariant, FaithInv, follows the        *)
(* messages and events under way to a watcher from its client back to the   *)
(* writer. Each of them takes a client state to the next one, the first     *)
(* state is that of the client, the last one has what the store holds now,  *)
(* and every state that follows the bookmark is one that the store really   *)
(* had.                                                                     *)
EXTENDS RamStore, TLAPS

-----------------------------------------------------------------------------
(* What messages do to a client.                                            *)

Contents == [Keys -> Object \cup {Nil}]

Knowledge == [Keys -> (SUBSET Items) \cup {Nil}]

(* What a client knows, and whether it has received the bookmark.           *)
ClientState == [known : Knowledge, synced : BOOLEAN]

(* After the bookmark a client knows one of the contents in P.              *)
Sound(P, a) == a \in ClientState /\ (a.synced => a.known \in P)

After(r, a, event) ==
    [known |-> Learn(r, a.known, event), synced |-> (a.synced \/ event = Bookmark)]

(* ADDED is for an object that is new to the client, MODIFIED and DELETED   *)
(* for one that it knows.                                                   *)
Applies(a, event) ==
    event \notin {Nil, Bookmark} => (event.type = "ADDED" <=> a.known[event.key] = Nil)

(* An event takes a client from state a to state b.                         *)
Link(P, r, a, event, b) == Sound(P, a) /\ Sound(P, b) /\ Applies(a, event) /\ b = After(r, a, event)

(* The events of s take a client from a to b, one by one.                   *)
Leads(P, r, s, a, b) ==
    \E c : /\ c[1] = a /\ c[Len(s) + 1] = b /\ Sound(P, a)
           /\ \A i \in 1 .. Len(s) : Link(P, r, c[i], s[i], c[i + 1])

(* Nil is no object, event, message or state of the dispatcher.             *)
LEMMA NilIsNone ==
  /\ Nil \notin Object /\ Nil \notin Event /\ Nil \notin Message /\ Nil \notin Dispatch
  /\ Nil \notin SUBSET Items /\ Nil # Bookmark
<1>1. Nil # Bookmark
  BY RamStoreAssumption, Zenon DEF Message
<1> QED  BY <1>1, RamStoreAssumption, Zenon

(* The empty sequence leads a client to where it is.                        *)
LEMMA LeadsEmpty ==
  ASSUME NEW P, NEW r, NEW a, Sound(P, a)
  PROVE  Leads(P, r, <<>>, a, a)
<1> DEFINE c == [i \in 1 .. 1 |-> a]
<1>1. c[1] = a /\ Len(<<>>) = 0
  OBVIOUS
<1>2. c[Len(<<>>) + 1] = a /\ 1 .. Len(<<>>) = {}
  OBVIOUS
<1> QED  BY <1>1, <1>2, Zenon DEF Leads

(* Nil changes nothing.                                                     *)
LEMMA NilLinks ==
  ASSUME NEW P, NEW r, NEW a, Sound(P, a)
  PROVE  Link(P, r, a, Nil, a)
<1>1. After(r, a, Nil) = [known |-> a.known, synced |-> (a.synced \/ FALSE)]
  BY NilIsNone, Zenon DEF After, Learn
<1>2. a \in ClientState
  BY Zenon DEF Sound
<1>3. a = After(r, a, Nil)
  BY <1>1, <1>2 DEF ClientState
<1> QED  BY <1>3, Zenon DEF Link, Applies

(* The first event of a sequence, and the others.                           *)
LEMMA LeadsHead ==
  ASSUME NEW P, NEW r, NEW S, NEW s \in Seq(S), s # <<>>, NEW a, NEW b, Leads(P, r, s, a, b)
  PROVE  \E d : Link(P, r, a, Head(s), d) /\ Leads(P, r, Tail(s), d, b)
<1>1. PICK c : /\ c[1] = a /\ c[Len(s) + 1] = b /\ Sound(P, a)
               /\ \A i \in 1 .. Len(s) : Link(P, r, c[i], s[i], c[i + 1])
  BY Zenon DEF Leads
<1>2. /\ Len(s) \in Nat /\ 1 \in 1 .. Len(s) /\ Len(Tail(s)) = Len(s) - 1 /\ Head(s) = s[1] /\ 1 + 1 = 2
      /\ \A i \in 1 .. (Len(s) - 1) : Tail(s)[i] = s[i + 1]
  OBVIOUS
<1>3. Link(P, r, a, Head(s), c[2])
  BY <1>1, <1>2, Zenon
<1> DEFINE d == [i \in 1 .. Len(s) |-> c[i + 1]]
<1>4. d[1] = c[2] /\ d[Len(Tail(s)) + 1] = b
  BY <1>1, <1>2
<1>5. ASSUME NEW i \in 1 .. Len(Tail(s))
      PROVE  Link(P, r, d[i], Tail(s)[i], d[i + 1])
  <2>1. i + 1 \in 1 .. Len(s) /\ i \in 1 .. Len(s) /\ Tail(s)[i] = s[i + 1]
    BY <1>2
  <2>2. d[i] = c[i + 1] /\ d[i + 1] = c[(i + 1) + 1]
    BY <2>1, Zenon
  <2> QED  BY <1>1, <2>1, <2>2, Zenon
<1>6. Leads(P, r, Tail(s), c[2], b)
  BY <1>3, <1>4, <1>5, Zenon DEF Leads, Link
<1> QED  BY <1>3, <1>6, Zenon

(* Two sequences one after the other.                                       *)
LEMMA LeadsConcat ==
  ASSUME NEW P, NEW r, NEW S, NEW s \in Seq(S), NEW T, NEW t \in Seq(T), NEW a, NEW b, NEW d,
         Leads(P, r, s, a, b), Leads(P, r, t, b, d)
  PROVE  Leads(P, r, s \o t, a, d)
<1>1. PICK c : /\ c[1] = a /\ c[Len(s) + 1] = b /\ Sound(P, a)
               /\ \A i \in 1 .. Len(s) : Link(P, r, c[i], s[i], c[i + 1])
  BY Zenon DEF Leads
<1>2. PICK f : /\ f[1] = b /\ f[Len(t) + 1] = d
               /\ \A i \in 1 .. Len(t) : Link(P, r, f[i], t[i], f[i + 1])
  BY Zenon DEF Leads
<1>3. /\ Len(s) \in Nat /\ Len(t) \in Nat /\ Len(s \o t) = Len(s) + Len(t)
      /\ \A i \in 1 .. (Len(s) + Len(t)) :
            (s \o t)[i] = IF i <= Len(s) THEN s[i] ELSE t[i - Len(s)]
  OBVIOUS
<1> DEFINE h == [i \in 1 .. (Len(s) + Len(t) + 1) |->
                   IF i <= Len(s) THEN c[i] ELSE f[i - Len(s)]]
<1>4. h[1] = a
  BY <1>1, <1>2, <1>3
<1>5. h[Len(s \o t) + 1] = d
  BY <1>2, <1>3
<1>6. ASSUME NEW i \in 1 .. Len(s \o t)
      PROVE  Link(P, r, h[i], (s \o t)[i], h[i + 1])
  <2>1. CASE i <= Len(s)
    <3>1. h[i] = c[i] /\ (s \o t)[i] = s[i] /\ i \in 1 .. Len(s)
      BY <1>3, <2>1
    <3>2. h[i + 1] = c[i + 1]
      BY <1>1, <1>2, <1>3, <2>1
    <3> QED  BY <1>1, <3>1, <3>2, Zenon
  <2>2. CASE ~(i <= Len(s))
    <3>1. /\ h[i] = f[i - Len(s)] /\ (s \o t)[i] = t[i - Len(s)] /\ i - Len(s) \in 1 .. Len(t)
          /\ h[i + 1] = f[(i + 1) - Len(s)] /\ (i + 1) - Len(s) = (i - Len(s)) + 1
      BY <1>3, <2>2
    <3> QED  BY <1>2, <3>1, Zenon
  <2> QED  BY <2>1, <2>2, Zenon
<1> QED  BY <1>1, <1>4, <1>5, <1>6, Zenon DEF Leads

-----------------------------------------------------------------------------
(* The inductive invariant.                                                 *)

(* The list only has objects that exist.                                    *)
InitEvent == {e \in Event : e.curr \in Object}

StoreTypes ==
    /\ resource \in DOMAIN Objects
    /\ storage \in Contents /\ resourceVersion \in Nat
    /\ history \in Seq(Contents) /\ Len(history) = resourceVersion + 1
    /\ history[Len(history)] = storage
    /\ writer \in Event \cup {Nil} /\ incoming \in Seq(Event)
    /\ dispatch \in Dispatch \cup {Nil}

WatchTypes ==
    /\ watchers \subseteq Watchers
    /\ initEvents \in [Watchers -> Seq(InitEvent \cup {Bookmark})]
    /\ startRV \in [Watchers -> Nat]
    /\ input \in [Watchers -> Seq(Event)]
    /\ pending \in [Watchers -> Message \cup {Nil}]
    /\ result \in [Watchers -> Seq(Message)]
    /\ proc \in [Watchers -> {"none", "running", "exited"}]
    /\ stop \in [Watchers -> {"no", "forgotten", "closed"}]
    /\ view \in [Watchers -> Knowledge]

(* No event is of a version that is still to come.                          *)
Dated ==
    /\ writer # Nil => writer.rv <= resourceVersion
    /\ \A i \in 1 .. Len(incoming) : incoming[i].rv <= resourceVersion
    /\ dispatch # Nil => dispatch.event.rv <= resourceVersion
    /\ \A w \in Watchers : startRV[w] <= resourceVersion

(* The dispatcher only has registered watchers to serve, each one once.     *)
Phases ==
    dispatch # Nil =>
        /\ dispatch.todo \cup dispatch.blocked \subseteq watchers
        /\ dispatch.phase = "taken" => dispatch.todo = {} /\ dispatch.blocked = {} /\ dispatch.failed = {}
        /\ dispatch.phase = "add" => dispatch.todo \cap dispatch.blocked = {} /\ dispatch.failed = {}
        /\ dispatch.phase = "wait" => dispatch.todo = {} /\ dispatch.blocked \cap dispatch.failed = {}
        /\ dispatch.phase = "stop" => dispatch.todo = {} /\ dispatch.blocked = {}

(* A watcher is registered while nobody has stopped it.                     *)
Registered == \A w \in watchers : stop[w] = "no" /\ proc[w] # "none"

(* A call of Watch that is still to come has an empty client.               *)
Fresh ==
    \A w \in Watchers : proc[w] = "none" =>
        /\ input[w] = <<>> /\ result[w] = <<>> /\ pending[w] = Nil
        /\ w \notin synced /\ view[w] = [k \in Keys |-> Nil]

(* What the client of w was to know at the versions since its Watch.        *)
Past(w) == {Selected(resource, w, history[i]) : i \in (startRV[w] + 1) .. Len(history)}

Me(w) == [known |-> view[w], synced |-> (w \in synced)]

(* process takes events on, ...                                             *)
Busy(w) == proc[w] = "running" /\ stop[w] # "closed"

(* ... and the events go on to reach the watcher.                           *)
Live(w) == w \in watchers /\ proc[w] = "running" /\ (dispatch = Nil \/ w \notin dispatch.failed)

(* The messages and events under way to w, from its client back to the      *)
(* writer, and where they lead: those that process has converted, ...       *)
Near(w, a, b) ==
    /\ Leads(Past(w), resource, result[w], Me(w), a)
    /\ Link(Past(w), resource, a, pending[w], b)

(* ... those that it has in its list and in input, ...                      *)
Middle(w, b, d, y) ==
    /\ Leads(Past(w), resource, Convert(resource, startRV[w], w, initEvents[w], TRUE), b, d)
    /\ Leads(Past(w), resource, Convert(resource, startRV[w], w, input[w], FALSE), d, y)

(* ... and those that the dispatcher and the writer have.                   *)
Far(w, y, u, v, z) ==
    /\ Link(Past(w), resource, y, Converted(resource, startRV[w], w, Dispatched(w), FALSE), u)
    /\ Leads(Past(w), resource, Convert(resource, startRV[w], w, incoming, FALSE), u, v)
    /\ Link(Past(w), resource, v, Converted(resource, startRV[w], w, writer, FALSE), z)
    /\ z.known = Selected(resource, w, storage)

Chain(w) ==
    \E a, b, d, y, u, v, z :
        /\ Near(w, a, b)
        /\ Busy(w) => Middle(w, b, d, y)
        /\ Live(w) => Far(w, y, u, v, z)

StoreInv == StoreTypes /\ WatchTypes /\ Dated /\ Phases /\ Registered /\ Fresh

FaithInv == StoreInv /\ \A w \in Watchers : Chain(w)

(* A call of Watch that is still to come has not been stopped.              *)
Unstopped ==
    \A w \in Watchers : proc[w] = "none" => stop[w] = "no" /\ (dispatch # Nil => w \notin dispatch.failed)

WatchInv == FaithInv /\ Unstopped /\ synced \subseteq Watchers

(* Only a watcher that runs is stopped (ClientStop, addTimeout).            *)
LEMMA UnstoppedStep ==
  ASSUME FaithInv, Unstopped, Next
  PROVE  Unstopped'
<1> USE DEF Unstopped
<1>1. StoreTypes /\ WatchTypes /\ Phases /\ Registered
  BY Zenon DEF FaithInv, StoreInv
<1>2. /\ "running" # "none" /\ "exited" # "none" /\ "forgotten" # "no"
  OBVIOUS
<1>3. ASSUME proc' = proc, stop' = stop, dispatch' = dispatch PROVE Unstopped'
  BY <1>3, Zenon
<1>4. ASSUME proc' = proc, stop' = stop, dispatch' # Nil,
             dispatch # Nil => \A w \in dispatch'.failed \cap Watchers : w \in dispatch.failed \/ proc[w] # "none",
             dispatch = Nil => dispatch'.failed = {}
      PROVE  Unstopped'
  BY <1>4, Zenon
<1>5. ASSUME Writer \/ processEvent PROVE Unstopped'
  <2>1. proc' = proc /\ stop' = stop /\ dispatch' = dispatch
    BY <1>5, Zenon DEF Writer, Create, Update, Delete, Write, processEvent, processVars, stopVars, dispatchVars
  <2> QED  BY <1>3, <2>1, Zenon
<1>6. ASSUME DispatchTake PROVE Unstopped'
  <2>1. proc' = proc /\ stop' = stop /\ dispatch = Nil
    BY <1>6, Zenon DEF DispatchTake, processVars, stopVars
  <2>2. dispatch'.failed = {}
    BY <1>6 DEF DispatchTake
  <2> QED  BY <2>1, <2>2, Zenon
<1>7. ASSUME DispatchLock \/ DispatchWait PROVE Unstopped'
  <2>1. proc' = proc /\ stop' = stop /\ dispatch \in Dispatch /\ dispatch # Nil
    BY <1>1, <1>7, Zenon DEF DispatchLock, DispatchWait, processVars, stopVars, StoreTypes
  <2>2. dispatch'.failed = dispatch.failed
    BY <1>7, <2>1, Zenon DEF DispatchLock, DispatchWait, Dispatch
  <2> QED  BY <2>1, <2>2, Zenon
<1>8. ASSUME DispatchUnlock PROVE Unstopped'
  <2>1. proc' = proc /\ stop' = stop /\ dispatch \in Dispatch /\ dispatch # Nil
    BY <1>1, <1>8, Zenon DEF DispatchUnlock, processVars, stopVars, StoreTypes
  <2>2. dispatch' = Nil \/ dispatch'.failed = dispatch.failed
    BY <1>8, <2>1 DEF DispatchUnlock, Dispatch
  <2> QED  BY <2>1, <2>2, Zenon
<1>9. ASSUME NEW w1 \in Watchers, nonBlockingAdd(w1) \/ add(w1) PROVE Unstopped'
  <2>1. proc' = proc /\ stop' = stop /\ dispatch \in Dispatch /\ dispatch # Nil
    BY <1>1, <1>9, Zenon DEF nonBlockingAdd, add, processVars, stopVars, StoreTypes
  <2>2. dispatch'.failed = dispatch.failed
    BY <1>9, <2>1, Zenon DEF nonBlockingAdd, add, Dispatch
  <2> QED  BY <2>1, <2>2, Zenon
<1>10. ASSUME NEW w1 \in Watchers, addTimeout(w1) PROVE Unstopped'
  <2>1. proc' = proc /\ stop' = stop /\ dispatch \in Dispatch /\ dispatch # Nil /\ w1 \in dispatch.blocked
    BY <1>1, <1>10, Zenon DEF addTimeout, processVars, stopVars, StoreTypes
  <2>2. dispatch'.failed = dispatch.failed \cup {w1}
    BY <1>10, <2>1 DEF addTimeout, Dispatch
  <2>3. proc[w1] # "none"
    BY <1>1, <2>1, Zenon DEF Phases, Registered
  <2> QED  BY <2>1, <2>2, <2>3, Zenon
<1>11. ASSUME NEW w1 \in Watchers, DispatchStopped(w1) PROVE Unstopped'
  <2>1. proc' = proc /\ stop' = stop /\ dispatch \in Dispatch /\ dispatch # Nil
    BY <1>1, <1>11, Zenon DEF DispatchStopped, processVars, stopVars, StoreTypes
  <2>2. dispatch' = Nil \/ dispatch'.failed = dispatch.failed \ {w1}
    BY <1>11, <2>1 DEF DispatchStopped, Dispatch
  <2> QED  BY <2>1, <2>2, Zenon
<1>12. ASSUME NEW w1 \in Watchers, ClientStop(w1) \/ DispatchForget(w1) \/ StopClose(w1) PROVE Unstopped'
  <2>1. proc' = proc /\ dispatch' = dispatch
    BY <1>12, Zenon DEF ClientStop, DispatchForget, StopClose, processVars, dispatchVars
  <2>2. proc[w1] # "none"
    BY <1>2, <1>12, Zenon DEF ClientStop, DispatchForget, StopClose
  <2>3. \A w \in Watchers : w # w1 => stop'[w] = stop[w]
    BY <1>1, <1>12 DEF ClientStop, DispatchForget, StopClose, Forget, WatchTypes
  <2> QED  BY <2>1, <2>2, <2>3, Zenon
<1>13. ASSUME NEW w1 \in Watchers, Watch(w1) \/ processExit(w1) PROVE Unstopped'
  <2>1. stop' = stop /\ dispatch' = dispatch
    BY <1>13, Zenon DEF Watch, processExit, stopVars, dispatchVars
  <2>2. proc'[w1] # "none" /\ \A w \in Watchers : w # w1 => proc'[w] = proc[w]
    BY <1>1, <1>13 DEF Watch, processExit, WatchTypes
  <2> QED  BY <2>1, <2>2, Zenon
<1>14. ASSUME NEW w1 \in Watchers,
              processInit(w1) \/ processInput(w1) \/ sendWatchEvent(w1) \/ Cancel(w1) \/ Receive(w1)
       PROVE  Unstopped'
  <2>1. proc' = proc /\ stop' = stop /\ dispatch' = dispatch
    BY <1>14, Zenon DEF processInit, processInput, sendWatchEvent, Cancel, Receive, processVars, stopVars, dispatchVars
  <2> QED  BY <1>3, <2>1, Zenon
<1> HIDE DEF Unstopped
<1> QED  BY <1>5, <1>6, <1>7, <1>8, <1>9, <1>10, <1>11, <1>12, <1>13, <1>14, Zenon
         DEF Next, DispatchStep, processStep, Client

LEMMA SyncedStep ==
  ASSUME synced \subseteq Watchers, Next
  PROVE  synced' \subseteq Watchers
<1>1. ASSUME NEW w1 \in Watchers, Receive(w1) PROVE synced' \subseteq Watchers
  BY <1>1, Zenon DEF Receive
<1>2. ASSUME Writer \/ processEvent \/ DispatchStep PROVE synced' = synced
  BY <1>2, Zenon DEF Writer, Create, Update, Delete, Write, processEvent, DispatchStep, DispatchTake, DispatchLock,
     DispatchWait, DispatchUnlock, nonBlockingAdd, add, addTimeout, DispatchForget, DispatchStopped, clientVars
<1>3. ASSUME NEW w1 \in Watchers,
             StopClose(w1) \/ processStep(w1) \/ Watch(w1) \/ ClientStop(w1) \/ Cancel(w1)
      PROVE  synced' = synced
  BY <1>3, Zenon DEF StopClose, processStep, processInit, processInput, sendWatchEvent, processExit, Watch,
     ClientStop, Cancel, clientVars
<1> QED  BY <1>1, <1>2, <1>3, Zenon DEF Next, Client

(* The store starts empty, with no watcher.                                 *)
LEMMA InitFaith ==
  ASSUME Init
  PROVE  WatchInv
<1>1. StoreTypes
  <2>1. storage \in Contents
    BY DEF Init, Contents
  <2>2. history \in Seq(Contents) /\ Len(history) = resourceVersion + 1 /\ history[Len(history)] = storage
    BY <2>1 DEF Init
  <2> QED  BY <2>1, <2>2 DEF Init, StoreTypes
<1>2. WatchTypes
  <2>1. [k \in Keys |-> Nil] \in Knowledge
    BY DEF Knowledge
  <2> QED  BY <2>1 DEF Init, WatchTypes
<1>3. Dated
  BY DEF Init, Dated
<1>4. Phases /\ Registered /\ synced \subseteq Watchers
  BY Zenon DEF Init, Phases, Registered
<1>5. Fresh /\ Unstopped
  BY Zenon DEF Init, Fresh, Unstopped
<1>6. ASSUME NEW w \in Watchers PROVE Chain(w)
  <2>1. "none" # "running"
    OBVIOUS
  <2>2. ~Busy(w) /\ ~Live(w)
    BY <2>1, Zenon DEF Init, Busy, Live
  <2>3. Me(w) \in ClientState /\ ~Me(w).synced
    <3>1. view[w] \in Knowledge /\ w \notin synced
      BY <1>2, Zenon DEF WatchTypes, Init
    <3>2. (w \in synced) = FALSE
      BY <3>1
    <3>3. Me(w) = [known |-> view[w], synced |-> FALSE]
      BY <3>2, Zenon DEF Me
    <3>4. PICK a : a = [known |-> view[w], synced |-> FALSE]
      BY Zenon
    <3>5. a \in ClientState /\ ~a.synced
      BY <3>1, <3>4 DEF ClientState
    <3> QED  BY <3>3, <3>4, <3>5, Zenon
  <2>4. Sound(Past(w), Me(w))
    BY <2>3, Zenon DEF Sound
  <2>5. Near(w, Me(w), Me(w))
    <3>1. Leads(Past(w), resource, <<>>, Me(w), Me(w))
      BY <2>4, LeadsEmpty, Zenon
    <3>2. Link(Past(w), resource, Me(w), Nil, Me(w))
      BY <2>4, NilLinks, Zenon
    <3>3. result[w] = <<>> /\ pending[w] = Nil
      BY Zenon DEF Init
    <3> QED  BY <3>1, <3>2, <3>3, Zenon DEF Near
  <2> QED  BY <2>2, <2>5, Zenon DEF Chain
<1> QED  BY <1>1, <1>2, <1>3, <1>4, <1>5, <1>6, Zenon DEF WatchInv, FaithInv, StoreInv

(* The first message in result finds the object as it says.                 *)
LEMMA FaithApplies ==
  ASSUME FaithInv
  PROVE  EventsApply
<1>1. SUFFICES ASSUME NEW w \in Watchers, result[w] # <<>>, Head(result[w]) # Bookmark
               PROVE  Head(result[w]).type = "ADDED" <=> view[w][Head(result[w]).key] = Nil
  BY Zenon DEF EventsApply
<1>2. PICK a, b : Near(w, a, b)
  BY Zenon DEF FaithInv, Chain
<1>3. result[w] \in Seq(Message)
  BY Zenon DEF FaithInv, StoreInv, WatchTypes
<1>4. PICK d : Link(Past(w), resource, Me(w), Head(result[w]), d)
  BY <1>1, <1>2, <1>3, LeadsHead, Zenon DEF Near
<1>5. Head(result[w]) \in Message
  BY <1>1, <1>3
<1>6. Head(result[w]) \notin {Nil, Bookmark}
  BY <1>1, <1>5, NilIsNone, Zenon
<1>7. Me(w).known = view[w]
  BY DEF Me
<1> QED  BY <1>4, <1>6, <1>7, Zenon DEF Link, Applies

(* What a client knows after the bookmark is one of the contents since its  *)
(* Watch.                                                                   *)
LEMMA FaithReal ==
  ASSUME FaithInv, synced \subseteq Watchers
  PROVE  ViewWasReal
<1>1. SUFFICES ASSUME NEW w \in synced
               PROVE  \E i \in (startRV[w] + 1) .. Len(history) : view[w] = Selected(resource, w, history[i])
  BY Zenon DEF ViewWasReal
<1>2. PICK a, b : Near(w, a, b)
  BY Zenon DEF FaithInv, Chain
<1>3. Sound(Past(w), Me(w))
  BY <1>2, Zenon DEF Near, Leads
<1>4. Me(w).known = view[w] /\ Me(w).synced
  BY Zenon DEF Me
<1> QED  BY <1>3, <1>4, Zenon DEF Sound, Past

-----------------------------------------------------------------------------
(* Steps that change nothing between the client of w and its input.         *)

LEMMA PastSame ==
  ASSUME NEW w, resource' = resource, history' = history, startRV'[w] = startRV[w]
  PROVE  Past(w)' = Past(w)
BY Zenon DEF Past

LEMMA NearSame ==
  ASSUME NEW w, NEW a, NEW b, Near(w, a, b), Past(w)' = Past(w), resource' = resource,
         result'[w] = result[w], view'[w] = view[w], (w \in synced') = (w \in synced),
         pending'[w] = pending[w]
  PROVE  Near(w, a, b)'
<1>1. Me(w)' = Me(w)
  BY Zenon DEF Me
<1> QED  BY <1>1, Zenon DEF Near

LEMMA MiddleSame ==
  ASSUME NEW w, NEW b, NEW d, NEW y, Middle(w, b, d, y), Past(w)' = Past(w), resource' = resource,
         startRV'[w] = startRV[w], initEvents'[w] = initEvents[w], input'[w] = input[w]
  PROVE  Middle(w, b, d, y)'
BY Zenon DEF Middle

LEMMA FarSame ==
  ASSUME NEW w, NEW y, NEW u, NEW v, NEW z, Far(w, y, u, v, z), Past(w)' = Past(w),
         resource' = resource, startRV'[w] = startRV[w], Dispatched(w)' = Dispatched(w),
         incoming' = incoming, writer' = writer, storage' = storage
  PROVE  Far(w, y, u, v, z)'
BY Zenon DEF Far

Same(w) ==
    /\ resource' = resource /\ history' = history /\ startRV'[w] = startRV[w]
    /\ result'[w] = result[w] /\ view'[w] = view[w] /\ (w \in synced') = (w \in synced)
    /\ pending'[w] = pending[w] /\ initEvents'[w] = initEvents[w] /\ input'[w] = input[w]

(* What is under way to w is as before.                                     *)
LEMMA ChainSame ==
  ASSUME NEW w, Chain(w), Same(w), Busy(w)' => Busy(w),
         Live(w)' => /\ Live(w) /\ Dispatched(w)' = Dispatched(w) /\ incoming' = incoming
                     /\ writer' = writer /\ storage' = storage
  PROVE  Chain(w)'
<1>1. PICK a, b, d, y, u, v, z :
        Near(w, a, b) /\ (Busy(w) => Middle(w, b, d, y)) /\ (Live(w) => Far(w, y, u, v, z))
  BY Zenon DEF Chain
<1>2. Past(w)' = Past(w)
  BY PastSame, Zenon DEF Same
<1>3. Near(w, a, b)'
  BY <1>1, <1>2, NearSame, Zenon DEF Same
<1>4. Busy(w)' => Middle(w, b, d, y)'
  BY <1>1, <1>2, MiddleSame, Zenon DEF Same
<1>5. Live(w)' => Far(w, y, u, v, z)'
  BY <1>1, <1>2, FarSame, Zenon DEF Same
<1> QED  BY <1>3, <1>4, <1>5, Zenon DEF Chain

-----------------------------------------------------------------------------
(* Steps of a watcher's goroutine, of its client, and of those who stop it. *)

(* The store and the dispatcher are left alone, and so are other watchers.  *)
LEMMA WatcherStep ==
  ASSUME FaithInv, UNCHANGED <<storeVars, dispatchVars>>, NEW w1 \in Watchers,
         WatchTypes', Registered', Fresh', Phases', startRV' = startRV, Chain(w1)',
         \A w \in Watchers : w # w1 =>
            /\ result'[w] = result[w] /\ view'[w] = view[w] /\ (w \in synced') = (w \in synced)
            /\ pending'[w] = pending[w] /\ initEvents'[w] = initEvents[w] /\ input'[w] = input[w]
            /\ proc'[w] = proc[w] /\ stop'[w] = stop[w] /\ (w \in watchers' => w \in watchers)
  PROVE  FaithInv'
<1>1. /\ incoming' = incoming /\ writer' = writer /\ storage' = storage /\ resource' = resource
      /\ history' = history /\ resourceVersion' = resourceVersion /\ dispatch' = dispatch
  BY Zenon DEF storeVars, dispatchVars
<1>2. StoreTypes'
  BY <1>1, Zenon DEF FaithInv, StoreInv, StoreTypes
<1>3. Dated'
  BY <1>1, Zenon DEF FaithInv, StoreInv, Dated
<1>4. ASSUME NEW w \in Watchers PROVE Chain(w)'
  <2>1. CASE w = w1
    BY <2>1, Zenon
  <2>2. CASE w # w1
    <3>1. Same(w) /\ (Busy(w)' => Busy(w)) /\ (Live(w)' => Live(w))
      BY <1>1, <2>2, Zenon DEF Same, Busy, Live
    <3>2. Dispatched(w)' = Dispatched(w)
      BY <1>1, Zenon DEF Dispatched
    <3>3. Chain(w)
      BY Zenon DEF FaithInv
    <3> QED  BY <1>1, <3>1, <3>2, <3>3, ChainSame, Zenon
  <2> QED  BY <2>1, <2>2, Zenon
<1> QED  BY <1>2, <1>3, <1>4, Zenon DEF FaithInv, StoreInv

(* Receive: the client applies the first message.                           *)
LEMMA ReceiveChain ==
  ASSUME FaithInv, NEW w1 \in Watchers, Receive(w1)
  PROVE  Chain(w1)'
<1>1. /\ result[w1] # <<>> /\ view' = [view EXCEPT ![w1] = Apply(resource, @, Head(result[w1]))]
      /\ synced' = IF Head(result[w1]) = Bookmark THEN synced \cup {w1} ELSE synced
      /\ result' = [result EXCEPT ![w1] = Tail(@)]
      /\ UNCHANGED <<storeVars, dispatchVars, processVars, stopVars, input>>
  BY Zenon DEF Receive
<1>2. /\ startRV' = startRV /\ initEvents' = initEvents /\ pending' = pending /\ stop' = stop /\ proc' = proc
      /\ input' = input /\ dispatch' = dispatch /\ watchers' = watchers /\ resource' = resource
      /\ history' = history /\ incoming' = incoming /\ writer' = writer /\ storage' = storage
  BY <1>1, Zenon DEF storeVars, dispatchVars, processVars, stopVars
<1>3. result \in [Watchers -> Seq(Message)] /\ view \in [Watchers -> Knowledge]
  BY Zenon DEF FaithInv, StoreInv, WatchTypes
<1>4. result[w1] \in Seq(Message) /\ Head(result[w1]) \in Message
  <2>1. result[w1] \in Seq(Message)
    BY <1>3, Zenon
  <2> QED  BY <1>1, <2>1
<1>5. PICK a, b, d, y, u, v, z :
        Near(w1, a, b) /\ (Busy(w1) => Middle(w1, b, d, y)) /\ (Live(w1) => Far(w1, y, u, v, z))
  BY Zenon DEF FaithInv, Chain
<1>6. PICK c : /\ Link(Past(w1), resource, Me(w1), Head(result[w1]), c)
               /\ Leads(Past(w1), resource, Tail(result[w1]), c, a)
  BY <1>1, <1>4, <1>5, LeadsHead, Zenon DEF Near
<1>7. Me(w1)' = c
  <2>1. Head(result[w1]) # Nil
    BY <1>4, NilIsNone, Zenon
  <2>2. c = [known |-> Apply(resource, view[w1], Head(result[w1])),
             synced |-> (w1 \in synced \/ Head(result[w1]) = Bookmark)]
    <3>1. c = After(resource, Me(w1), Head(result[w1]))
      BY <1>6, Zenon DEF Link
    <3>2. Me(w1).known = view[w1] /\ Me(w1).synced = (w1 \in synced)
      BY DEF Me
    <3> QED  BY <2>1, <3>1, <3>2, Zenon DEF After, Learn
  <2>3. view'[w1] = Apply(resource, view[w1], Head(result[w1]))
    BY <1>1, <1>3
  <2>4. (w1 \in synced') = (w1 \in synced \/ Head(result[w1]) = Bookmark)
    BY <1>1
  <2> QED  BY <2>2, <2>3, <2>4, Zenon DEF Me
<1>8. Past(w1)' = Past(w1)
  BY <1>2, PastSame, Zenon
<1>9. result'[w1] = Tail(result[w1])
  BY <1>1, <1>3
<1>10. Near(w1, a, b)'
  BY <1>2, <1>5, <1>6, <1>7, <1>8, <1>9, Zenon DEF Near
<1>11. Busy(w1)' => Middle(w1, b, d, y)'
  <2>1. Busy(w1)' => Busy(w1)
    BY <1>2, Zenon DEF Busy
  <2> QED  BY <1>2, <1>5, <1>8, <2>1, MiddleSame, Zenon
<1>12. Live(w1)' => Far(w1, y, u, v, z)'
  <2>1. (Live(w1)' => Live(w1)) /\ Dispatched(w1)' = Dispatched(w1)
    BY <1>2, Zenon DEF Live, Dispatched
  <2> QED  BY <1>2, <1>5, <1>8, <2>1, FarSame, Zenon
<1> QED  BY <1>10, <1>11, <1>12, Zenon DEF Chain

LEMMA ReceiveStep ==
  ASSUME FaithInv, NEW w1 \in Watchers, Receive(w1)
  PROVE  FaithInv'
<1>1. /\ result[w1] # <<>> /\ view' = [view EXCEPT ![w1] = Apply(resource, @, Head(result[w1]))]
      /\ synced' = IF Head(result[w1]) = Bookmark THEN synced \cup {w1} ELSE synced
      /\ result' = [result EXCEPT ![w1] = Tail(@)]
      /\ UNCHANGED <<storeVars, dispatchVars, processVars, stopVars, input>>
  BY Zenon DEF Receive
<1>2. /\ startRV' = startRV /\ initEvents' = initEvents /\ pending' = pending /\ stop' = stop /\ proc' = proc
      /\ input' = input /\ dispatch' = dispatch /\ watchers' = watchers
  BY <1>1, Zenon DEF storeVars, dispatchVars, processVars, stopVars
<1>3. WatchTypes /\ Phases /\ Registered /\ Fresh
  BY Zenon DEF FaithInv, StoreInv
<1>4. Chain(w1)'
  BY ReceiveChain, Zenon
<1>5. view'[w1] \in Knowledge
  <2>1. PICK a, b : Leads(Past(w1)', resource', result'[w1], Me(w1)', a)
    BY <1>4, Zenon DEF Chain, Near
  <2>2. Me(w1)' \in ClientState
    BY <2>1, Zenon DEF Leads, Sound
  <2> QED  BY <2>2 DEF Me, ClientState
<1>6. /\ \A w \in Watchers : w # w1 => result'[w] = result[w] /\ view'[w] = view[w] /\ (w \in synced') = (w \in synced)
      /\ result' \in [Watchers -> Seq(Message)] /\ view' \in [Watchers -> Knowledge]
  <2>1. result[w1] \in Seq(Message)
    BY <1>3, Zenon DEF WatchTypes
  <2>2. Tail(result[w1]) \in Seq(Message)
    BY <1>1, <2>1
  <2>3. result' \in [Watchers -> Seq(Message)] /\ \A w \in Watchers : w # w1 => result'[w] = result[w]
    BY <1>1, <1>3, <2>2 DEF WatchTypes
  <2>4. \A w \in Watchers : w # w1 => view'[w] = view[w] /\ (w \in synced') = (w \in synced)
    BY <1>1, <1>3 DEF WatchTypes
  <2>5. view' \in [Watchers -> Knowledge]
    BY <1>1, <1>3, <1>5, <2>4 DEF WatchTypes
  <2> QED  BY <2>3, <2>4, <2>5, Zenon
<1>7. WatchTypes'
  BY <1>2, <1>3, <1>6, Zenon DEF WatchTypes
<1>8. Registered' /\ Phases'
  BY <1>2, <1>3, Zenon DEF Registered, Phases
<1>9. Fresh'
  <2>1. proc[w1] # "none"
    BY <1>1, <1>3, Zenon DEF Fresh
  <2> QED  BY <1>2, <1>3, <1>6, <2>1, Zenon DEF Fresh
<1>10. UNCHANGED <<storeVars, dispatchVars>>
  BY <1>1, Zenon
<1> QED  BY <1>2, <1>4, <1>6, <1>7, <1>8, <1>9, <1>10, WatcherStep, Zenon

(* Stop takes the watcher off the list: no event of the dispatcher is for   *)
(* it any more.                                                             *)
LEMMA ForgetStep ==
  ASSUME FaithInv, NEW w1 \in Watchers, ClientStop(w1) \/ DispatchForget(w1)
  PROVE  FaithInv'
<1>1. /\ Forget(w1) /\ UNCHANGED <<cancelled, storeVars, dispatchVars, processVars, clientVars, input, result>>
  BY Zenon DEF ClientStop, DispatchForget
<1>2. /\ startRV' = startRV /\ initEvents' = initEvents /\ pending' = pending /\ proc' = proc
      /\ view' = view /\ synced' = synced /\ input' = input /\ result' = result /\ dispatch' = dispatch
      /\ watchers' = watchers \ {w1} /\ stop' = [stop EXCEPT ![w1] = "forgotten"]
      /\ resource' = resource /\ history' = history
  BY <1>1, Zenon DEF storeVars, dispatchVars, processVars, clientVars, Forget
<1>3. StoreTypes /\ WatchTypes /\ Phases /\ Registered /\ Fresh
  BY Zenon DEF FaithInv, StoreInv
<1>4. /\ stop' \in [Watchers -> {"no", "forgotten", "closed"}] /\ stop'[w1] # "closed" /\ stop[w1] # "closed"
      /\ \A w \in Watchers : w # w1 => stop'[w] = stop[w]
  BY <1>1, <1>2, <1>3 DEF WatchTypes, Forget
<1>5. WatchTypes'
  BY <1>2, <1>3, <1>4, Zenon DEF WatchTypes
<1>6. Registered' /\ Fresh'
  BY <1>2, <1>3, <1>4, Zenon DEF Registered, Fresh, WatchTypes
<1>7. Phases'
  <2>1. CASE dispatch = Nil
    BY <1>2, <2>1, Zenon DEF Phases
  <2>2. CASE dispatch # Nil
    <3>1. dispatch.todo = {} /\ dispatch.blocked = {}
      BY <1>1, <1>3, <2>2 DEF Forget, WatcherMutexFree, Phases
    <3> QED  BY <1>2, <1>3, <3>1, Zenon DEF Phases
  <2> QED  BY <2>1, <2>2, Zenon
<1>8. Chain(w1)'
  <2>1. Same(w1) /\ (Busy(w1)' => Busy(w1)) /\ ~Live(w1)'
    BY <1>2, <1>4, Zenon DEF Same, Busy, Live
  <2>2. Chain(w1)
    BY Zenon DEF FaithInv
  <2> QED  BY <2>1, <2>2, ChainSame, Zenon
<1>9. UNCHANGED <<storeVars, dispatchVars>>
  BY <1>1, Zenon
<1> QED  BY <1>2, <1>4, <1>5, <1>6, <1>7, <1>8, <1>9, WatcherStep, Zenon

(* Stop closes done: nothing that process has not taken on is sent.         *)
LEMMA CloseStep ==
  ASSUME FaithInv, NEW w1 \in Watchers, StopClose(w1)
  PROVE  FaithInv'
<1>1. /\ stop[w1] = "forgotten" /\ stop' = [stop EXCEPT ![w1] = "closed"]
      /\ UNCHANGED <<watchers, cancelled, storeVars, dispatchVars, processVars, clientVars, input, result>>
  BY Zenon DEF StopClose
<1>2. /\ startRV' = startRV /\ initEvents' = initEvents /\ pending' = pending /\ proc' = proc
      /\ view' = view /\ synced' = synced /\ input' = input /\ result' = result /\ dispatch' = dispatch
      /\ watchers' = watchers /\ resource' = resource /\ history' = history
  BY <1>1, Zenon DEF storeVars, dispatchVars, processVars, clientVars
<1>3. WatchTypes /\ Phases /\ Registered /\ Fresh
  BY Zenon DEF FaithInv, StoreInv
<1>4. /\ stop' \in [Watchers -> {"no", "forgotten", "closed"}] /\ stop'[w1] = "closed"
      /\ \A w \in Watchers : w # w1 => stop'[w] = stop[w]
  BY <1>1, <1>3 DEF WatchTypes
<1>5. WatchTypes'
  BY <1>2, <1>3, <1>4, Zenon DEF WatchTypes
<1>6. w1 \notin watchers
  <2>1. stop[w1] # "no"
    BY <1>1
  <2> QED  BY <1>3, <2>1, Zenon DEF Registered
<1>7. Registered' /\ Fresh' /\ Phases'
  BY <1>2, <1>3, <1>4, <1>6, Zenon DEF Registered, Fresh, Phases, WatchTypes
<1>8. Chain(w1)'
  <2>1. Same(w1) /\ ~Busy(w1)' /\ ~Live(w1)'
    BY <1>2, <1>4, <1>6, Zenon DEF Same, Busy, Live
  <2>2. Chain(w1)
    BY Zenon DEF FaithInv
  <2> QED  BY <2>1, <2>2, ChainSame, Zenon
<1>9. UNCHANGED <<storeVars, dispatchVars>>
  BY <1>1, Zenon
<1> QED  BY <1>2, <1>4, <1>5, <1>7, <1>8, <1>9, WatcherStep, Zenon

LEMMA ExitStep ==
  ASSUME FaithInv, NEW w1 \in Watchers, processExit(w1)
  PROVE  FaithInv'
<1>1. /\ proc[w1] = "running" /\ proc' = [proc EXCEPT ![w1] = "exited"]
      /\ UNCHANGED <<initEvents, startRV, pending, storeVars, dispatchVars, stopVars, clientVars, input, result>>
  BY Zenon DEF processExit
<1>2. /\ startRV' = startRV /\ initEvents' = initEvents /\ pending' = pending /\ stop' = stop
      /\ view' = view /\ synced' = synced /\ input' = input /\ result' = result /\ dispatch' = dispatch
      /\ watchers' = watchers /\ resource' = resource /\ history' = history
  BY <1>1, Zenon DEF storeVars, dispatchVars, stopVars, clientVars
<1>3. WatchTypes /\ Phases /\ Registered /\ Fresh
  BY Zenon DEF FaithInv, StoreInv
<1>4. /\ proc' \in [Watchers -> {"none", "running", "exited"}] /\ proc'[w1] = "exited"
      /\ proc'[w1] # "none" /\ proc'[w1] # "running"
      /\ \A w \in Watchers : w # w1 => proc'[w] = proc[w]
  BY <1>1, <1>3 DEF WatchTypes
<1>5. WatchTypes'
  BY <1>2, <1>3, <1>4, Zenon DEF WatchTypes
<1>6. Registered' /\ Fresh' /\ Phases'
  BY <1>2, <1>3, <1>4, Zenon DEF Registered, Fresh, Phases, WatchTypes
<1>7. Chain(w1)'
  <2>1. Same(w1) /\ ~Busy(w1)' /\ ~Live(w1)'
    BY <1>2, <1>4, Zenon DEF Same, Busy, Live
  <2>2. Chain(w1)
    BY Zenon DEF FaithInv
  <2> QED  BY <2>1, <2>2, ChainSame, Zenon
<1>8. UNCHANGED <<storeVars, dispatchVars>>
  BY <1>1, Zenon
<1> QED  BY <1>2, <1>4, <1>5, <1>6, <1>7, <1>8, WatcherStep, Zenon

LEMMA CancelStep ==
  ASSUME FaithInv, NEW w1 \in Watchers, Cancel(w1)
  PROVE  FaithInv'
<1>1. UNCHANGED <<watchers, stop, storeVars, dispatchVars, processVars, clientVars, input, result>>
  BY Zenon DEF Cancel
<1>2. /\ startRV' = startRV /\ initEvents' = initEvents /\ pending' = pending /\ stop' = stop /\ proc' = proc
      /\ view' = view /\ synced' = synced /\ input' = input /\ result' = result /\ dispatch' = dispatch
      /\ watchers' = watchers /\ resource' = resource /\ history' = history /\ incoming' = incoming
      /\ writer' = writer /\ storage' = storage
  BY <1>1, Zenon DEF storeVars, dispatchVars, processVars, clientVars
<1>3. WatchTypes /\ Phases /\ Registered /\ Fresh
  BY Zenon DEF FaithInv, StoreInv
<1>4. WatchTypes'
  BY <1>2, <1>3, Zenon DEF WatchTypes
<1>5. Registered' /\ Fresh' /\ Phases'
  BY <1>2, <1>3, Zenon DEF Registered, Fresh, Phases
<1>6. Chain(w1)'
  <2>1. Same(w1) /\ (Busy(w1)' => Busy(w1)) /\ (Live(w1)' => Live(w1)) /\ Dispatched(w1)' = Dispatched(w1)
    BY <1>2, Zenon DEF Same, Busy, Live, Dispatched
  <2>2. Chain(w1)
    BY Zenon DEF FaithInv
  <2> QED  BY <1>2, <2>1, <2>2, ChainSame, Zenon
<1>7. UNCHANGED <<storeVars, dispatchVars>>
  BY <1>1, Zenon
<1> QED  BY <1>2, <1>4, <1>5, <1>6, <1>7, WatcherStep, Zenon

-----------------------------------------------------------------------------
(* Steps of the dispatcher that give no event to a watcher.                 *)

DispatchOnly == UNCHANGED <<incoming, storeVars, processVars, stopVars, clientVars, input, result>>

LEMMA DispatchOnlySame ==
  ASSUME StoreInv, DispatchOnly, dispatch' \in Dispatch \cup {Nil},
         dispatch' # Nil => dispatch # Nil /\ dispatch'.event = dispatch.event, Phases'
  PROVE  /\ StoreInv' /\ \A w \in Watchers : Same(w) /\ (Busy(w)' <=> Busy(w))
         /\ incoming' = incoming /\ writer' = writer /\ storage' = storage
<1>1. /\ incoming' = incoming /\ writer' = writer /\ storage' = storage /\ resource' = resource
      /\ history' = history /\ resourceVersion' = resourceVersion /\ initEvents' = initEvents
      /\ startRV' = startRV /\ pending' = pending /\ proc' = proc /\ watchers' = watchers
      /\ stop' = stop /\ cancelled' = cancelled /\ view' = view /\ synced' = synced
      /\ input' = input /\ result' = result
  BY Zenon DEF DispatchOnly, storeVars, processVars, stopVars, clientVars
<1>2. StoreTypes'
  BY <1>1, Zenon DEF StoreInv, StoreTypes
<1>3. WatchTypes' /\ Registered' /\ Fresh'
  BY <1>1, Zenon DEF StoreInv, WatchTypes, Registered, Fresh
<1>4. Dated'
  BY <1>1, Zenon DEF StoreInv, Dated
<1> QED  BY <1>1, <1>2, <1>3, <1>4, Zenon DEF StoreInv, Same, Busy

(* What the dispatcher still has for a live watcher is as before.           *)
LEMMA QuietDispatch ==
  ASSUME FaithInv, DispatchOnly, dispatch' \in Dispatch \cup {Nil},
         dispatch' # Nil => dispatch # Nil /\ dispatch'.event = dispatch.event, Phases',
         \A w \in Watchers : Live(w)' => Live(w) /\ Dispatched(w)' = Dispatched(w)
  PROVE  FaithInv'
<1>1. StoreInv
  BY Zenon DEF FaithInv
<1>2. /\ StoreInv' /\ \A w \in Watchers : Same(w) /\ (Busy(w)' <=> Busy(w))
      /\ incoming' = incoming /\ writer' = writer /\ storage' = storage
  BY <1>1, DispatchOnlySame
<1>3. ASSUME NEW w \in Watchers PROVE Chain(w)'
  <2>1. Chain(w)
    BY Zenon DEF FaithInv
  <2> QED  BY <1>2, <2>1, ChainSame, Zenon
<1> QED  BY <1>2, <1>3, Zenon DEF FaithInv

(* Every registered watcher is to get the event.                            *)
LEMMA LockStep ==
  ASSUME FaithInv, DispatchLock
  PROVE  FaithInv'
<1>1. dispatch \in Dispatch /\ watchers \subseteq Watchers /\ Phases
  BY Zenon DEF FaithInv, StoreInv, StoreTypes, WatchTypes, DispatchLock
<1>2. /\ dispatch' \in Dispatch /\ dispatch'.phase = "add" /\ dispatch'.todo = watchers
      /\ dispatch'.blocked = dispatch.blocked /\ dispatch'.failed = dispatch.failed
      /\ dispatch'.event = dispatch.event
  BY <1>1, Zenon DEF DispatchLock, Dispatch
<1>3. dispatch # Nil /\ dispatch' # Nil /\ dispatch.phase = "taken" /\ watchers' = watchers
  BY <1>2, NilIsNone, Zenon DEF DispatchLock, stopVars
<1>4. dispatch.blocked = {} /\ dispatch.failed = {}
  BY <1>1, <1>3, Zenon DEF Phases
<1>5. Phases'
  BY <1>2, <1>3, <1>4 DEF Phases
<1>6. ASSUME NEW w \in Watchers, Live(w)' PROVE Live(w) /\ Dispatched(w)' = Dispatched(w)
  <2>1. Live(w)
    BY <1>3, <1>4, <1>6, Zenon DEF Live, DispatchLock, processVars
  <2>2. w \in dispatch'.todo
    BY <1>2, <2>1, Zenon DEF Live
  <2> QED  BY <1>2, <1>3, <2>1, <2>2, Zenon DEF Dispatched
<1>7. DispatchOnly
  BY Zenon DEF DispatchOnly, DispatchLock
<1> QED  BY <1>2, <1>3, <1>5, <1>6, <1>7, QuietDispatch, Zenon

LEMMA WaitStep ==
  ASSUME FaithInv, DispatchWait
  PROVE  FaithInv'
<1>1. dispatch \in Dispatch /\ Phases
  BY Zenon DEF FaithInv, StoreInv, StoreTypes, DispatchWait
<1>2. /\ dispatch' \in Dispatch /\ dispatch'.phase = "wait" /\ dispatch'.todo = dispatch.todo
      /\ dispatch'.blocked = dispatch.blocked /\ dispatch'.failed = dispatch.failed
      /\ dispatch'.event = dispatch.event
  BY <1>1 DEF DispatchWait, Dispatch
<1>3. /\ dispatch # Nil /\ dispatch' # Nil /\ dispatch.phase = "add" /\ dispatch.todo = {}
      /\ watchers' = watchers /\ proc' = proc
  BY <1>2, NilIsNone, Zenon DEF DispatchWait, stopVars, processVars
<1>4. dispatch.failed = {} /\ dispatch.blocked \subseteq watchers
  BY <1>1, <1>3 DEF Phases
<1>5. Phases'
  BY <1>2, <1>3, <1>4 DEF Phases
<1>6. ASSUME NEW w \in Watchers, Live(w)' PROVE Live(w) /\ Dispatched(w)' = Dispatched(w)
  <2>1. dispatch.phase # "taken" /\ dispatch'.phase # "taken"
    BY <1>2, <1>3
  <2> QED  BY <1>2, <1>3, <1>6, <2>1, Zenon DEF Live, Dispatched
<1>7. DispatchOnly
  BY Zenon DEF DispatchOnly, DispatchWait
<1> QED  BY <1>2, <1>3, <1>5, <1>6, <1>7, QuietDispatch, Zenon

(* No live watcher waits for the event any more.                            *)
LEMMA UnlockStep ==
  ASSUME FaithInv, DispatchUnlock
  PROVE  FaithInv'
<1>1. dispatch \in Dispatch /\ Phases
  BY Zenon DEF FaithInv, StoreInv, StoreTypes, DispatchUnlock
<1>2. /\ dispatch # Nil /\ dispatch.phase = "wait" /\ dispatch.blocked = {} /\ dispatch.todo = {}
      /\ watchers' = watchers /\ proc' = proc
  BY <1>1, Zenon DEF DispatchUnlock, stopVars, processVars, Phases
<1>3. CASE dispatch.failed = {} /\ dispatch' = Nil
  <2>1. Phases' /\ dispatch' \in Dispatch \cup {Nil}
    BY <1>3, Zenon DEF Phases
  <2>2. ASSUME NEW w \in Watchers, Live(w)' PROVE Live(w) /\ Dispatched(w)' = Dispatched(w)
    <3>1. "wait" # "taken"
      OBVIOUS
    <3> QED  BY <1>2, <1>3, <2>2, <3>1, Zenon DEF Live, Dispatched
  <2>3. DispatchOnly
    BY Zenon DEF DispatchOnly, DispatchUnlock
  <2> QED  BY <1>3, <2>1, <2>2, <2>3, QuietDispatch, Zenon
<1>4. CASE dispatch' = [dispatch EXCEPT !.phase = "stop"]
  <2>1. /\ dispatch' \in Dispatch /\ dispatch'.phase = "stop" /\ dispatch'.todo = dispatch.todo
        /\ dispatch'.blocked = dispatch.blocked /\ dispatch'.failed = dispatch.failed
        /\ dispatch'.event = dispatch.event
    BY <1>1, <1>4 DEF Dispatch
  <2>2. Phases'
    BY <1>2, <2>1 DEF Phases
  <2>3. ASSUME NEW w \in Watchers, Live(w)' PROVE Live(w) /\ Dispatched(w)' = Dispatched(w)
    <3>1. "wait" # "taken" /\ "stop" # "taken"
      OBVIOUS
    <3>2. dispatch' # Nil
      BY <2>1, NilIsNone, Zenon
    <3>3. Live(w)
      BY <1>2, <2>1, <2>3, <3>2, Zenon DEF Live
    <3>4. Dispatched(w) = Nil /\ Dispatched(w)' = Nil
      BY <1>2, <2>1, <3>1, <3>2, Zenon DEF Dispatched
    <3> QED  BY <3>3, <3>4, Zenon
  <2>4. DispatchOnly
    BY Zenon DEF DispatchOnly, DispatchUnlock
  <2> QED  BY <1>2, <2>1, <2>2, <2>3, <2>4, QuietDispatch, Zenon
<1> QED  BY <1>3, <1>4, Zenon DEF DispatchUnlock

(* A watcher that is given up is not live: it may miss the event.           *)
LEMMA TimeoutStep ==
  ASSUME FaithInv, NEW w1 \in Watchers, addTimeout(w1)
  PROVE  FaithInv'
<1>1. dispatch \in Dispatch /\ Phases
  BY Zenon DEF FaithInv, StoreInv, StoreTypes, addTimeout
<1>2. /\ dispatch' \in Dispatch /\ dispatch'.phase = dispatch.phase /\ dispatch'.todo = dispatch.todo
      /\ dispatch'.blocked = dispatch.blocked \ {w1} /\ dispatch'.failed = dispatch.failed \cup {w1}
      /\ dispatch'.event = dispatch.event
  BY <1>1, Zenon DEF addTimeout, Dispatch
<1>3. /\ dispatch # Nil /\ dispatch' # Nil /\ dispatch.phase = "wait"
      /\ watchers' = watchers /\ proc' = proc
  BY <1>2, NilIsNone, Zenon DEF addTimeout, stopVars, processVars
<1>4. dispatch.todo = {} /\ dispatch.blocked \subseteq watchers /\ dispatch.blocked \cap dispatch.failed = {}
  BY <1>1, <1>3 DEF Phases
<1>5. Phases'
  BY <1>2, <1>3, <1>4 DEF Phases
<1>6. ASSUME NEW w \in Watchers, Live(w)' PROVE Live(w) /\ Dispatched(w)' = Dispatched(w)
  <2>1. dispatch.phase # "taken" /\ dispatch'.phase # "taken"
    BY <1>2, <1>3
  <2>2. w # w1 /\ Live(w)
    BY <1>2, <1>3, <1>6, Zenon DEF Live
  <2> QED  BY <1>2, <1>3, <2>1, <2>2, Zenon DEF Dispatched
<1>7. DispatchOnly
  BY Zenon DEF DispatchOnly, addTimeout
<1> QED  BY <1>2, <1>3, <1>5, <1>6, <1>7, QuietDispatch, Zenon

(* A watcher that failed is stopped before the dispatcher goes on.          *)
LEMMA StoppedStep ==
  ASSUME FaithInv, NEW w1 \in Watchers, DispatchStopped(w1)
  PROVE  FaithInv'
<1>1. dispatch \in Dispatch /\ Phases /\ Registered
  BY Zenon DEF FaithInv, StoreInv, StoreTypes, DispatchStopped
<1>2. /\ dispatch # Nil /\ dispatch.phase = "stop" /\ dispatch.blocked = {} /\ dispatch.todo = {}
      /\ watchers' = watchers /\ proc' = proc
  BY <1>1, Zenon DEF DispatchStopped, stopVars, processVars, Phases
<1>3. w1 \notin watchers
  <2>1. stop[w1] # "no"
    BY DEF DispatchStopped
  <2> QED  BY <1>1, <2>1, Zenon DEF Registered
<1>4. "stop" # "taken"
  OBVIOUS
<1>5. CASE dispatch.failed = {w1} /\ dispatch' = Nil
  <2>1. Phases' /\ dispatch' \in Dispatch \cup {Nil}
    BY <1>5, Zenon DEF Phases
  <2>2. ASSUME NEW w \in Watchers, Live(w)' PROVE Live(w) /\ Dispatched(w)' = Dispatched(w)
    BY <1>2, <1>3, <1>4, <1>5, <2>2, Zenon DEF Live, Dispatched
  <2>3. DispatchOnly
    BY Zenon DEF DispatchOnly, DispatchStopped
  <2> QED  BY <1>5, <2>1, <2>2, <2>3, QuietDispatch, Zenon
<1>6. CASE dispatch' = [dispatch EXCEPT !.failed = @ \ {w1}]
  <2>1. /\ dispatch' \in Dispatch /\ dispatch'.phase = "stop" /\ dispatch'.todo = dispatch.todo
        /\ dispatch'.blocked = dispatch.blocked /\ dispatch'.failed = dispatch.failed \ {w1}
        /\ dispatch'.event = dispatch.event
    BY <1>1, <1>2, <1>6 DEF Dispatch
  <2>2. Phases'
    BY <1>2, <2>1 DEF Phases
  <2>3. ASSUME NEW w \in Watchers, Live(w)' PROVE Live(w) /\ Dispatched(w)' = Dispatched(w)
    <3>1. dispatch' # Nil
      BY <2>1, NilIsNone, Zenon
    <3>2. w # w1 /\ Live(w)
      BY <1>2, <1>3, <2>1, <2>3, <3>1, Zenon DEF Live
    <3> QED  BY <1>2, <1>4, <2>1, <3>1, <3>2, Zenon DEF Dispatched
  <2>4. DispatchOnly
    BY Zenon DEF DispatchOnly, DispatchStopped
  <2> QED  BY <1>2, <2>1, <2>2, <2>3, <2>4, QuietDispatch, Zenon
<1> QED  BY <1>5, <1>6, Zenon DEF DispatchStopped

LEMMA StutterFaith ==
  ASSUME FaithInv, UNCHANGED vars
  PROVE  FaithInv'
<1>1. DispatchOnly /\ dispatch' = dispatch
  BY Zenon DEF vars, DispatchOnly, dispatchVars
<1>2. StoreTypes /\ Phases
  BY Zenon DEF FaithInv, StoreInv
<1>3. Phases' /\ dispatch' \in Dispatch \cup {Nil}
  BY <1>1, <1>2, Zenon DEF DispatchOnly, stopVars, Phases, StoreTypes
<1>4. \A w \in Watchers : Live(w)' => Live(w) /\ Dispatched(w)' = Dispatched(w)
  BY <1>1, Zenon DEF DispatchOnly, stopVars, processVars, Live, Dispatched
<1> QED  BY <1>1, <1>3, <1>4, QuietDispatch, Zenon

-----------------------------------------------------------------------------
(* process and sendWatchEvent change pending, result, the list and input of *)
(* one watcher.                                                             *)

LEMMA LeadsOne ==
  ASSUME NEW P, NEW r, NEW a, NEW e, NEW b, Link(P, r, a, e, b)
  PROVE  Leads(P, r, <<e>>, a, b)
<1> DEFINE c == <<a, b>>
<1>1. c[1] = a /\ c[2] = b /\ Len(<<e>>) = 1 /\ <<e>>[1] = e
  OBVIOUS
<1>2. c[Len(<<e>>) + 1] = b /\ \A i \in 1 .. Len(<<e>>) : i = 1 /\ i + 1 = 2
  BY <1>1
<1>3. Sound(P, a)
  BY Zenon DEF Link
<1>4. \A i \in 1 .. Len(<<e>>) : Link(P, r, c[i], <<e>>[i], c[i + 1])
  BY <1>1, <1>2
<1> QED  BY <1>1, <1>2, <1>3, <1>4, Zenon DEF Leads

LEMMA LeadsAppend ==
  ASSUME NEW P, NEW r, NEW S, NEW s \in Seq(S), NEW e \in S, NEW a, NEW b, NEW d,
         Leads(P, r, s, a, b), Link(P, r, b, e, d)
  PROVE  Leads(P, r, Append(s, e), a, d)
<1>1. Leads(P, r, <<e>>, b, d)
  BY LeadsOne, Zenon
<1>2. <<e>> \in Seq(S) /\ Append(s, e) = s \o <<e>>
  OBVIOUS
<1>3. Leads(P, r, s \o <<e>>, a, d)
  BY <1>1, <1>2, LeadsConcat, Zenon
<1> QED  BY <1>2, <1>3, Zenon

LEMMA LiveIsBusy ==
  ASSUME Registered, NEW w \in Watchers
  PROVE  Live(w) => Busy(w)
<1>1. "no" # "closed"
  OBVIOUS
<1> QED  BY <1>1, Zenon DEF Registered, Live, Busy

(* What is under way in the goroutine of w1 leads to where it led.          *)
LEMMA ProcessStep ==
  ASSUME FaithInv, NEW w1 \in Watchers, proc[w1] # "none",
         UNCHANGED <<startRV, proc, storeVars, dispatchVars, stopVars, clientVars>>,
         pending' \in [Watchers -> Message \cup {Nil}], result' \in [Watchers -> Seq(Message)],
         initEvents' \in [Watchers -> Seq(InitEvent \cup {Bookmark})],
         input' \in [Watchers -> Seq(Event)],
         \A w \in Watchers : w # w1 =>
            /\ pending'[w] = pending[w] /\ result'[w] = result[w]
            /\ initEvents'[w] = initEvents[w] /\ input'[w] = input[w],
         NEW a, NEW b, NEW d, NEW y, NEW u, NEW v, NEW z,
         Near(w1, a, b)', Busy(w1) => Middle(w1, b, d, y)', Live(w1) => Far(w1, y, u, v, z)
  PROVE  FaithInv'
<1>1. /\ startRV' = startRV /\ proc' = proc /\ resource' = resource /\ history' = history
      /\ dispatch' = dispatch /\ incoming' = incoming /\ writer' = writer /\ storage' = storage
      /\ watchers' = watchers /\ stop' = stop /\ view' = view /\ synced' = synced
  BY Zenon DEF storeVars, dispatchVars, stopVars, clientVars
<1>2. WatchTypes /\ Phases /\ Registered /\ Fresh
  BY Zenon DEF FaithInv, StoreInv
<1>3. WatchTypes'
  BY <1>1, <1>2, Zenon DEF WatchTypes
<1>4. Registered' /\ Phases'
  BY <1>1, <1>2, Zenon DEF Registered, Phases
<1>5. Fresh'
  BY <1>1, <1>2, Zenon DEF Fresh
<1>6. Chain(w1)'
  <2>1. Busy(w1)' => Busy(w1)
    BY <1>1, Zenon DEF Busy
  <2>2. Live(w1)' => Far(w1, y, u, v, z)'
    <3>1. (Live(w1)' => Live(w1)) /\ Dispatched(w1)' = Dispatched(w1)
      BY <1>1, Zenon DEF Live, Dispatched
    <3>2. Past(w1)' = Past(w1)
      BY <1>1, PastSame, Zenon
    <3> QED  BY <1>1, <3>1, <3>2, FarSame, Zenon
  <2> QED  BY <2>1, <2>2, Zenon DEF Chain
<1> QED  BY <1>1, <1>3, <1>4, <1>5, <1>6, WatcherStep, Zenon

(* The pending message goes to the end of result, or is dropped once done   *)
(* is closed.                                                               *)
LEMMA SendStep ==
  ASSUME FaithInv, NEW w1 \in Watchers, sendWatchEvent(w1)
  PROVE  FaithInv'
<1>1. /\ pending[w1] # Nil /\ pending' = [pending EXCEPT ![w1] = Nil]
      /\ UNCHANGED <<initEvents, startRV, proc, storeVars, dispatchVars, stopVars, clientVars, input>>
  BY Zenon DEF sendWatchEvent
<1>2. WatchTypes /\ Registered /\ Fresh
  BY Zenon DEF FaithInv, StoreInv
<1>3. /\ proc[w1] # "none" /\ pending[w1] \in Message /\ pending'[w1] = Nil
      /\ pending' \in [Watchers -> Message \cup {Nil}]
      /\ \A w \in Watchers : w # w1 => pending'[w] = pending[w]
  <2>1. proc[w1] # "none"
    BY <1>1, <1>2, Zenon DEF Fresh
  <2>2. pending[w1] \in Message
    BY <1>1, <1>2, Zenon DEF WatchTypes
  <2> QED  BY <1>1, <1>2, <2>1, <2>2 DEF WatchTypes
<1>4. /\ Past(w1)' = Past(w1) /\ Me(w1)' = Me(w1) /\ resource' = resource /\ startRV' = startRV
      /\ initEvents' = initEvents /\ input' = input
  <2>1. /\ resource' = resource /\ startRV' = startRV /\ history' = history
        /\ initEvents' = initEvents /\ input' = input /\ view' = view /\ synced' = synced
    BY <1>1, Zenon DEF storeVars, clientVars
  <2> QED  BY <2>1, PastSame, Zenon DEF Me
<1>5. PICK a, b, d, y, u, v, z :
        Near(w1, a, b) /\ (Busy(w1) => Middle(w1, b, d, y)) /\ (Live(w1) => Far(w1, y, u, v, z))
  BY Zenon DEF FaithInv, Chain
<1>6. initEvents' \in [Watchers -> Seq(InitEvent \cup {Bookmark})] /\ input' \in [Watchers -> Seq(Event)]
  BY <1>2, <1>4, Zenon DEF WatchTypes
<1>7. UNCHANGED <<startRV, proc, storeVars, dispatchVars, stopVars, clientVars>>
  BY <1>1, Zenon
<1>8. CASE result' = [result EXCEPT ![w1] = Append(@, pending[w1])]
  <2>1. result[w1] \in Seq(Message)
    BY <1>2, Zenon DEF WatchTypes
  <2>2. Append(result[w1], pending[w1]) \in Seq(Message)
    BY <1>3, <2>1
  <2>3. /\ result' \in [Watchers -> Seq(Message)] /\ result'[w1] = Append(result[w1], pending[w1])
        /\ \A w \in Watchers : w # w1 => result'[w] = result[w]
    BY <1>2, <1>8, <2>2 DEF WatchTypes
  <2>4. Leads(Past(w1), resource, Append(result[w1], pending[w1]), Me(w1), b)
    BY <1>3, <1>5, <2>1, LeadsAppend, Zenon DEF Near
  <2>5. Link(Past(w1), resource, b, Nil, b)
    BY <1>5, NilLinks, Zenon DEF Near, Link
  <2>6. Near(w1, b, b)'
    BY <1>3, <1>4, <2>3, <2>4, <2>5, Zenon DEF Near
  <2>7. Busy(w1) => Middle(w1, b, d, y)'
    BY <1>4, <1>5, MiddleSame, Zenon
  <2> QED  BY <1>3, <1>4, <1>5, <1>6, <1>7, <2>3, <2>6, <2>7, ProcessStep, Zenon
<1>9. CASE stop[w1] = "closed" /\ UNCHANGED result
  <2>1. result' \in [Watchers -> Seq(Message)] /\ \A w \in Watchers : w # w1 => result'[w] = result[w]
    BY <1>2, <1>9, Zenon DEF WatchTypes
  <2>2. ~Busy(w1) /\ ~Live(w1)
    BY <1>2, <1>9, LiveIsBusy, Zenon DEF Busy
  <2>3. Link(Past(w1), resource, a, Nil, a)
    BY <1>5, NilLinks, Zenon DEF Near, Link
  <2>4. Near(w1, a, a)'
    BY <1>3, <1>4, <1>5, <1>9, <2>3, Zenon DEF Near
  <2> QED  BY <1>3, <1>4, <1>5, <1>6, <1>7, <2>1, <2>2, <2>4, ProcessStep, Zenon
<1> QED  BY <1>8, <1>9, Zenon DEF sendWatchEvent

-----------------------------------------------------------------------------
(* What process makes of an event takes the client from the content before  *)
(* the write to the content after it.                                       *)

LEMMA EventIsNoBookmark ==
  ASSUME NEW e \in Event
  PROVE  e # Bookmark
<1>1. DOMAIN e = {"key", "prev", "curr", "rv"}
  BY DEF Event
<1>2. DOMAIN Bookmark = {"type"}
  BY DEF Bookmark
<1>3. "key" \notin {"type"} /\ "key" \in {"key", "prev", "curr", "rv"}
  OBVIOUS
<1> QED  BY <1>1, <1>2, <1>3, Zenon

LEMMA BodyType ==
  ASSUME NEW r \in DOMAIN Objects, NEW w \in Watchers, NEW obj \in Object
  PROVE  Body(r, w, obj) \in SUBSET Items
<1>1. r \in {"NetworkPolicy", "AddressGroup", "AppliedToGroup"}
  BY RamStoreAssumption, Zenon
<1>2. obj.body \in SUBSET Items
  BY DEF Object
<1>3. ToAppliedToGroupMsg(w, obj) \in SUBSET Items
  BY <1>2, Zenon DEF ToAppliedToGroupMsg
<1> QED  BY <1>1, <1>2, <1>3 DEF Body, ToNetworkPolicyMsg, ToAddressGroupMsg

LEMMA SelectedType ==
  ASSUME NEW r \in DOMAIN Objects, NEW w \in Watchers, NEW content \in Contents
  PROVE  Selected(r, w, content) \in Knowledge
<1>1. ASSUME NEW k \in Keys, content[k] # Nil PROVE Body(r, w, content[k]) \in SUBSET Items
  <2>1. content[k] \in Object
    BY <1>1, Zenon DEF Contents
  <2> QED  BY <2>1, BodyType, Zenon
<1> QED  BY <1>1, Zenon DEF Selected, Knowledge

(* An update within the selection: the message is the object, or the patch  *)
(* that makes the new members of the old ones.                              *)
LEMMA ModifiedEffect ==
  ASSUME NEW r \in DOMAIN Objects, NEW w \in Watchers, NEW e \in Event, e.prev \in Object,
         e.curr \in Object, NEW known \in Knowledge, known[e.key] = Body(r, w, e.prev)
  PROVE  LET m == Modified(r, w, e)
         IN  /\ m \in Message \cup {Nil} /\ m # Bookmark /\ (m # Nil => m.type = "MODIFIED" /\ m.key = e.key)
             /\ Learn(r, known, m) = [known EXCEPT ![e.key] = Body(r, w, e.curr)]
<1>1. e.key \in Keys
  BY DEF Event
<1>2. Body(r, w, e.curr) \in SUBSET Items /\ Body(r, w, e.prev) \in SUBSET Items
  BY BodyType, Zenon
<1>3. CASE r = "NetworkPolicy"
  <2> DEFINE m == [type |-> "MODIFIED", key |-> e.key, body |-> e.curr.body]
  <2>1. Modified(r, w, e) = m /\ Body(r, w, e.curr) = e.curr.body
    BY <1>3 DEF Modified, Body, ToNetworkPolicyMsg
  <2>2. m \in Message /\ m.type = "MODIFIED" /\ m.key = e.key /\ m.body = e.curr.body /\ m # Bookmark
    BY <1>1, <1>2, <2>1 DEF Message, Bookmark
  <2>3. Learn(r, known, m) = [known EXCEPT ![e.key] = Body(r, w, e.curr)]
    BY <1>3, <2>1, <2>2, NilIsNone, Zenon DEF Learn, Apply
  <2> HIDE DEF m
  <2> QED  BY <2>1, <2>2, <2>3, Zenon
<1>4. CASE r # "NetworkPolicy"
  <2> DEFINE p == Body(r, w, e.prev)
             q == Body(r, w, e.curr)
             m == [type |-> "MODIFIED", key |-> e.key, added |-> q \ p, removed |-> p \ q]
  <2>1. Modified(r, w, e) = IF q = p THEN Nil ELSE m
    <3>1. r \in {"AddressGroup", "AppliedToGroup"}
      BY <1>4, RamStoreAssumption, Zenon
    <3> QED  BY <3>1, Zenon DEF Modified, Patch, PatchAddressGroup, PatchAppliedToGroup, Body
  <2>2. p \in SUBSET Items /\ q \in SUBSET Items
    BY <1>2, Zenon
  <2> HIDE DEF p, q
  <2>3. /\ m \in Message /\ m.type = "MODIFIED" /\ m.key = e.key /\ m.added = q \ p
        /\ m.removed = p \ q /\ m # Bookmark
    BY <1>1, <2>2 DEF Message, Bookmark
  <2>4. known[e.key] = p
    BY Zenon DEF p
  <2>5. Learn(r, known, m) = [known EXCEPT ![e.key] = q]
    <3>1. Learn(r, known, m) = Apply(r, known, m)
      BY <2>3, NilIsNone, Zenon DEF Learn
    <3>2. Apply(r, known, m) = [known EXCEPT ![e.key] = (@ \ (p \ q)) \cup (q \ p)]
      BY <1>4, <2>3, Zenon DEF Apply
    <3>3. (p \ (p \ q)) \cup (q \ p) = q
      OBVIOUS
    <3> QED  BY <1>1, <2>4, <3>1, <3>2, <3>3, Zenon DEF Knowledge
  <2>6. q = p => Learn(r, known, Nil) = [known EXCEPT ![e.key] = q]
    BY <1>1, <2>4 DEF Learn, Knowledge
  <2> HIDE DEF m
  <2>7. q = Body(r, w, e.curr)
    BY Zenon DEF q
  <2> QED  BY <2>1, <2>3, <2>5, <2>6, <2>7, NilIsNone, Zenon
<1> QED  BY <1>3, <1>4, Zenon

Chosen(w, key, obj) == obj # Nil /\ keyAndSpanSelectFunc(w, key, obj)

(* The four outcomes of an event that is newer than the watch.              *)
LEMMA ConvertedCases ==
  ASSUME NEW r, NEW w, NEW since, NEW e \in Event, e.rv > since
  PROVE  LET m == Converted(r, since, w, e, FALSE)
         IN  /\ ~Chosen(w, e.key, e.curr) /\ ~Chosen(w, e.key, e.prev) => m = Nil
             /\ Chosen(w, e.key, e.curr) /\ ~Chosen(w, e.key, e.prev) =>
                   m = [type |-> "ADDED", key |-> e.key, body |-> Body(r, w, e.curr)]
             /\ Chosen(w, e.key, e.curr) /\ Chosen(w, e.key, e.prev) => m = Modified(r, w, e)
             /\ ~Chosen(w, e.key, e.curr) /\ Chosen(w, e.key, e.prev) =>
                   m = [type |-> "DELETED", key |-> e.key]
<1> DEFINE sel == isSelected(w, e, FALSE)
<1>1. Converted(r, since, w, e, FALSE) = ToWatchEvent(r, w, e, FALSE)
  BY NilIsNone, Zenon DEF Converted
<1>2. sel.prev = Chosen(w, e.key, e.prev) /\ sel.curr = Chosen(w, e.key, e.curr)
  BY DEF isSelected, Chosen
<1>3. e # Bookmark
  BY EventIsNoBookmark, Zenon
<1>4. ~sel.curr /\ ~sel.prev => ToWatchEvent(r, w, e, FALSE) = Nil
  BY <1>3, Zenon DEF ToWatchEvent
<1>5. sel.curr /\ ~sel.prev =>
        ToWatchEvent(r, w, e, FALSE) = [type |-> "ADDED", key |-> e.key, body |-> Body(r, w, e.curr)]
  BY <1>3, Zenon DEF ToWatchEvent
<1>6. sel.curr /\ sel.prev => ToWatchEvent(r, w, e, FALSE) = Modified(r, w, e)
  BY <1>3, Zenon DEF ToWatchEvent
<1>7. ~sel.curr /\ sel.prev => ToWatchEvent(r, w, e, FALSE) = [type |-> "DELETED", key |-> e.key]
  BY <1>3, Zenon DEF ToWatchEvent
<1> HIDE DEF sel
<1> QED  BY <1>1, <1>2, <1>4, <1>5, <1>6, <1>7, Zenon

(* Whatever the selection says of the old and the new object, the client    *)
(* knows what it should after the event.                                    *)
LEMMA ConvertedEffect ==
  ASSUME NEW r \in DOMAIN Objects, NEW w \in Watchers, NEW since, NEW e \in Event, e.rv > since,
         NEW content \in Contents, content[e.key] = e.prev,
         NEW a, a.known = Selected(r, w, content)
  PROVE  LET m == Converted(r, since, w, e, FALSE)
         IN  /\ m \in Message \cup {Nil} /\ m # Bookmark
             /\ Learn(r, a.known, m) = Selected(r, w, [content EXCEPT ![e.key] = e.curr])
             /\ Applies(a, m)
<1> DEFINE m == Converted(r, since, w, e, FALSE)
           known == Selected(r, w, content)
           new == Selected(r, w, [content EXCEPT ![e.key] = e.curr])
<1>1. e.key \in Keys /\ e.prev \in Object \cup {Nil} /\ e.curr \in Object \cup {Nil}
  BY DEF Event
<1>2. known \in Knowledge
  BY SelectedType, Zenon
<1>3. known[e.key] = IF Chosen(w, e.key, e.prev) THEN Body(r, w, e.prev) ELSE Nil
  BY <1>1, Zenon DEF Selected, Chosen
<1>4. new = [known EXCEPT ![e.key] = IF Chosen(w, e.key, e.curr) THEN Body(r, w, e.curr) ELSE Nil]
  <2>1. PICK c : c = [content EXCEPT ![e.key] = e.curr]
    BY Zenon
  <2>2. c[e.key] = e.curr /\ \A k \in Keys : k # e.key => c[k] = content[k]
    BY <1>1, <2>1 DEF Contents
  <2>3. new = Selected(r, w, c)
    BY <2>1, Zenon
  <2>5. Selected(r, w, c) = [k \in Keys |-> IF Chosen(w, k, c[k]) THEN Body(r, w, c[k]) ELSE Nil]
    BY Zenon DEF Selected, Chosen
  <2>4. known = [k \in Keys |-> IF Chosen(w, k, content[k]) THEN Body(r, w, content[k]) ELSE Nil]
    BY Zenon DEF Selected, Chosen
  <2> HIDE DEF new, known
  <2> QED  BY <1>1, <2>2, <2>3, <2>4, <2>5
<1>5. /\ Chosen(w, e.key, e.prev) => e.prev \in Object /\ Body(r, w, e.prev) # Nil
      /\ Chosen(w, e.key, e.curr) => e.curr \in Object /\ Body(r, w, e.curr) \in SUBSET Items
  <2>1. Chosen(w, e.key, e.prev) => e.prev \in Object
    BY <1>1, Zenon DEF Chosen
  <2>2. Chosen(w, e.key, e.curr) => e.curr \in Object
    BY <1>1, Zenon DEF Chosen
  <2> QED  BY <2>1, <2>2, BodyType, NilIsNone, Zenon
<1> HIDE DEF known, new
<1>6. SUFFICES /\ m \in Message \cup {Nil} /\ m # Bookmark /\ Learn(r, known, m) = new
               /\ m # Nil => m.key = e.key /\ (m.type = "ADDED" <=> ~Chosen(w, e.key, e.prev))
  <2>1. m # Nil => (m.type = "ADDED" <=> known[m.key] = Nil)
    BY <1>3, <1>5, <1>6, Zenon
  <2>2. a.known = known
    BY Zenon DEF known
  <2>3. new = Selected(r, w, [content EXCEPT ![e.key] = e.curr])
    BY Zenon DEF new
  <2> QED  BY <1>6, <2>1, <2>2, <2>3, Zenon DEF Applies
<1>7. CASE ~Chosen(w, e.key, e.curr) /\ ~Chosen(w, e.key, e.prev)
  <2>1. m = Nil
    BY <1>7, ConvertedCases, Zenon
  <2>2. new = known
    BY <1>1, <1>2, <1>3, <1>4, <1>7 DEF Knowledge
  <2>3. Learn(r, known, Nil) = known
    BY Zenon DEF Learn
  <2> HIDE DEF m
  <2> QED  BY <2>1, <2>2, <2>3, NilIsNone, Zenon
<1>8. CASE Chosen(w, e.key, e.curr) /\ ~Chosen(w, e.key, e.prev)
  <2>1. m = [type |-> "ADDED", key |-> e.key, body |-> Body(r, w, e.curr)]
    BY <1>8, ConvertedCases, Zenon
  <2> HIDE DEF m
  <2>2. m \in Message /\ m.type = "ADDED" /\ m.key = e.key /\ m.body = Body(r, w, e.curr) /\ m # Bookmark
    BY <1>1, <1>5, <1>8, <2>1 DEF Message, Bookmark
  <2>3. Learn(r, known, m) = Apply(r, known, m)
    BY <2>2, NilIsNone, Zenon DEF Learn
  <2>4. Apply(r, known, m) = [known EXCEPT ![e.key] = Body(r, w, e.curr)]
    BY <2>2 DEF Apply
  <2> QED  BY <1>4, <1>8, <2>2, <2>3, <2>4, Zenon
<1>9. CASE Chosen(w, e.key, e.curr) /\ Chosen(w, e.key, e.prev)
  <2>1. m = Modified(r, w, e)
    BY <1>9, ConvertedCases, Zenon
  <2> HIDE DEF m
  <2>2. known[e.key] = Body(r, w, e.prev) /\ e.prev \in Object /\ e.curr \in Object
    BY <1>3, <1>5, <1>9, Zenon
  <2>4. /\ m \in Message \cup {Nil} /\ m # Bookmark /\ (m # Nil => m.type = "MODIFIED" /\ m.key = e.key)
        /\ Learn(r, known, m) = [known EXCEPT ![e.key] = Body(r, w, e.curr)]
    BY <1>2, <2>1, <2>2, ModifiedEffect
  <2>3. "MODIFIED" # "ADDED"
    OBVIOUS
  <2> QED  BY <1>4, <1>9, <2>3, <2>4, Zenon
<1>10. CASE ~Chosen(w, e.key, e.curr) /\ Chosen(w, e.key, e.prev)
  <2>1. m = [type |-> "DELETED", key |-> e.key]
    BY <1>10, ConvertedCases, Zenon
  <2> HIDE DEF m
  <2>2. m \in Message /\ m.type = "DELETED" /\ m.key = e.key /\ m # Bookmark /\ m.type # "ADDED"
    BY <1>1, <2>1 DEF Message, Bookmark
  <2>3. Learn(r, known, m) = Apply(r, known, m)
    BY <2>2, NilIsNone, Zenon DEF Learn
  <2>4. Apply(r, known, m) = [known EXCEPT ![e.key] = Nil]
    BY <2>2 DEF Apply
  <2> QED  BY <1>4, <1>10, <2>2, <2>3, <2>4, Zenon
<1> QED  BY <1>7, <1>8, <1>9, <1>10, Zenon

(* Old events are dropped, and what is dropped changes nothing.             *)
LEMMA LinkNil ==
  ASSUME NEW P, NEW r, NEW a, NEW b, Link(P, r, a, Nil, b)
  PROVE  a = b /\ Sound(P, a)
<1>1. Sound(P, a) /\ b = After(r, a, Nil)
  BY Zenon DEF Link
<1>2. Link(P, r, a, Nil, a)
  BY <1>1, NilLinks, Zenon
<1>3. a = After(r, a, Nil)
  BY <1>2, Zenon DEF Link
<1> QED  BY <1>1, <1>3, Zenon

LEMMA LeadsNone ==
  ASSUME NEW P, NEW r, NEW a, NEW b, Leads(P, r, <<>>, a, b)
  PROVE  a = b
<1>1. PICK c : c[1] = a /\ c[Len(<<>>) + 1] = b
  BY Zenon DEF Leads
<1>2. Len(<<>>) + 1 = 1
  OBVIOUS
<1> QED  BY <1>1, <1>2, Zenon

(* An event of the list, for a client that does not know the object yet.    *)
LEMMA InitLinks ==
  ASSUME NEW P, NEW r \in DOMAIN Objects, NEW w \in Watchers, NEW since, NEW e \in Event,
         e.curr \in Object, NEW known \in Knowledge, known[e.key] = Nil,
         NEW new, new = [known EXCEPT ![e.key] = Body(r, w, e.curr)]
  PROVE  /\ Converted(r, since, w, e, TRUE) \in Message
         /\ Link(P, r, [known |-> known, synced |-> FALSE], Converted(r, since, w, e, TRUE),
                 [known |-> new, synced |-> FALSE])
<1> DEFINE a == [known |-> known, synced |-> FALSE]
           b == [known |-> new, synced |-> FALSE]
           m == Converted(r, since, w, e, TRUE)
<1>1. m = ToWatchEvent(r, w, e, TRUE)
  BY NilIsNone, Zenon DEF Converted
<1>2. isSelected(w, e, TRUE).curr /\ ~isSelected(w, e, TRUE).prev
  BY DEF isSelected
<1>3. ToWatchEvent(r, w, e, TRUE) = [type |-> "ADDED", key |-> e.key, body |-> Body(r, w, e.curr)]
  BY <1>2, EventIsNoBookmark, Zenon DEF ToWatchEvent
<1>4. e.key \in Keys /\ Body(r, w, e.curr) \in SUBSET Items
  <2>1. e.key \in Keys
    BY DEF Event
  <2> QED  BY <2>1, BodyType, Zenon
<1>5. m = [type |-> "ADDED", key |-> e.key, body |-> Body(r, w, e.curr)]
  BY <1>1, <1>3, Zenon
<1> HIDE DEF m
<1>6. m \in Message /\ m.type = "ADDED" /\ m.key = e.key /\ m.body = Body(r, w, e.curr) /\ m # Bookmark
  BY <1>4, <1>5 DEF Message, Bookmark
<1>7. Learn(r, known, m) = new
  <2>1. Learn(r, known, m) = Apply(r, known, m)
    BY <1>6, NilIsNone, Zenon DEF Learn
  <2>2. Apply(r, known, m) = [known EXCEPT ![e.key] = Body(r, w, e.curr)]
    BY <1>6 DEF Apply
  <2> QED  BY <2>1, <2>2, Zenon
<1>8. new \in Knowledge
  BY <1>4 DEF Knowledge
<1>9. a \in ClientState /\ b \in ClientState /\ a.known = known /\ b.known = new /\ ~a.synced /\ ~b.synced
  BY <1>8 DEF ClientState
<1>10. After(r, a, m) = b
  BY <1>6, <1>7, <1>9, Zenon DEF After
<1> HIDE DEF a, b
<1>11. Sound(P, a) /\ Sound(P, b) /\ Applies(a, m)
  BY <1>6, <1>9, Zenon DEF Sound, Applies
<1>12. Link(P, r, a, m, b)
  BY <1>10, <1>11, Zenon DEF Link
<1> QED  BY <1>6, <1>12, Zenon DEF a, b, m

LEMMA InitType ==
  ASSUME NEW r \in DOMAIN Objects, NEW w \in Watchers, NEW e \in InitEvent \cup {Bookmark}, NEW since
  PROVE  /\ Converted(r, since, w, e, TRUE) = ToWatchEvent(r, w, e, TRUE)
         /\ ToWatchEvent(r, w, e, TRUE) \in Message
<1>1. CASE e = Bookmark
  <2>1. Converted(r, since, w, e, TRUE) = ToWatchEvent(r, w, e, TRUE)
    BY <1>1, NilIsNone, Zenon DEF Converted
  <2>2. ToWatchEvent(r, w, Bookmark, TRUE) = Bookmark
    BY DEF ToWatchEvent
  <2> QED  BY <1>1, <2>1, <2>2, Zenon DEF Message
<1>2. CASE e \in InitEvent
  <2>1. e \in Event /\ e.curr \in Object /\ e.key \in Keys
    BY <1>2 DEF InitEvent, Event
  <2>2. Converted(r, since, w, e, TRUE) = ToWatchEvent(r, w, e, TRUE)
    BY <2>1, NilIsNone, Zenon DEF Converted
  <2>3. PICK known : known = [k \in Keys |-> Nil]
    BY Zenon
  <2>4. known \in Knowledge /\ known[e.key] = Nil
    BY <2>1, <2>3 DEF Knowledge
  <2>5. Converted(r, since, w, e, TRUE) \in Message
    BY <2>1, <2>4, InitLinks, Zenon
  <2> QED  BY <2>2, <2>5, Zenon
<1> QED  BY <1>1, <1>2, Zenon

(* Conversion of a channel, event by event.                                 *)
LEMMA ConvertHead ==
  ASSUME NEW r, NEW w, NEW since, NEW S, NEW s \in Seq(S), s # <<>>, NEW isInit \in BOOLEAN
  PROVE  /\ Convert(r, since, w, Tail(s), isInit) = Tail(Convert(r, since, w, s, isInit))
         /\ Head(Convert(r, since, w, s, isInit)) = Converted(r, since, w, Head(s), isInit)
         /\ Convert(r, since, w, s, isInit) # <<>>
         /\ \E T : Convert(r, since, w, s, isInit) \in Seq(T)
<1> DEFINE f(x) == Converted(r, since, w, x, isInit)
<1>1. /\ Convert(r, since, w, s, isInit) = [i \in DOMAIN s |-> f(s[i])]
      /\ Convert(r, since, w, Tail(s), isInit) = [i \in DOMAIN Tail(s) |-> f(Tail(s)[i])]
  BY Zenon DEF Convert
<1> HIDE DEF f
<1>2. PICK n \in Nat : n = Len(s) /\ DOMAIN s = 1 .. n /\ n > 0
  OBVIOUS
<1>3. DOMAIN Tail(s) = 1 .. (n - 1) /\ \A i \in 1 .. (n - 1) : Tail(s)[i] = s[i + 1]
  BY <1>2
<1> DEFINE T == {f(s[i]) : i \in 1 .. n}
           t == [i \in 1 .. n |-> f(s[i])]
<1>4. t \in Seq(T) /\ Len(t) = n /\ t # <<>>
  BY <1>2
<1>5. Tail(t) = [i \in 1 .. (n - 1) |-> f(s[i + 1])]
  BY <1>2, <1>4
<1>6. [i \in DOMAIN Tail(s) |-> f(Tail(s)[i])] = [i \in 1 .. (n - 1) |-> f(s[i + 1])]
  BY <1>3
<1>7. Head(t) = f(Head(s))
  BY <1>2, <1>4
<1>8. Convert(r, since, w, s, isInit) = t
  BY <1>1, <1>2, Zenon
<1>9. f(Head(s)) = Converted(r, since, w, Head(s), isInit)
  BY Zenon DEF f
<1> HIDE DEF t, T
<1> QED  BY <1>1, <1>4, <1>5, <1>6, <1>7, <1>8, <1>9, Zenon

LEMMA ConvertShort ==
  ASSUME NEW r, NEW w, NEW since, NEW e, NEW isInit \in BOOLEAN
  PROVE  /\ Convert(r, since, w, <<>>, isInit) = <<>>
         /\ Convert(r, since, w, <<e>>, isInit) = <<Converted(r, since, w, e, isInit)>>
BY DEF Convert

(* process takes the next object of its list.                               *)
LEMMA InitStep ==
  ASSUME FaithInv, NEW w1 \in Watchers, processInit(w1)
  PROVE  FaithInv'
<1> DEFINE e == Head(initEvents[w1])
           m == ToWatchEvent(resource, w1, e, TRUE)
           l == Convert(resource, startRV[w1], w1, initEvents[w1], TRUE)
<1>1. /\ proc[w1] = "running" /\ pending[w1] = Nil /\ initEvents[w1] # <<>>
      /\ pending' = [pending EXCEPT ![w1] = IF stop[w1] = "closed" THEN Nil ELSE m]
      /\ initEvents' = [initEvents EXCEPT ![w1] = Tail(@)]
      /\ UNCHANGED <<startRV, proc, storeVars, dispatchVars, stopVars, clientVars, input, result>>
  BY Zenon DEF processInit, Pending
<1>2. WatchTypes /\ Registered /\ resource \in DOMAIN Objects
  BY Zenon DEF FaithInv, StoreInv, StoreTypes
<1>3. initEvents[w1] \in Seq(InitEvent \cup {Bookmark})
  BY <1>2, Zenon DEF WatchTypes
<1>4. e \in InitEvent \cup {Bookmark} /\ Tail(initEvents[w1]) \in Seq(InitEvent \cup {Bookmark})
  BY <1>1, <1>3
<1>5. m \in Message /\ Converted(resource, startRV[w1], w1, e, TRUE) = m
  BY <1>2, <1>4, InitType, Zenon
<1> HIDE DEF m
<1>6. /\ initEvents' \in [Watchers -> Seq(InitEvent \cup {Bookmark})]
      /\ initEvents'[w1] = Tail(initEvents[w1])
      /\ \A w \in Watchers : w # w1 => initEvents'[w] = initEvents[w]
  BY <1>1, <1>2, <1>4 DEF WatchTypes
<1>7. /\ pending' \in [Watchers -> Message \cup {Nil}]
      /\ pending'[w1] = IF stop[w1] = "closed" THEN Nil ELSE m
      /\ \A w \in Watchers : w # w1 => pending'[w] = pending[w]
  BY <1>1, <1>2, <1>5 DEF WatchTypes
<1>8. /\ input' = input /\ result' = result /\ input' \in [Watchers -> Seq(Event)]
      /\ result' \in [Watchers -> Seq(Message)] /\ proc[w1] # "none"
      /\ UNCHANGED <<startRV, proc, storeVars, dispatchVars, stopVars, clientVars>>
  <2>1. "running" # "none"
    OBVIOUS
  <2> QED  BY <1>1, <1>2, <2>1, Zenon DEF WatchTypes
<1>9. Past(w1)' = Past(w1) /\ Me(w1)' = Me(w1) /\ resource' = resource /\ startRV' = startRV
  <2>1. /\ resource' = resource /\ startRV' = startRV /\ history' = history
        /\ view' = view /\ synced' = synced
    BY <1>1, Zenon DEF storeVars, clientVars
  <2> QED  BY <2>1, PastSame, Zenon DEF Me
<1>10. PICK a, b, d, y, u, v, z :
        Near(w1, a, b) /\ (Busy(w1) => Middle(w1, b, d, y)) /\ (Live(w1) => Far(w1, y, u, v, z))
  BY Zenon DEF FaithInv, Chain
<1>11. a = b
  BY <1>1, <1>10, LinkNil, Zenon DEF Near
<1>12. CASE stop[w1] = "closed"
  <2>1. ~Busy(w1) /\ ~Live(w1)
    BY <1>2, <1>12, LiveIsBusy, Zenon DEF Busy
  <2>2. Near(w1, a, b)'
    BY <1>1, <1>7, <1>8, <1>9, <1>10, <1>12, Zenon DEF Near
  <2> QED  BY <1>6, <1>7, <1>8, <2>1, <2>2, ProcessStep, Zenon
<1>13. CASE stop[w1] # "closed"
  <2>1. Busy(w1)
    BY <1>1, <1>13, Zenon DEF Busy
  <2>2. Leads(Past(w1), resource, l, b, d)
    BY <1>10, <2>1, Zenon DEF Middle
  <2>3. /\ Convert(resource, startRV[w1], w1, Tail(initEvents[w1]), TRUE) = Tail(l)
        /\ Head(l) = m /\ l # <<>> /\ \E T : l \in Seq(T)
    <3>1. PICK s : s = initEvents[w1]
      BY Zenon
    <3>2. s \in Seq(InitEvent \cup {Bookmark}) /\ s # <<>>
      BY <1>1, <1>3, <3>1, Zenon
    <3>3. /\ Convert(resource, startRV[w1], w1, Tail(s), TRUE)
                = Tail(Convert(resource, startRV[w1], w1, s, TRUE))
          /\ Head(Convert(resource, startRV[w1], w1, s, TRUE))
                = Converted(resource, startRV[w1], w1, Head(s), TRUE)
          /\ Convert(resource, startRV[w1], w1, s, TRUE) # <<>>
          /\ \E T : Convert(resource, startRV[w1], w1, s, TRUE) \in Seq(T)
      BY <3>2, ConvertHead, Zenon
    <3> QED  BY <1>5, <3>1, <3>3, Zenon
  <2> HIDE DEF l
  <2>4. PICK c : Link(Past(w1), resource, b, m, c) /\ Leads(Past(w1), resource, Tail(l), c, d)
    BY <2>2, <2>3, LeadsHead, Zenon
  <2>5. Near(w1, a, c)'
    BY <1>7, <1>8, <1>9, <1>10, <1>11, <1>13, <2>4, Zenon DEF Near
  <2>6. Middle(w1, c, d, y)'
    BY <1>6, <1>8, <1>9, <1>10, <2>1, <2>3, <2>4, Zenon DEF Middle
  <2> QED  BY <1>6, <1>7, <1>8, <1>10, <2>5, <2>6, ProcessStep, Zenon
<1> QED  BY <1>12, <1>13, Zenon

LEMMA ConvertedType ==
  ASSUME NEW r \in DOMAIN Objects, NEW w \in Watchers, NEW since, NEW e, e \in Event \cup {Nil}
  PROVE  Converted(r, since, w, e, FALSE) \in Message \cup {Nil}
<1>1. CASE e = Nil \/ ~(e.rv > since)
  BY <1>1, Zenon DEF Converted
<1>2. CASE e # Nil /\ e.rv > since
  <2>1. e \in Event /\ e.prev \in Object \cup {Nil} /\ e.key \in Keys
    BY <1>2 DEF Event
  <2>2. PICK content : content = [k \in Keys |-> e.prev]
    BY Zenon
  <2>3. content \in Contents /\ content[e.key] = e.prev
    BY <2>1, <2>2 DEF Contents
  <2>4. PICK a : a.known = Selected(r, w, content)
    <3>1. [known |-> Selected(r, w, content)].known = Selected(r, w, content)
      OBVIOUS
    <3> QED  BY <3>1, Zenon
  <2> QED  BY <1>2, <2>1, <2>3, <2>4, ConvertedEffect, Zenon
<1> QED  BY <1>1, <1>2, Zenon

(* process takes the next event of input, once its list is done.            *)
LEMMA InputStep ==
  ASSUME FaithInv, NEW w1 \in Watchers, processInput(w1)
  PROVE  FaithInv'
<1> DEFINE e == Head(input[w1])
           m == Converted(resource, startRV[w1], w1, e, FALSE)
           l == Convert(resource, startRV[w1], w1, input[w1], FALSE)
<1>1. /\ proc[w1] = "running" /\ pending[w1] = Nil /\ initEvents[w1] = <<>> /\ input[w1] # <<>>
      /\ Pending(w1, IF e.rv > startRV[w1] THEN ToWatchEvent(resource, w1, e, FALSE) ELSE Nil)
      /\ input' = [input EXCEPT ![w1] = Tail(@)]
      /\ UNCHANGED <<initEvents, startRV, proc, storeVars, dispatchVars, stopVars, clientVars, result>>
  BY Zenon DEF processInput
<1>2. WatchTypes /\ Registered /\ resource \in DOMAIN Objects
  BY Zenon DEF FaithInv, StoreInv, StoreTypes
<1>3. input[w1] \in Seq(Event)
  BY <1>2, Zenon DEF WatchTypes
<1>4. e \in Event /\ Tail(input[w1]) \in Seq(Event)
  BY <1>1, <1>3
<1>5. m \in Message \cup {Nil} /\ m = IF e.rv > startRV[w1] THEN ToWatchEvent(resource, w1, e, FALSE) ELSE Nil
  <2>1. m \in Message \cup {Nil}
    BY <1>2, <1>4, ConvertedType, Zenon
  <2>2. e # Nil
    BY <1>4, NilIsNone, Zenon
  <2> QED  BY <2>1, <2>2, Zenon DEF Converted
<1>6. pending' = [pending EXCEPT ![w1] = IF stop[w1] = "closed" THEN Nil ELSE m]
  BY <1>1, <1>5, Zenon DEF Pending
<1> HIDE DEF m
<1>7. /\ pending' \in [Watchers -> Message \cup {Nil}]
      /\ pending'[w1] = IF stop[w1] = "closed" THEN Nil ELSE m
      /\ \A w \in Watchers : w # w1 => pending'[w] = pending[w]
  BY <1>2, <1>5, <1>6, Zenon DEF WatchTypes
<1>8. /\ input' \in [Watchers -> Seq(Event)] /\ input'[w1] = Tail(input[w1])
      /\ \A w \in Watchers : w # w1 => input'[w] = input[w]
  BY <1>1, <1>2, <1>4 DEF WatchTypes
<1>9. /\ initEvents' = initEvents /\ result' = result
      /\ initEvents' \in [Watchers -> Seq(InitEvent \cup {Bookmark})]
      /\ result' \in [Watchers -> Seq(Message)] /\ proc[w1] # "none"
      /\ UNCHANGED <<startRV, proc, storeVars, dispatchVars, stopVars, clientVars>>
  <2>1. "running" # "none"
    OBVIOUS
  <2> QED  BY <1>1, <1>2, <2>1, Zenon DEF WatchTypes
<1>10. Past(w1)' = Past(w1) /\ Me(w1)' = Me(w1) /\ resource' = resource /\ startRV' = startRV
  <2>1. /\ resource' = resource /\ startRV' = startRV /\ history' = history
        /\ view' = view /\ synced' = synced
    BY <1>1, Zenon DEF storeVars, clientVars
  <2> QED  BY <2>1, PastSame, Zenon DEF Me
<1>11. PICK a, b, d, y, u, v, z :
        Near(w1, a, b) /\ (Busy(w1) => Middle(w1, b, d, y)) /\ (Live(w1) => Far(w1, y, u, v, z))
  BY Zenon DEF FaithInv, Chain
<1>12. a = b
  BY <1>1, <1>11, LinkNil, Zenon DEF Near
<1>13. CASE stop[w1] = "closed"
  <2>1. ~Busy(w1) /\ ~Live(w1)
    BY <1>2, <1>13, LiveIsBusy, Zenon DEF Busy
  <2>2. Near(w1, a, b)'
    BY <1>1, <1>7, <1>9, <1>10, <1>11, <1>13, Zenon DEF Near
  <2> QED  BY <1>7, <1>8, <1>9, <2>1, <2>2, ProcessStep, Zenon
<1>14. CASE stop[w1] # "closed"
  <2>1. Busy(w1)
    BY <1>1, <1>14, Zenon DEF Busy
  <2>2. Leads(Past(w1), resource, l, d, y)
    BY <1>11, <2>1, Zenon DEF Middle
  <2>3. b = d
    <3>1. Convert(resource, startRV[w1], w1, <<>>, TRUE) = <<>>
      BY ConvertShort, Zenon
    <3>2. Leads(Past(w1), resource, <<>>, b, d)
      BY <1>1, <1>11, <2>1, <3>1, Zenon DEF Middle
    <3> QED  BY <3>2, LeadsNone, Zenon
  <2>4. /\ Convert(resource, startRV[w1], w1, Tail(input[w1]), FALSE) = Tail(l)
        /\ Head(l) = m /\ l # <<>> /\ \E T : l \in Seq(T)
    <3>1. PICK s : s = input[w1]
      BY Zenon
    <3>2. s \in Seq(Event) /\ s # <<>>
      BY <1>1, <1>3, <3>1, Zenon
    <3>3. /\ Convert(resource, startRV[w1], w1, Tail(s), FALSE)
                = Tail(Convert(resource, startRV[w1], w1, s, FALSE))
          /\ Head(Convert(resource, startRV[w1], w1, s, FALSE))
                = Converted(resource, startRV[w1], w1, Head(s), FALSE)
          /\ Convert(resource, startRV[w1], w1, s, FALSE) # <<>>
          /\ \E T : Convert(resource, startRV[w1], w1, s, FALSE) \in Seq(T)
      BY <3>2, ConvertHead, Zenon
    <3> QED  BY <3>1, <3>3, Zenon DEF m
  <2> HIDE DEF l
  <2>5. PICK c : Link(Past(w1), resource, b, m, c) /\ Leads(Past(w1), resource, Tail(l), c, y)
    BY <2>2, <2>3, <2>4, LeadsHead, Zenon
  <2>6. Near(w1, a, c)'
    BY <1>7, <1>9, <1>10, <1>11, <1>12, <1>14, <2>5, Zenon DEF Near
  <2>7. Leads(Past(w1), resource, Convert(resource, startRV[w1], w1, initEvents[w1], TRUE), c, c)
    <3>1. Convert(resource, startRV[w1], w1, <<>>, TRUE) = <<>>
      BY ConvertShort, Zenon
    <3>2. Leads(Past(w1), resource, <<>>, c, c)
      BY <2>5, LeadsEmpty, Zenon DEF Link
    <3> QED  BY <1>1, <3>1, <3>2, Zenon
  <2>8. Middle(w1, c, c, y)'
    BY <1>8, <1>9, <1>10, <2>4, <2>5, <2>7, Zenon DEF Middle
  <2> QED  BY <1>7, <1>8, <1>9, <1>11, <2>6, <2>8, ProcessStep, Zenon
<1> QED  BY <1>13, <1>14, Zenon

-----------------------------------------------------------------------------
(* Steps of the writer and of the dispatcher that change nothing between    *)
(* the client of a watcher and its input.                                   *)

LEMMA LeadsMono ==
  ASSUME NEW P, NEW Q, P \subseteq Q, NEW r, NEW s, NEW a, NEW b, Leads(P, r, s, a, b)
  PROVE  Leads(Q, r, s, a, b)
BY Zenon DEF Leads, Link, Sound

LEMMA LinkMono ==
  ASSUME NEW P, NEW Q, P \subseteq Q, NEW r, NEW e, NEW a, NEW b, Link(P, r, a, e, b)
  PROVE  Link(Q, r, a, e, b)
BY Zenon DEF Link, Sound

(* The events that the dispatcher and the writer have lead to what is       *)
(* stored now.                                                              *)
LEMMA StoreStep ==
  ASSUME FaithInv, UNCHANGED <<processVars, stopVars, clientVars, input, result>>,
         StoreTypes', Dated', Phases',
         \A w \in Watchers : Past(w) \subseteq Past(w)', resource' = resource,
         \A w \in Watchers : Live(w)' => Live(w),
         \A w \in Watchers : \A y, u, v, z : Live(w)' /\ Far(w, y, u, v, z) =>
            \E u1, v1, z1 : Far(w, y, u1, v1, z1)'
  PROVE  FaithInv'
<1>1. /\ initEvents' = initEvents
      /\ startRV' = startRV /\ pending' = pending /\ proc' = proc /\ watchers' = watchers
      /\ stop' = stop /\ cancelled' = cancelled /\ view' = view /\ synced' = synced
      /\ input' = input /\ result' = result
  BY Zenon DEF processVars, stopVars, clientVars
<1>2. WatchTypes /\ Registered /\ Fresh
  BY Zenon DEF FaithInv, StoreInv
<1>3. WatchTypes' /\ Registered' /\ Fresh'
  BY <1>1, <1>2, Zenon DEF WatchTypes, Registered, Fresh
<1>4. ASSUME NEW w \in Watchers PROVE Chain(w)'
  <2>1. PICK a, b, d, y, u, v, z :
          Near(w, a, b) /\ (Busy(w) => Middle(w, b, d, y)) /\ (Live(w) => Far(w, y, u, v, z))
    BY Zenon DEF FaithInv, Chain
  <2>2. Me(w)' = Me(w) /\ (Busy(w)' => Busy(w))
    BY <1>1, Zenon DEF Me, Busy
  <2>3. Near(w, a, b)'
    <3>1. Leads(Past(w)', resource, result[w], Me(w), a)
      BY <2>1, LeadsMono, Zenon DEF Near
    <3>2. Link(Past(w)', resource, a, pending[w], b)
      BY <2>1, LinkMono, Zenon DEF Near
    <3> QED  BY <1>1, <2>2, <3>1, <3>2, Zenon DEF Near
  <2>4. Busy(w)' => Middle(w, b, d, y)'
    <3>1. SUFFICES ASSUME Middle(w, b, d, y) PROVE Middle(w, b, d, y)'
      BY <2>1, <2>2, Zenon
    <3>2. Leads(Past(w)', resource, Convert(resource, startRV[w], w, initEvents[w], TRUE), b, d)
      BY <3>1, LeadsMono, Zenon DEF Middle
    <3>3. Leads(Past(w)', resource, Convert(resource, startRV[w], w, input[w], FALSE), d, y)
      BY <3>1, LeadsMono, Zenon DEF Middle
    <3> QED  BY <1>1, <3>2, <3>3, Zenon DEF Middle
  <2>5. PICK u1, v1, z1 : Live(w)' => Far(w, y, u1, v1, z1)'
    BY <2>1, Zenon
  <2> QED  BY <2>3, <2>4, <2>5, Zenon DEF Chain
<1> QED  BY <1>3, <1>4, Zenon DEF FaithInv, StoreInv

LEMMA TakeStep ==
  ASSUME FaithInv, DispatchTake
  PROVE  FaithInv'
<1>1. StoreTypes /\ WatchTypes /\ Dated
  BY Zenon DEF FaithInv, StoreInv
<1>2. /\ dispatch = Nil /\ incoming # <<>> /\ incoming' = Tail(incoming)
      /\ dispatch' = [phase |-> "taken", event |-> Head(incoming), todo |-> {},
                      blocked |-> {}, failed |-> {}, fired |-> FALSE]
      /\ resource' = resource /\ writer' = writer
      /\ storage' = storage /\ resourceVersion' = resourceVersion /\ history' = history
      /\ startRV' = startRV /\ proc' = proc /\ watchers' = watchers
      /\ UNCHANGED <<processVars, stopVars, clientVars, input, result>>
  BY Zenon DEF DispatchTake, processVars, stopVars, storeVars
<1>3. incoming \in Seq(Event) /\ resource \in DOMAIN Objects
  BY <1>1, Zenon DEF StoreTypes
<1>4. incoming' \in Seq(Event) /\ Head(incoming) \in Event
  BY <1>2, <1>3
<1>5. /\ dispatch' \in Dispatch /\ dispatch'.phase = "taken" /\ dispatch'.event = Head(incoming)
      /\ dispatch'.todo = {} /\ dispatch'.blocked = {} /\ dispatch'.failed = {}
  BY <1>2, <1>4 DEF Dispatch
<1>6. StoreTypes'
  BY <1>1, <1>2, <1>4, <1>5, Zenon DEF StoreTypes
<1>7. Dated'
  <2>1. /\ \A i \in 1 .. Len(incoming') : incoming'[i].rv <= resourceVersion
        /\ Head(incoming).rv <= resourceVersion
    BY <1>1, <1>2, <1>3 DEF Dated
  <2> QED  BY <1>1, <1>2, <1>5, <2>1, Zenon DEF Dated
<1>8. Phases'
  BY <1>5 DEF Phases
<1>9. dispatch' # Nil
  BY <1>5, NilIsNone, Zenon
<1>10. \A w \in Watchers : /\ Past(w)' = Past(w) /\ (Live(w)' => Live(w))
                           /\ Dispatched(w) = Nil /\ Dispatched(w)' = Head(incoming)
  <2>1. \A w \in Watchers : /\ (Live(w)' => Live(w))
                            /\ Dispatched(w) = Nil /\ Dispatched(w)' = Head(incoming)
    BY <1>2, <1>5, <1>9, Zenon DEF Live, Dispatched
  <2> QED  BY <1>2, <2>1, PastSame, Zenon
<1>11. ASSUME NEW w \in Watchers, NEW y, NEW u, NEW v, NEW z, Far(w, y, u, v, z)
       PROVE  \E u1 : Far(w, y, u1, v, z)'
  <2>1. y = u
    <3>1. Converted(resource, startRV[w], w, Nil, FALSE) = Nil
      BY Zenon DEF Converted
    <3> QED  BY <1>10, <1>11, <3>1, LinkNil, Zenon DEF Far
  <2>2. PICK l : l = Convert(resource, startRV[w], w, incoming, FALSE)
    BY Zenon
  <2>3. /\ Convert(resource, startRV[w], w, Tail(incoming), FALSE) = Tail(l)
        /\ Head(l) = Converted(resource, startRV[w], w, Head(incoming), FALSE)
        /\ l # <<>> /\ \E T : l \in Seq(T)
    <3>1. /\ Convert(resource, startRV[w], w, Tail(incoming), FALSE)
                = Tail(Convert(resource, startRV[w], w, incoming, FALSE))
          /\ Head(Convert(resource, startRV[w], w, incoming, FALSE))
                = Converted(resource, startRV[w], w, Head(incoming), FALSE)
          /\ Convert(resource, startRV[w], w, incoming, FALSE) # <<>>
          /\ \E T : Convert(resource, startRV[w], w, incoming, FALSE) \in Seq(T)
      BY <1>2, <1>3, ConvertHead, Zenon
    <3> QED  BY <2>2, <3>1, Zenon
  <2>4. PICK u1 : Link(Past(w), resource, y, Head(l), u1) /\ Leads(Past(w), resource, Tail(l), u1, v)
    BY <1>11, <2>1, <2>2, <2>3, LeadsHead, Zenon DEF Far
  <2>5. Far(w, y, u1, v, z)'
    BY <1>2, <1>10, <1>11, <2>3, <2>4, Zenon DEF Far
  <2> QED  BY <2>5, Zenon
<1> QED  BY <1>2, <1>6, <1>7, <1>8, <1>10, <1>11, StoreStep, Zenon

LEMMA FarMono ==
  ASSUME NEW w, NEW y, NEW u, NEW v, NEW z, Far(w, y, u, v, z), Past(w) \subseteq Past(w)'
  PROVE  /\ Link(Past(w)', resource, y, Converted(resource, startRV[w], w, Dispatched(w), FALSE), u)
         /\ Leads(Past(w)', resource, Convert(resource, startRV[w], w, incoming, FALSE), u, v)
         /\ Sound(Past(w)', z)
<1>1. Link(Past(w)', resource, y, Converted(resource, startRV[w], w, Dispatched(w), FALSE), u)
  BY LinkMono, Zenon DEF Far
<1>2. Leads(Past(w)', resource, Convert(resource, startRV[w], w, incoming, FALSE), u, v)
  BY LeadsMono, Zenon DEF Far
<1>3. Sound(Past(w)', z)
  BY Zenon DEF Far, Link, Sound
<1> QED  BY <1>1, <1>2, <1>3, Zenon

(* A write adds an event, which leads from the content before it to the one *)
(* after it, or none if they are equal (genEvent).                          *)
LEMMA WriteStep ==
  ASSUME FaithInv, NEW key \in Keys, NEW obj \in Object \cup {Nil}, Write(key, obj)
  PROVE  FaithInv'
<1> DEFINE e == [key |-> key, prev |-> storage[key], curr |-> obj, rv |-> resourceVersion']
<1>1. StoreTypes /\ WatchTypes /\ Dated /\ Phases
  BY Zenon DEF FaithInv, StoreInv
<1>2. /\ writer = Nil /\ resourceVersion' = resourceVersion + 1
      /\ storage' = [storage EXCEPT ![key] = obj] /\ history' = Append(history, storage')
      /\ writer' = IF storage[key] = obj THEN Nil ELSE e
      /\ resource' = resource /\ incoming' = incoming /\ dispatch' = dispatch
      /\ startRV' = startRV /\ proc' = proc /\ watchers' = watchers
      /\ UNCHANGED <<processVars, stopVars, clientVars, input, result>>
  BY Zenon DEF Write, genEvent, dispatchVars, processVars, stopVars
<1>3. /\ resource \in DOMAIN Objects /\ storage \in Contents /\ resourceVersion \in Nat
      /\ history \in Seq(Contents) /\ Len(history) = resourceVersion + 1
  BY <1>1, Zenon DEF StoreTypes
<1>4. storage' \in Contents
  BY <1>2, <1>3 DEF Contents
<1>5. /\ history' \in Seq(Contents) /\ Len(history') = resourceVersion + 2
      /\ history'[resourceVersion + 2] = storage'
      /\ \A i \in 1 .. Len(history) : history'[i] = history[i]
  BY <1>2, <1>3, <1>4
<1>6. e \in Event /\ e.key = key /\ e.prev = storage[key] /\ e.curr = obj /\ e.rv = resourceVersion + 1
  <2>1. storage[key] \in Object \cup {Nil} /\ resourceVersion' \in Nat
    BY <1>2, <1>3 DEF Contents
  <2> QED  BY <1>2, <2>1 DEF Event
<1>7. e # Nil
  BY <1>6, NilIsNone, Zenon
<1> HIDE DEF e
<1>8. StoreTypes'
  <2>1. resourceVersion' \in Nat /\ Len(history') = resourceVersion' + 1 /\ history'[Len(history')] = storage'
    BY <1>2, <1>3, <1>5
  <2> QED  BY <1>1, <1>2, <1>4, <1>5, <1>6, <2>1, Zenon DEF StoreTypes
<1>9. Dated'
  <2>1. /\ \A i \in 1 .. Len(incoming) : incoming[i] \in Event
        /\ dispatch # Nil => dispatch.event \in Event
    BY <1>1 DEF StoreTypes, Dispatch
  <2>2. \A i \in 1 .. Len(incoming) : incoming[i].rv \in Nat
    BY <2>1 DEF Event
  <2>3. dispatch # Nil => dispatch.event.rv \in Nat
    BY <2>1 DEF Event
  <2>4. /\ \A i \in 1 .. Len(incoming) : incoming[i].rv <= resourceVersion'
        /\ dispatch # Nil => dispatch.event.rv <= resourceVersion'
        /\ \A w \in Watchers : startRV[w] <= resourceVersion'
    BY <1>1, <1>2, <1>3, <2>2, <2>3 DEF Dated, WatchTypes
  <2>5. writer' # Nil => writer'.rv <= resourceVersion'
    BY <1>2, <1>3, <1>6
  <2> QED  BY <1>2, <2>4, <2>5, Zenon DEF Dated
<1>10. Phases'
  BY <1>1, <1>2, Zenon DEF Phases
<1>11. \A w \in Watchers : Past(w) \subseteq Past(w)' /\ Selected(resource, w, storage') \in Past(w)'
  <2>1. TAKE w \in Watchers
  <2>2. startRV[w] \in Nat /\ startRV[w] <= resourceVersion
    BY <1>1, Zenon DEF WatchTypes, Dated
  <2>3. \A i \in (startRV[w] + 1) .. Len(history) :
           i \in (startRV[w] + 1) .. Len(history') /\ history'[i] = history[i]
    BY <1>3, <1>5, <2>2
  <2>4. resourceVersion + 2 \in (startRV[w] + 1) .. Len(history')
    BY <1>3, <1>5, <2>2
  <2> QED  BY <1>2, <1>5, <2>3, <2>4, Zenon DEF Past
<1>12. \A w \in Watchers : (Live(w)' => Live(w)) /\ Dispatched(w)' = Dispatched(w)
  BY <1>2, Zenon DEF Live, Dispatched
<1>13. ASSUME NEW w \in Watchers, NEW y, NEW u, NEW v, NEW z, Far(w, y, u, v, z)
       PROVE  \E z1 : Far(w, y, u, v, z1)'
  <2>1. Converted(resource, startRV[w], w, Nil, FALSE) = Nil
    BY Zenon DEF Converted
  <2>2. v = z /\ z.known = Selected(resource, w, storage)
    BY <1>2, <1>13, <2>1, LinkNil, Zenon DEF Far
  <2>3. /\ Link(Past(w)', resource, y, Converted(resource, startRV[w], w, Dispatched(w), FALSE), u)
        /\ Leads(Past(w)', resource, Convert(resource, startRV[w], w, incoming, FALSE), u, v)
        /\ Sound(Past(w)', z)
    BY <1>11, <1>13, FarMono, Zenon
  <2>4. CASE storage[key] = obj
    <3>1. storage' = storage
      BY <1>2, <1>3, <2>4 DEF Contents
    <3>2. Link(Past(w)', resource, v, Nil, z)
      BY <2>2, <2>3, NilLinks, Zenon
    <3>3. Far(w, y, u, v, z)'
      BY <1>2, <1>12, <2>1, <2>2, <2>3, <2>4, <3>1, <3>2, Zenon DEF Far
    <3> QED  BY <3>3, Zenon
  <2>5. CASE storage[key] # obj
    <3>1. PICK m : m = Converted(resource, startRV[w], w, e, FALSE)
      BY Zenon
    <3>2. e.rv > startRV[w]
      BY <1>1, <1>3, <1>6 DEF WatchTypes, Dated
    <3>3. /\ m # Bookmark /\ Learn(resource, z.known, m) = Selected(resource, w, storage')
          /\ Applies(z, m)
      <4>1. [storage EXCEPT ![e.key] = e.curr] = storage'
        BY <1>2, <1>6, Zenon
      <4>2. storage[e.key] = e.prev /\ z.known = Selected(resource, w, storage) /\ e.rv > startRV[w]
        BY <1>6, <2>2, <3>2, Zenon
      <4>3. LET n == Converted(resource, startRV[w], w, e, FALSE)
            IN  /\ n \in Message \cup {Nil} /\ n # Bookmark
                /\ Learn(resource, z.known, n) = Selected(resource, w, [storage EXCEPT ![e.key] = e.curr])
                /\ Applies(z, n)
        BY <1>3, <1>6, <4>2, ConvertedEffect, Zenon
      <4> QED  BY <3>1, <4>1, <4>3, Zenon
    <3>4. PICK z1 : z1 = After(resource, z, m)
      BY Zenon
    <3>5. z1.known = Selected(resource, w, storage') /\ z1 \in ClientState
      <4>1. Selected(resource, w, storage') \in Knowledge
        BY <1>3, <1>4, SelectedType, Zenon
      <4>2. z.synced \in BOOLEAN
        BY <2>3 DEF Sound, ClientState
      <4> QED  BY <3>3, <3>4, <4>1, <4>2 DEF After, ClientState
    <3>6. Sound(Past(w)', z1)
      BY <1>11, <3>5, Zenon DEF Sound
    <3>7. Link(Past(w)', resource, v, m, z1)
      BY <2>2, <2>3, <3>3, <3>4, <3>6, Zenon DEF Link
    <3>8. writer' = e
      BY <1>2, <2>5, Zenon
    <3>9. Far(w, y, u, v, z1)'
      BY <1>2, <1>12, <2>3, <3>1, <3>5, <3>7, <3>8, Zenon DEF Far
    <3> QED  BY <3>9, Zenon
  <2> QED  BY <2>4, <2>5, Zenon
<1> QED  BY <1>2, <1>8, <1>9, <1>10, <1>11, <1>12, <1>13, StoreStep, Zenon

-----------------------------------------------------------------------------
(* Steps that hand an event on.                                             *)

LEMMA ConvertType ==
  ASSUME NEW r \in DOMAIN Objects, NEW w \in Watchers, NEW since, NEW s \in Seq(Event)
  PROVE  Convert(r, since, w, s, FALSE) \in Seq(Message \cup {Nil})
<1>1. PICK n \in Nat : n = Len(s) /\ DOMAIN s = 1 .. n
  OBVIOUS
<1>2. \A i \in 1 .. n : s[i] \in Event
  BY <1>1
<1>3. \A i \in 1 .. n : Converted(r, since, w, s[i], FALSE) \in Message \cup {Nil}
  BY <1>2, ConvertedType, Zenon
<1>4. Convert(r, since, w, s, FALSE) = [i \in 1 .. n |-> Converted(r, since, w, s[i], FALSE)]
  BY <1>1, Zenon DEF Convert
<1>5. Convert(r, since, w, s, FALSE) \in [1 .. n -> Message \cup {Nil}]
  BY <1>3, <1>4, Zenon
<1>6. ASSUME NEW M, NEW f \in [1 .. n -> M] PROVE f \in Seq(M)
  OBVIOUS
<1> QED  BY <1>5, <1>6, Zenon

LEMMA ConvertAppend ==
  ASSUME NEW r, NEW w, NEW since, NEW S, NEW s \in Seq(S), NEW e \in S
  PROVE  Convert(r, since, w, Append(s, e), FALSE)
            = Append(Convert(r, since, w, s, FALSE), Converted(r, since, w, e, FALSE))
<1> DEFINE f(x) == Converted(r, since, w, x, FALSE)
<1>1. /\ Convert(r, since, w, s, FALSE) = [i \in DOMAIN s |-> f(s[i])]
      /\ Convert(r, since, w, Append(s, e), FALSE) = [i \in DOMAIN Append(s, e) |-> f(Append(s, e)[i])]
      /\ Converted(r, since, w, e, FALSE) = f(e)
  BY Zenon DEF Convert
<1> HIDE DEF f
<1>2. PICK n \in Nat : n = Len(s) /\ DOMAIN s = 1 .. n
  OBVIOUS
<1>3. /\ DOMAIN Append(s, e) = 1 .. (n + 1) /\ Append(s, e)[n + 1] = e
      /\ \A i \in 1 .. n : Append(s, e)[i] = s[i]
  BY <1>2
<1> DEFINE T == {f(s[i]) : i \in 1 .. n} \cup {f(e)}
           t == [i \in 1 .. n |-> f(s[i])]
<1>4. t \in Seq(T) /\ Len(t) = n /\ f(e) \in T
  BY <1>2
<1>5. /\ Append(t, f(e)) = [i \in 1 .. (n + 1) |-> IF i = n + 1 THEN f(e) ELSE f(s[i])]
  BY <1>2, <1>4
<1>6. [i \in DOMAIN Append(s, e) |-> f(Append(s, e)[i])]
        = [i \in 1 .. (n + 1) |-> IF i = n + 1 THEN f(e) ELSE f(s[i])]
  BY <1>3
<1>7. Convert(r, since, w, s, FALSE) = t
  BY <1>1, <1>2, Zenon
<1> HIDE DEF t, T
<1> QED  BY <1>1, <1>5, <1>6, <1>7, Zenon

(* An event at the end of a channel.                                        *)
LEMMA HandOver ==
  ASSUME NEW P, NEW r \in DOMAIN Objects, NEW w \in Watchers, NEW since, NEW s \in Seq(Event),
         NEW e \in Event, NEW a, NEW b, NEW d,
         Leads(P, r, Convert(r, since, w, s, FALSE), a, b),
         Link(P, r, b, Converted(r, since, w, e, FALSE), d)
  PROVE  Leads(P, r, Convert(r, since, w, Append(s, e), FALSE), a, d)
<1>1. Convert(r, since, w, s, FALSE) \in Seq(Message \cup {Nil})
  BY ConvertType, Zenon
<1>2. Converted(r, since, w, e, FALSE) \in Message \cup {Nil}
  BY ConvertedType, Zenon
<1>3. Convert(r, since, w, Append(s, e), FALSE)
        = Append(Convert(r, since, w, s, FALSE), Converted(r, since, w, e, FALSE))
  BY ConvertAppend, Zenon
<1> QED  BY <1>1, <1>2, <1>3, LeadsAppend, Zenon

(* processEvent: from the writer to incoming.                               *)
LEMMA EventStep ==
  ASSUME FaithInv, processEvent
  PROVE  FaithInv'
<1>1. StoreTypes /\ WatchTypes /\ Dated /\ Phases
  BY Zenon DEF FaithInv, StoreInv
<1>2. /\ writer # Nil /\ incoming' = Append(incoming, writer) /\ writer' = Nil /\ resource' = resource
      /\ storage' = storage /\ resourceVersion' = resourceVersion /\ history' = history
      /\ dispatch' = dispatch /\ startRV' = startRV /\ proc' = proc /\ watchers' = watchers
      /\ UNCHANGED <<processVars, stopVars, clientVars, input, result>>
  BY Zenon DEF processEvent, processVars, stopVars
<1>3. writer \in Event /\ incoming \in Seq(Event) /\ resource \in DOMAIN Objects
  BY <1>1, <1>2, Zenon DEF StoreTypes
<1>4. incoming' \in Seq(Event)
  BY <1>2, <1>3
<1>5. StoreTypes'
  BY <1>1, <1>2, <1>4, Zenon DEF StoreTypes
<1>6. Dated'
  <2>1. \A i \in 1 .. Len(incoming') : incoming'[i].rv <= resourceVersion
    BY <1>1, <1>2, <1>3 DEF Dated
  <2> QED  BY <1>1, <1>2, <2>1, Zenon DEF Dated
<1>7. Phases'
  BY <1>1, <1>2, Zenon DEF Phases
<1>8. \A w \in Watchers : Past(w)' = Past(w) /\ (Live(w)' => Live(w)) /\ Dispatched(w)' = Dispatched(w)
  <2>1. \A w \in Watchers : (Live(w)' => Live(w)) /\ Dispatched(w)' = Dispatched(w)
    BY <1>2, Zenon DEF Live, Dispatched
  <2> QED  BY <1>2, <2>1, PastSame, Zenon
<1>9. ASSUME NEW w \in Watchers, NEW y, NEW u, NEW v, NEW z, Far(w, y, u, v, z)
      PROVE  Far(w, y, u, z, z)'
  <2>1. Leads(Past(w), resource, Convert(resource, startRV[w], w, Append(incoming, writer), FALSE), u, z)
    BY <1>3, <1>9, HandOver, Zenon DEF Far
  <2>2. Converted(resource, startRV[w], w, Nil, FALSE) = Nil
    BY Zenon DEF Converted
  <2>3. Link(Past(w), resource, z, Nil, z)
    BY <1>9, NilLinks, Zenon DEF Far, Link
  <2> QED  BY <1>2, <1>8, <1>9, <2>1, <2>2, <2>3, Zenon DEF Far
<1> QED  BY <1>2, <1>5, <1>6, <1>7, <1>8, <1>9, StoreStep, Zenon

LEMMA DispatchFields ==
  ASSUME dispatch \in Dispatch
  PROVE  /\ dispatch # Nil /\ dispatch.event \in Event /\ dispatch.event # Nil
         /\ dispatch.phase \in {"taken", "add", "wait", "stop"}
         /\ dispatch.todo \subseteq Watchers /\ dispatch.blocked \subseteq Watchers
         /\ dispatch.failed \subseteq Watchers
<1>1. dispatch # Nil
  BY NilIsNone, Zenon
<1>2. dispatch.event \in Event
  BY DEF Dispatch
<1>3. dispatch.event # Nil
  BY <1>2, NilIsNone, Zenon
<1> QED  BY <1>1, <1>2, <1>3 DEF Dispatch

(* From the dispatcher to the input of one watcher.                         *)
LEMMA GiveStep ==
  ASSUME FaithInv, NEW w1 \in Watchers, dispatch \in Dispatch, dispatch' \in Dispatch,
         dispatch.phase \in {"add", "wait"}, w1 \in dispatch.todo \cup dispatch.blocked,
         input' = [input EXCEPT ![w1] = Append(@, dispatch.event)],
         dispatch'.phase = dispatch.phase, dispatch'.event = dispatch.event,
         dispatch'.failed = dispatch.failed,
         dispatch'.todo \cup dispatch'.blocked = (dispatch.todo \cup dispatch.blocked) \ {w1},
         Phases', UNCHANGED <<incoming, storeVars, processVars, stopVars, clientVars, result>>
  PROVE  FaithInv'
<1>1. /\ incoming' = incoming /\ writer' = writer /\ storage' = storage /\ resource' = resource
      /\ history' = history /\ resourceVersion' = resourceVersion /\ initEvents' = initEvents
      /\ startRV' = startRV /\ pending' = pending /\ proc' = proc /\ watchers' = watchers
      /\ stop' = stop /\ cancelled' = cancelled /\ view' = view /\ synced' = synced
      /\ result' = result
  BY Zenon DEF storeVars, processVars, stopVars, clientVars
<1>2. StoreTypes /\ WatchTypes /\ Dated /\ Phases /\ Registered /\ Fresh
  BY Zenon DEF FaithInv, StoreInv
<1>3. dispatch # Nil /\ dispatch' # Nil /\ dispatch.event \in Event /\ dispatch.event # Nil
  BY DispatchFields, NilIsNone, Zenon
<1>4. w1 \in watchers /\ w1 \notin dispatch.failed /\ dispatch.phase # "taken"
  BY <1>2, <1>3 DEF Phases
<1>5. stop[w1] = "no" /\ proc[w1] # "none"
  BY <1>2, <1>4, Zenon DEF Registered
<1>6. input[w1] \in Seq(Event)
  BY <1>2, Zenon DEF WatchTypes
<1>7. Append(input[w1], dispatch.event) \in Seq(Event)
  BY <1>3, <1>6
<1>8. /\ input' \in [Watchers -> Seq(Event)] /\ input'[w1] = Append(input[w1], dispatch.event)
      /\ \A w \in Watchers : w # w1 => input'[w] = input[w]
  BY <1>2, <1>7 DEF WatchTypes
<1>9. StoreTypes'
  BY <1>1, <1>2, Zenon DEF StoreTypes
<1>10. WatchTypes' /\ Registered'
  BY <1>1, <1>2, <1>8, Zenon DEF WatchTypes, Registered
<1>11. Dated'
  BY <1>1, <1>2, <1>3, Zenon DEF Dated
<1>12. Fresh'
  BY <1>1, <1>2, <1>5, <1>8, Zenon DEF Fresh
<1>13. \A w \in Watchers : (Busy(w)' <=> Busy(w)) /\ (Live(w)' => Live(w)) /\ Past(w)' = Past(w)
  <2>1. \A w \in Watchers : (Busy(w)' <=> Busy(w)) /\ (Live(w)' => Live(w))
    BY <1>1, <1>3, Zenon DEF Busy, Live
  <2> QED  BY <1>1, <2>1, PastSame, Zenon
<1>14. Chain(w1)'
  <2>1. PICK a, b, d, y, u, v, z :
          Near(w1, a, b) /\ (Busy(w1) => Middle(w1, b, d, y)) /\ (Live(w1) => Far(w1, y, u, v, z))
    BY Zenon DEF FaithInv, Chain
  <2>2. Near(w1, a, b)'
    BY <1>1, <1>13, <2>1, NearSame, Zenon
  <2>3. CASE proc[w1] # "running"
    BY <1>1, <2>2, <2>3, Zenon DEF Chain, Busy, Live
  <2>4. CASE proc[w1] = "running"
    <3>1. "no" # "closed"
      OBVIOUS
    <3>2. Busy(w1) /\ Live(w1)
      BY <1>4, <1>5, <2>4, <3>1, Zenon DEF Busy, Live
    <3>3. Dispatched(w1) = dispatch.event
      BY <1>3, Zenon DEF Dispatched
    <3>4. Dispatched(w1)' = Nil
      BY <1>3, <1>4, Zenon DEF Dispatched
    <3>5. Middle(w1, b, d, u)'
      <4>1. resource \in DOMAIN Objects
        BY <1>2, Zenon DEF StoreTypes
      <4>2. Leads(Past(w1), resource, Convert(resource, startRV[w1], w1, Append(input[w1], dispatch.event), FALSE), d, u)
        BY <1>3, <1>6, <2>1, <3>2, <3>3, <4>1, HandOver, Zenon DEF Middle, Far
      <4> QED  BY <1>1, <1>8, <1>13, <2>1, <3>2, <4>2, Zenon DEF Middle
    <3>6. Link(Past(w1), resource, u, Converted(resource, startRV[w1], w1, Nil, FALSE), u)
      <4>1. Converted(resource, startRV[w1], w1, Nil, FALSE) = Nil
        BY Zenon DEF Converted
      <4>2. Sound(Past(w1), u)
        BY <2>1, <3>2, Zenon DEF Far, Link
      <4>3. Link(Past(w1), resource, u, Nil, u)
        BY <4>2, NilLinks, Zenon
      <4> QED  BY <4>1, <4>3, Zenon
    <3>7. Far(w1, u, u, v, z)'
      BY <1>1, <1>13, <2>1, <3>2, <3>4, <3>6, Zenon DEF Far
    <3> QED  BY <2>2, <3>5, <3>7, Zenon DEF Chain
  <2> QED  BY <2>3, <2>4, Zenon
<1>15. ASSUME NEW w \in Watchers, w # w1 PROVE Chain(w)'
  <2>1. Same(w)
    BY <1>1, <1>8, <1>15, Zenon DEF Same
  <2>2. Dispatched(w)' = Dispatched(w)
    BY <1>3, <1>4, <1>15, Zenon DEF Dispatched
  <2>3. Chain(w)
    BY Zenon DEF FaithInv
  <2> QED  BY <1>1, <1>13, <2>1, <2>2, <2>3, ChainSame, Zenon
<1> QED  BY <1>9, <1>10, <1>11, <1>12, <1>14, <1>15, Zenon DEF FaithInv, StoreInv

LEMMA NonBlockingAddStep ==
  ASSUME FaithInv, NEW w1 \in Watchers, nonBlockingAdd(w1)
  PROVE  FaithInv'
<1>1. dispatch \in Dispatch /\ Phases
  BY Zenon DEF FaithInv, StoreInv, StoreTypes, nonBlockingAdd
<1>2. dispatch # Nil /\ dispatch.phase = "add" /\ watchers' = watchers /\ proc' = proc /\ w1 \in dispatch.todo
  BY Zenon DEF nonBlockingAdd, stopVars, processVars
<1>3. /\ dispatch.todo \cup dispatch.blocked \subseteq watchers /\ dispatch.failed = {}
      /\ dispatch.todo \cap dispatch.blocked = {}
  BY <1>1, <1>2 DEF Phases
<1>4. CASE /\ input' = [input EXCEPT ![w1] = Append(@, dispatch.event)]
           /\ dispatch' = [dispatch EXCEPT !.todo = @ \ {w1}]
  <2>1. /\ dispatch' \in Dispatch /\ dispatch'.phase = dispatch.phase /\ dispatch'.todo = dispatch.todo \ {w1}
        /\ dispatch'.blocked = dispatch.blocked /\ dispatch'.failed = dispatch.failed
        /\ dispatch'.event = dispatch.event
    BY <1>1, <1>4 DEF Dispatch
  <2>2. Phases'
    BY <1>2, <1>3, <2>1 DEF Phases
  <2>3. dispatch'.todo \cup dispatch'.blocked = (dispatch.todo \cup dispatch.blocked) \ {w1}
    BY <1>2, <1>3, <2>1
  <2> QED  BY <1>1, <1>2, <1>4, <2>1, <2>2, <2>3, GiveStep, Zenon DEF nonBlockingAdd
<1>5. CASE /\ dispatch' = [dispatch EXCEPT !.todo = @ \ {w1}, !.blocked = @ \cup {w1}]
           /\ UNCHANGED input
  <2>1. /\ dispatch' \in Dispatch /\ dispatch'.phase = dispatch.phase /\ dispatch'.todo = dispatch.todo \ {w1}
        /\ dispatch'.blocked = dispatch.blocked \cup {w1} /\ dispatch'.failed = dispatch.failed
        /\ dispatch'.event = dispatch.event
    BY <1>1, <1>5, Zenon DEF Dispatch
  <2>2. Phases'
    BY <1>2, <1>3, <2>1 DEF Phases
  <2>3. dispatch' # Nil
    BY <2>1, NilIsNone, Zenon
  <2>4. ASSUME NEW w \in Watchers, Live(w)' PROVE Live(w) /\ Dispatched(w)' = Dispatched(w)
    <3>1. dispatch'.todo \cup dispatch'.blocked = dispatch.todo \cup dispatch.blocked
      BY <1>2, <2>1
    <3> QED  BY <1>2, <2>1, <2>3, <2>4, <3>1, Zenon DEF Live, Dispatched
  <2>5. DispatchOnly
    BY <1>5, Zenon DEF DispatchOnly, nonBlockingAdd
  <2> QED  BY <1>2, <2>1, <2>2, <2>4, <2>5, QuietDispatch, Zenon
<1> QED  BY <1>4, <1>5, Zenon DEF nonBlockingAdd

LEMMA AddStep ==
  ASSUME FaithInv, NEW w1 \in Watchers, add(w1)
  PROVE  FaithInv'
<1>1. dispatch \in Dispatch /\ Phases
  BY Zenon DEF FaithInv, StoreInv, StoreTypes, add
<1>2. /\ dispatch' \in Dispatch /\ dispatch'.phase = dispatch.phase /\ dispatch'.todo = dispatch.todo
      /\ dispatch'.blocked = dispatch.blocked \ {w1} /\ dispatch'.failed = dispatch.failed
      /\ dispatch'.event = dispatch.event
  BY <1>1 DEF add, Dispatch
<1>3. dispatch # Nil /\ dispatch.phase = "wait" /\ watchers' = watchers
  BY Zenon DEF add, stopVars
<1>4. dispatch.todo = {} /\ dispatch.blocked \subseteq watchers /\ dispatch.blocked \cap dispatch.failed = {}
  BY <1>1, <1>3 DEF Phases
<1>5. Phases'
  BY <1>2, <1>3, <1>4 DEF Phases
<1>6. dispatch'.todo \cup dispatch'.blocked = (dispatch.todo \cup dispatch.blocked) \ {w1}
  BY <1>2, <1>4
<1> QED  BY <1>1, <1>2, <1>3, <1>5, <1>6, GiveStep, Zenon DEF add

-----------------------------------------------------------------------------
(* The list of a watch.                                                     *)

LEMMA LeadsEnds ==
  ASSUME NEW P, NEW r, NEW S, NEW s \in Seq(S), NEW a, NEW b, Leads(P, r, s, a, b)
  PROVE  Sound(P, a) /\ Sound(P, b)
<1>1. PICK c : /\ c[1] = a /\ c[Len(s) + 1] = b /\ Sound(P, a)
               /\ \A i \in 1 .. Len(s) : Link(P, r, c[i], s[i], c[i + 1])
  BY Zenon DEF Leads
<1>2. CASE Len(s) = 0
  BY <1>1, <1>2
<1>3. CASE Len(s) # 0
  <2>1. Len(s) \in 1 .. Len(s)
    BY <1>3
  <2>2. Link(P, r, c[Len(s)], s[Len(s)], c[Len(s) + 1])
    BY <1>1, <2>1, Zenon
  <2> QED  BY <1>1, <2>2, Zenon DEF Link
<1> QED  BY <1>2, <1>3, Zenon

(* The bookmark comes when the client knows what the list holds.            *)
LEMMA BookmarkLinks ==
  ASSUME NEW P, NEW r, NEW known \in Knowledge, known \in P
  PROVE  Link(P, r, [known |-> known, synced |-> FALSE], Bookmark, [known |-> known, synced |-> TRUE])
<1> DEFINE a == [known |-> known, synced |-> FALSE]
           b == [known |-> known, synced |-> TRUE]
<1>1. a \in ClientState /\ b \in ClientState /\ ~a.synced /\ a.known = known /\ b.known = known
  BY DEF ClientState
<1>2. Apply(r, known, Bookmark) = known
  BY DEF Apply, Bookmark
<1>3. Learn(r, known, Bookmark) = known
  BY <1>2, NilIsNone, Zenon DEF Learn
<1>4. After(r, a, Bookmark) = b
  BY <1>1, <1>3, Zenon DEF After
<1> HIDE DEF a, b
<1>5. Sound(P, a) /\ Sound(P, b) /\ Applies(a, Bookmark)
  BY <1>1, Zenon DEF Sound, Applies
<1>6. Link(P, r, a, Bookmark, b)
  BY <1>4, <1>5, Zenon DEF Link
<1> QED  BY <1>6, Zenon DEF a, b

Listable(w, content) == {k \in Keys : content[k] # Nil /\ keyAndSpanSelectFunc(w, k, content[k])}

(* Every object of the list has one place in it.                            *)
Listing(w, content, order, n) ==
    /\ order \in [1 .. n -> Listable(w, content)]
    /\ \A k \in Listable(w, content) : \E i \in 1 .. n : \A j \in 1 .. n : order[j] = k <=> i = j

(* What a client knows after the first i - 1 objects of the list.           *)
Listed(r, w, content, order, i) ==
    [k \in Keys |-> IF \E j \in 1 .. (i - 1) : order[j] = k THEN Body(r, w, content[k]) ELSE Nil]

Steps(r, w, content, order, n) ==
    /\ Listed(r, w, content, order, 1) = [k \in Keys |-> Nil]
    /\ Listed(r, w, content, order, n + 1) = Selected(r, w, content)
    /\ \A i \in 1 .. (n + 1) : Listed(r, w, content, order, i) \in Knowledge
    /\ \A i \in 1 .. n :
          /\ Listed(r, w, content, order, i)[order[i]] = Nil
          /\ Listed(r, w, content, order, i + 1)
               = [Listed(r, w, content, order, i) EXCEPT ![order[i]] = Body(r, w, content[order[i]])]

(* Each object of the list is one that the client does not know yet.        *)
LEMMA ListedSteps ==
  ASSUME NEW r \in DOMAIN Objects, NEW w \in Watchers, NEW content \in Contents, NEW n \in Nat,
         NEW order, Listing(w, content, order, n)
  PROVE  Steps(r, w, content, order, n)
<1> DEFINE S == Listable(w, content)
<1>1. S \subseteq Keys /\ \A k \in Keys : k \in S <=> content[k] # Nil /\ keyAndSpanSelectFunc(w, k, content[k])
  BY Zenon DEF Listable
<1>2. ASSUME NEW k \in S PROVE Body(r, w, content[k]) \in SUBSET Items
  <2>1. content[k] \in Object
    BY <1>1, Zenon DEF Contents
  <2> QED  BY <2>1, BodyType, Zenon
<1>3. \A i \in 1 .. n : order[i] \in S
  BY Zenon DEF Listing
<1> HIDE DEF S
<1>4. Listed(r, w, content, order, 1) = [k \in Keys |-> Nil]
  BY DEF Listed
<1>5. Listed(r, w, content, order, n + 1) = Selected(r, w, content)
  <2>1. \A k \in Keys : (\E j \in 1 .. n : order[j] = k) <=> content[k] # Nil /\ keyAndSpanSelectFunc(w, k, content[k])
    BY <1>1, <1>3, Zenon DEF S, Listing
  <2>2. (n + 1) - 1 = n
    OBVIOUS
  <2>3. \A k \in Keys :
           (IF \E j \in 1 .. n : order[j] = k THEN Body(r, w, content[k]) ELSE Nil)
             = IF content[k] # Nil /\ keyAndSpanSelectFunc(w, k, content[k]) THEN Body(r, w, content[k]) ELSE Nil
    BY <2>1, Zenon
  <2> QED  BY <2>2, <2>3, Zenon DEF Listed, Selected
<1>6. ASSUME NEW i \in 1 .. (n + 1) PROVE Listed(r, w, content, order, i) \in Knowledge
  <2>1. 1 .. (i - 1) \subseteq 1 .. n
    OBVIOUS
  <2>2. ASSUME NEW k \in Keys, \E j \in 1 .. (i - 1) : order[j] = k
        PROVE  Body(r, w, content[k]) \in SUBSET Items
    BY <1>2, <1>3, <2>1, <2>2, Zenon
  <2>3. \A k \in Keys : (IF \E j \in 1 .. (i - 1) : order[j] = k THEN Body(r, w, content[k]) ELSE Nil)
                           \in (SUBSET Items) \cup {Nil}
    BY <2>2, Zenon
  <2> QED  BY <2>3, Zenon DEF Listed, Knowledge
<1>7. ASSUME NEW i \in 1 .. n
      PROVE  /\ Listed(r, w, content, order, i)[order[i]] = Nil
             /\ Listed(r, w, content, order, i + 1)
                  = [Listed(r, w, content, order, i) EXCEPT ![order[i]] = Body(r, w, content[order[i]])]
  <2>1. \A j \in 1 .. n : order[j] = order[i] <=> i = j
    BY <1>3, Zenon DEF S, Listing
  <2>2. order[i] \in Keys
    BY <1>1, <1>3, Zenon
  <2>3. ~ \E j \in 1 .. (i - 1) : order[j] = order[i]
    BY <2>1
  <2>4. Listed(r, w, content, order, i)[order[i]] = Nil
    BY <2>2, <2>3, Zenon DEF Listed
  <2>5. \A k \in Keys : (\E j \in 1 .. i : order[j] = k) <=> ((\E j \in 1 .. (i - 1) : order[j] = k) \/ k = order[i])
    OBVIOUS
  <2>6. (i + 1) - 1 = i
    OBVIOUS
  <2>7. Listed(r, w, content, order, i + 1)
          = [k \in Keys |-> IF (\E j \in 1 .. (i - 1) : order[j] = k) \/ k = order[i]
                            THEN Body(r, w, content[k]) ELSE Nil]
    BY <2>5, <2>6, Zenon DEF Listed
  <2>8. [Listed(r, w, content, order, i) EXCEPT ![order[i]] = Body(r, w, content[order[i]])]
          = [k \in Keys |-> IF k = order[i] THEN Body(r, w, content[order[i]])
                            ELSE IF \E j \in 1 .. (i - 1) : order[j] = k THEN Body(r, w, content[k]) ELSE Nil]
    BY <2>2, Zenon DEF Listed
  <2>9. ASSUME NEW k \in Keys
        PROVE  (IF (\E j \in 1 .. (i - 1) : order[j] = k) \/ k = order[i] THEN Body(r, w, content[k]) ELSE Nil)
                = IF k = order[i] THEN Body(r, w, content[order[i]])
                  ELSE IF \E j \in 1 .. (i - 1) : order[j] = k THEN Body(r, w, content[k]) ELSE Nil
    BY Zenon
  <2> QED  BY <2>4, <2>7, <2>8, <2>9, Zenon
<1> QED  BY <1>4, <1>5, <1>6, <1>7, Zenon DEF Steps

ListOf(content, rv, order, n) ==
    Append([i \in 1 .. n |-> [key |-> order[i], prev |-> Nil, curr |-> content[order[i]], rv |-> rv]], Bookmark)

(* The list takes an empty client to what was stored at the Watch.          *)
LEMMA ListLeads ==
  ASSUME NEW P, NEW r \in DOMAIN Objects, NEW w \in Watchers, NEW since, NEW rv \in Nat,
         NEW content \in Contents, NEW n \in Nat, NEW order, Listing(w, content, order, n),
         Selected(r, w, content) \in P
  PROVE  /\ ListOf(content, rv, order, n) \in Seq(InitEvent \cup {Bookmark})
         /\ Leads(P, r, Convert(r, since, w, ListOf(content, rv, order, n), TRUE),
                  [known |-> [k \in Keys |-> Nil], synced |-> FALSE],
                  [known |-> Selected(r, w, content), synced |-> TRUE])
<1> DEFINE e(i) == [key |-> order[i], prev |-> Nil, curr |-> content[order[i]], rv |-> rv]
           q == [i \in 1 .. n |-> e(i)]
           s == ListOf(content, rv, order, n)
           l == Convert(r, since, w, s, TRUE)
           K(i) == Listed(r, w, content, order, i)
           a(i) == [known |-> K(i), synced |-> FALSE]
           z == [known |-> Selected(r, w, content), synced |-> TRUE]
           c == [i \in 1 .. (n + 2) |-> IF i <= n + 1 THEN a(i) ELSE z]
<1>1. ASSUME NEW i \in 1 .. n
      PROVE  /\ e(i) \in Event /\ e(i) \in InitEvent /\ e(i).curr \in Object /\ e(i).key = order[i]
             /\ e(i).curr = content[order[i]]
  <2>1. order[i] \in Keys /\ content[order[i]] # Nil
    BY Zenon DEF Listing, Listable
  <2>2. content[order[i]] \in Object
    BY <2>1, Zenon DEF Contents
  <2> QED  BY <2>1, <2>2 DEF Event, InitEvent
<1>2. /\ K(1) = [k \in Keys |-> Nil] /\ K(n + 1) = Selected(r, w, content)
      /\ \A i \in 1 .. (n + 1) : K(i) \in Knowledge
      /\ \A i \in 1 .. n : K(i)[order[i]] = Nil /\ K(i + 1) = [K(i) EXCEPT ![order[i]] = Body(r, w, content[order[i]])]
  <2>1. Steps(r, w, content, order, n)
    BY ListedSteps, Zenon
  <2> QED  BY <2>1, Zenon DEF Steps
<1>3. ASSUME NEW i \in 1 .. n
      PROVE  Link(P, r, a(i), Converted(r, since, w, e(i), TRUE), a(i + 1))
  <2>1. K(i) \in Knowledge
    <3>1. i \in 1 .. (n + 1)
      OBVIOUS
    <3> QED  BY <1>2, <3>1, Zenon
  <2>2. PICK f : f = e(i)
    BY Zenon
  <2>3. PICK g, h : g = K(i) /\ h = K(i + 1)
    BY Zenon
  <2>4. /\ f \in Event /\ f.curr \in Object /\ g \in Knowledge /\ g[f.key] = Nil
        /\ h = [g EXCEPT ![f.key] = Body(r, w, f.curr)]
    <3>1. f \in Event /\ f.curr \in Object /\ f.key = order[i] /\ f.curr = content[order[i]]
      BY <1>1, <2>2, Zenon
    <3> QED  BY <1>2, <2>1, <2>3, <3>1, Zenon
  <2>5. Link(P, r, [known |-> g, synced |-> FALSE], Converted(r, since, w, f, TRUE), [known |-> h, synced |-> FALSE])
    BY <2>4, InitLinks, Zenon
  <2> QED  BY <2>2, <2>3, <2>5, Zenon
<1>4. Link(P, r, a(n + 1), Converted(r, since, w, Bookmark, TRUE), z)
  <2>1. Converted(r, since, w, Bookmark, TRUE) = Bookmark
    <3>1. ToWatchEvent(r, w, Bookmark, TRUE) = Bookmark
      BY DEF ToWatchEvent
    <3> QED  BY <3>1, NilIsNone, Zenon DEF Converted
  <2>2. Selected(r, w, content) \in Knowledge
    BY SelectedType, Zenon
  <2>3. Link(P, r, [known |-> Selected(r, w, content), synced |-> FALSE], Bookmark, z)
    BY <2>2, BookmarkLinks, Zenon
  <2> QED  BY <1>2, <2>1, <2>3, Zenon
<1>5. PICK T : T = InitEvent \cup {Bookmark}
  BY Zenon
<1>6. \A i \in 1 .. n : e(i) \in T
  BY <1>1, <1>5, Zenon
<1>7. Bookmark \in T /\ s = Append(q, Bookmark)
  BY <1>5, Zenon DEF ListOf
<1> HIDE DEF e, s
<1>8. q \in Seq(T) /\ Len(q) = n /\ \A i \in 1 .. n : q[i] = e(i)
  BY <1>6
<1> HIDE DEF q
<1>9. s \in Seq(T) /\ Len(s) = n + 1 /\ s[n + 1] = Bookmark /\ DOMAIN s = 1 .. (n + 1)
  BY <1>7, <1>8
<1>10. \A i \in 1 .. n : s[i] = e(i)
  BY <1>7, <1>8
<1>11. l = [i \in 1 .. (n + 1) |-> Converted(r, since, w, s[i], TRUE)]
  BY <1>9, Zenon DEF Convert
<1> HIDE DEF l
<1>12. Len(l) = n + 1 /\ \A i \in 1 .. (n + 1) : l[i] = Converted(r, since, w, s[i], TRUE)
  <2> DEFINE f(i) == Converted(r, since, w, s[i], TRUE)
  <2>1. l = [i \in 1 .. (n + 1) |-> f(i)]
    BY <1>11, Zenon
  <2> HIDE DEF f
  <2>2. Len(l) = n + 1
    BY <2>1
  <2>3. \A i \in 1 .. (n + 1) : l[i] = f(i)
    BY <2>1, Zenon
  <2> QED  BY <2>2, <2>3, Zenon DEF f
<1> HIDE DEF a, z, K
<1>13. c[1] = a(1) /\ c[n + 2] = z /\ c[n + 1] = a(n + 1) /\ \A i \in 1 .. n : c[i] = a(i) /\ c[i + 1] = a(i + 1)
  OBVIOUS
<1> HIDE DEF c
<1>14. ASSUME NEW i \in 1 .. (n + 1) PROVE Link(P, r, c[i], l[i], c[i + 1])
  <2>1. CASE i \in 1 .. n
    BY <1>3, <1>10, <1>12, <1>13, <2>1, Zenon
  <2>2. CASE i = n + 1
    <3>1. i + 1 = n + 2
      BY <2>2
    <3> QED  BY <1>4, <1>9, <1>12, <1>13, <2>2, <3>1, Zenon
  <2>3. i \in 1 .. n \/ i = n + 1
    OBVIOUS
  <2> QED  BY <2>1, <2>2, <2>3, Zenon
<1>15. Sound(P, a(1))
  <2>1. 1 \in 1 .. (n + 1)
    OBVIOUS
  <2> QED  BY <1>13, <1>14, <2>1, Zenon DEF Link
<1>16. (n + 1) + 1 = n + 2
  OBVIOUS
<1>17. Leads(P, r, l, a(1), z)
  BY <1>12, <1>13, <1>14, <1>15, <1>16, Zenon DEF Leads
<1> QED  BY <1>2, <1>5, <1>9, <1>17, Zenon DEF a, z, K, s, l

LEMMA ListingFrom ==
  ASSUME NEW w \in Watchers, NEW content,
         NEW order \in Orders({k \in Keys : content[k] # Nil /\ keyAndSpanSelectFunc(w, k, content[k])})
  PROVE  \E n \in Nat : /\ Listing(w, content, order, n) /\ DOMAIN order = 1 .. n
<1>1. PICK S : S = {k \in Keys : content[k] # Nil /\ keyAndSpanSelectFunc(w, k, content[k])}
  BY Zenon
<1>2. S = Listable(w, content)
  BY <1>1, Zenon DEF Listable
<1>3. PICK D : D = DOMAIN order
  BY Zenon
<1>4. /\ order \in UNION {[1 .. n -> S] : n \in 0 .. Cardinality(S)}
      /\ \A k \in S : \E i \in D : \A j \in D : order[j] = k <=> i = j
  BY <1>1, <1>3, Zenon DEF Orders
<1>5. PICK n \in 0 .. Cardinality(S) : order \in [1 .. n -> S]
  BY <1>4, Zenon
<1>6. n \in Nat
  BY <1>5
<1>7. DOMAIN order = 1 .. n /\ D = 1 .. n
  BY <1>3, <1>5, Zenon
<1>8. /\ order \in [1 .. n -> Listable(w, content)]
      /\ \A k \in Listable(w, content) : \E i \in 1 .. n : \A j \in 1 .. n : order[j] = k <=> i = j
  BY <1>2, <1>4, <1>5, <1>7, Zenon
<1> QED  BY <1>6, <1>7, <1>8, Zenon DEF Listing

LEMMA LeadsNils ==
  ASSUME NEW P, NEW r, NEW S, NEW s \in Seq(S), \A i \in 1 .. Len(s) : s[i] = Nil, NEW a, Sound(P, a)
  PROVE  Leads(P, r, s, a, a)
<1>1. PICK n \in Nat : n = Len(s)
  OBVIOUS
<1> DEFINE c == [i \in 1 .. (n + 1) |-> a]
<1>2. c[1] = a /\ c[n + 1] = a /\ \A i \in 1 .. n : c[i] = a /\ c[i + 1] = a
  OBVIOUS
<1>3. Link(P, r, a, Nil, a)
  BY NilLinks, Zenon
<1> HIDE DEF c
<1> QED  BY <1>1, <1>2, <1>3, Zenon DEF Leads

(* Watch lists and registers while no write is under way: the events that   *)
(* incoming still has are older than the list, and dropped.                 *)
LEMMA WatchStep ==
  ASSUME FaithInv, Unstopped, NEW w1 \in Watchers, Watch(w1)
  PROVE  FaithInv'
<1>1. StoreTypes /\ WatchTypes /\ Dated /\ Phases /\ Registered /\ Fresh
  BY Zenon DEF FaithInv, StoreInv
<1>2. /\ incoming' = incoming /\ writer' = writer /\ storage' = storage /\ resource' = resource
      /\ history' = history /\ resourceVersion' = resourceVersion /\ dispatch' = dispatch
      /\ pending' = pending /\ stop' = stop /\ cancelled' = cancelled /\ view' = view
      /\ synced' = synced /\ input' = input /\ result' = result
      /\ proc[w1] = "none" /\ writer = Nil /\ watchers' = watchers \cup {w1}
      /\ startRV' = [startRV EXCEPT ![w1] = resourceVersion]
      /\ proc' = [proc EXCEPT ![w1] = "running"]
  BY Zenon DEF Watch, storeVars, dispatchVars, clientVars
<1>3. /\ resource \in DOMAIN Objects /\ storage \in Contents /\ resourceVersion \in Nat
      /\ history \in Seq(Contents) /\ Len(history) = resourceVersion + 1
      /\ history[resourceVersion + 1] = storage /\ incoming \in Seq(Event)
  BY <1>1, Zenon DEF StoreTypes
<1>4. PICK order \in Orders({k \in Keys : storage[k] # Nil /\ keyAndSpanSelectFunc(w1, k, storage[k])}) :
        initEvents' = [initEvents EXCEPT ![w1] =
              Append([i \in DOMAIN order |-> [key |-> order[i], prev |-> Nil, curr |-> storage[order[i]],
                                              rv |-> resourceVersion]], Bookmark)]
  BY Zenon DEF Watch
<1>5. PICK n \in Nat : Listing(w1, storage, order, n) /\ DOMAIN order = 1 .. n
  BY ListingFrom, Zenon
<1>6. PICK l : l = ListOf(storage, resourceVersion, order, n)
  BY Zenon
<1>7. initEvents' = [initEvents EXCEPT ![w1] = l]
  BY <1>4, <1>5, <1>6, Zenon DEF ListOf
<1>8. /\ startRV'[w1] = resourceVersion /\ startRV' \in [Watchers -> Nat]
      /\ proc'[w1] = "running" /\ proc' \in [Watchers -> {"none", "running", "exited"}]
      /\ \A w \in Watchers : w # w1 => startRV'[w] = startRV[w] /\ proc'[w] = proc[w]
  BY <1>1, <1>2, <1>3 DEF WatchTypes
<1>9. Past(w1)' = {Selected(resource, w1, storage)}
  <2>1. (resourceVersion + 1) .. Len(history) = {resourceVersion + 1}
    BY <1>3
  <2>2. Past(w1)' = {Selected(resource, w1, history[i]) : i \in (resourceVersion + 1) .. Len(history)}
    BY <1>2, <1>8, Zenon DEF Past
  <2> QED  BY <1>3, <2>1, <2>2, Zenon
<1>10. Selected(resource, w1, storage) \in Past(w1)'
  BY <1>9, Zenon
<1>a. PICK a : a = [known |-> [k \in Keys |-> Nil], synced |-> FALSE]
  BY Zenon
<1>z. PICK z : z = [known |-> Selected(resource, w1, storage), synced |-> TRUE]
  BY Zenon
<1>11. /\ l \in Seq(InitEvent \cup {Bookmark})
       /\ Leads(Past(w1)', resource, Convert(resource, resourceVersion, w1, l, TRUE), a, z)
  <2>1. /\ ListOf(storage, resourceVersion, order, n) \in Seq(InitEvent \cup {Bookmark})
        /\ Leads(Past(w1)', resource,
                 Convert(resource, resourceVersion, w1, ListOf(storage, resourceVersion, order, n), TRUE),
                 [known |-> [k \in Keys |-> Nil], synced |-> FALSE],
                 [known |-> Selected(resource, w1, storage), synced |-> TRUE])
    BY <1>3, <1>5, <1>10, ListLeads, Zenon
  <2> QED  BY <1>6, <1>a, <1>z, <2>1, Zenon
<1>12. /\ initEvents'[w1] = l /\ initEvents' \in [Watchers -> Seq(InitEvent \cup {Bookmark})]
       /\ \A w \in Watchers : w # w1 => initEvents'[w] = initEvents[w]
  BY <1>1, <1>7, <1>11 DEF WatchTypes
<1>13. StoreTypes'
  BY <1>1, <1>2, Zenon DEF StoreTypes
<1>14. WatchTypes'
  BY <1>1, <1>2, <1>8, <1>12, Zenon DEF WatchTypes
<1>15. Dated'
  <2>1. \A w \in Watchers : startRV'[w] <= resourceVersion
    BY <1>1, <1>3, <1>8 DEF Dated
  <2> QED  BY <1>1, <1>2, <2>1, Zenon DEF Dated
<1>16. Phases'
  BY <1>1, <1>2, Zenon DEF Phases
<1>17. Registered'
  <2>1. "running" # "none"
    OBVIOUS
  <2>2. stop[w1] = "no"
    BY <1>2, Zenon DEF Unstopped
  <2> QED  BY <1>1, <1>2, <1>8, <2>1, <2>2, Zenon DEF Registered, WatchTypes
<1>18. Fresh'
  <2>1. "running" # "none"
    OBVIOUS
  <2> QED  BY <1>1, <1>2, <1>8, <2>1, Zenon DEF Fresh
<1>19. ASSUME NEW w \in Watchers, w # w1 PROVE Chain(w)'
  <2>1. Same(w)
    BY <1>2, <1>8, <1>12, <1>19, Zenon DEF Same
  <2>2. (Busy(w)' => Busy(w)) /\ (Live(w)' => Live(w)) /\ Dispatched(w)' = Dispatched(w)
    BY <1>2, <1>8, <1>19, Zenon DEF Busy, Live, Dispatched
  <2>3. Chain(w)
    BY Zenon DEF FaithInv
  <2> QED  BY <1>2, <2>1, <2>2, <2>3, ChainSame, Zenon
<1>20. Chain(w1)'
  <2>1. Sound(Past(w1)', a) /\ Sound(Past(w1)', z)
    <3>1. PICK m : m = Convert(resource, resourceVersion, w1, l, TRUE)
      BY Zenon
    <3>2. l # <<>>
      BY <1>6 DEF ListOf
    <3>3. \E T : Convert(resource, resourceVersion, w1, l, TRUE) \in Seq(T)
      BY <1>11, <3>2, ConvertHead, Zenon
    <3> QED  BY <1>11, <3>1, <3>3, LeadsEnds, Zenon
  <2>2. Me(w1)' = a
    <3>1. view[w1] = [k \in Keys |-> Nil] /\ w1 \notin synced
      BY <1>1, <1>2, Zenon DEF Fresh
    <3>2. (w1 \in synced) = FALSE
      BY <3>1
    <3> QED  BY <1>2, <1>a, <3>1, <3>2, Zenon DEF Me
  <2>3. result[w1] = <<>> /\ pending[w1] = Nil /\ input[w1] = <<>>
    BY <1>1, <1>2, Zenon DEF Fresh
  <2>4. Near(w1, a, a)'
    <3>1. Leads(Past(w1)', resource, <<>>, a, a)
      BY <2>1, LeadsEmpty, Zenon
    <3>2. Link(Past(w1)', resource, a, Nil, a)
      BY <2>1, NilLinks, Zenon
    <3> QED  BY <1>2, <2>2, <2>3, <3>1, <3>2, Zenon DEF Near
  <2>5. Middle(w1, a, z, z)'
    <3>1. Leads(Past(w1)', resource, <<>>, z, z)
      BY <2>1, LeadsEmpty, Zenon
    <3>2. Convert(resource, resourceVersion, w1, <<>>, FALSE) = <<>>
      BY ConvertShort, Zenon
    <3>3. /\ Convert(resource', startRV'[w1], w1, initEvents'[w1], TRUE)
                = Convert(resource, resourceVersion, w1, l, TRUE)
          /\ Convert(resource', startRV'[w1], w1, input'[w1], FALSE) = <<>>
      BY <1>2, <1>8, <1>12, <2>3, <3>2, Zenon
    <3>4. /\ Leads(Past(w1)', resource', Convert(resource', startRV'[w1], w1, initEvents'[w1], TRUE), a, z)
          /\ Leads(Past(w1)', resource', Convert(resource', startRV'[w1], w1, input'[w1], FALSE), z, z)
      BY <1>2, <1>11, <3>1, <3>3, Zenon
    <3> QED  BY <3>4, Zenon DEF Middle
  <2>6. ASSUME NEW e \in Event, e.rv <= resourceVersion
        PROVE  Converted(resource, resourceVersion, w1, e, FALSE) = Nil
    <3>1. e.rv \in Nat
      BY DEF Event
    <3>2. ~(e.rv > resourceVersion)
      BY <1>3, <2>6, <3>1
    <3> QED  BY <3>2, Zenon DEF Converted
  <2>7. Converted(resource, resourceVersion, w1, Nil, FALSE) = Nil
    BY Zenon DEF Converted
  <2>8. Converted(resource, resourceVersion, w1, Dispatched(w1), FALSE) = Nil
    <3>1. CASE dispatch = Nil
      BY <2>7, <3>1, Zenon DEF Dispatched
    <3>2. CASE dispatch # Nil
      <4>1. dispatch.event \in Event /\ dispatch.event.rv <= resourceVersion
        BY <1>1, <3>2, DispatchFields, Zenon DEF StoreTypes, Dated
      <4> QED  BY <2>6, <2>7, <4>1, Zenon DEF Dispatched
    <3> QED  BY <3>1, <3>2, Zenon
  <2>9. Leads(Past(w1)', resource, Convert(resource, resourceVersion, w1, incoming, FALSE), z, z)
    <3>1. \A i \in 1 .. Len(incoming) : incoming[i] \in Event /\ incoming[i].rv <= resourceVersion
      BY <1>1, <1>3 DEF Dated
    <3>2. \A i \in 1 .. Len(incoming) : Converted(resource, resourceVersion, w1, incoming[i], FALSE) = Nil
      BY <2>6, <3>1, Zenon
    <3>3. PICK m : m = Convert(resource, resourceVersion, w1, incoming, FALSE)
      BY Zenon
    <3>4. m = [i \in DOMAIN incoming |-> Converted(resource, resourceVersion, w1, incoming[i], FALSE)]
      BY <3>3, Zenon DEF Convert
    <3>5. DOMAIN incoming = 1 .. Len(incoming) /\ Len(incoming) \in Nat
      BY <1>3
    <3>6. m = [i \in 1 .. Len(incoming) |-> Nil]
      BY <3>2, <3>4, <3>5, Zenon
    <3>7. m \in Seq({Nil}) /\ \A i \in 1 .. Len(m) : m[i] = Nil
      BY <3>5, <3>6
    <3>8. Leads(Past(w1)', resource, m, z, z)
      BY <2>1, <3>7, LeadsNils, Zenon
    <3> QED  BY <3>3, <3>8, Zenon
  <2>10. Far(w1, z, z, z, z)'
    <3>1. Link(Past(w1)', resource, z, Nil, z)
      BY <2>1, NilLinks, Zenon
    <3>2. z.known = Selected(resource, w1, storage)
      BY <1>z
    <3>3. Dispatched(w1)' = Dispatched(w1)
      BY <1>2, Zenon DEF Dispatched
    <3>4. /\ Converted(resource', startRV'[w1], w1, Dispatched(w1)', FALSE) = Nil
          /\ Converted(resource', startRV'[w1], w1, writer', FALSE) = Nil
          /\ Convert(resource', startRV'[w1], w1, incoming', FALSE)
                = Convert(resource, resourceVersion, w1, incoming, FALSE)
      BY <1>2, <1>8, <2>7, <2>8, <3>3, Zenon
    <3>5. /\ Link(Past(w1)', resource', z, Converted(resource', startRV'[w1], w1, Dispatched(w1)', FALSE), z)
          /\ Leads(Past(w1)', resource', Convert(resource', startRV'[w1], w1, incoming', FALSE), z, z)
          /\ Link(Past(w1)', resource', z, Converted(resource', startRV'[w1], w1, writer', FALSE), z)
          /\ z.known = Selected(resource', w1, storage')
      BY <1>2, <2>9, <3>1, <3>2, <3>4, Zenon
    <3> QED  BY <3>5, Zenon DEF Far
  <2> QED  BY <2>4, <2>5, <2>10, Zenon DEF Chain
<1> QED  BY <1>13, <1>14, <1>15, <1>16, <1>17, <1>18, <1>19, <1>20, Zenon DEF FaithInv, StoreInv

(* One step of the store, whoever takes it.                                 *)
LEMMA NextFaith ==
  ASSUME FaithInv, Unstopped, Next
  PROVE  FaithInv'
<1>1. ASSUME Writer PROVE FaithInv'
  <2>1. PICK key \in Keys : \/ \E obj \in Objects[resource] : Create(key, obj) \/ Update(key, obj)
                            \/ Delete(key)
    BY <1>1, Zenon DEF Writer
  <2>2. Objects[resource] \subseteq Object
    BY RamStoreAssumption, Zenon DEF FaithInv, StoreInv, StoreTypes
  <2>3. PICK obj \in Object \cup {Nil} : Write(key, obj)
    BY <2>1, <2>2, Zenon DEF Create, Update, Delete
  <2> QED  BY <2>3, WriteStep, Zenon
<1>2. ASSUME DispatchStep PROVE FaithInv'
  BY <1>2, TakeStep, LockStep, WaitStep, UnlockStep, NonBlockingAddStep, AddStep, TimeoutStep, ForgetStep,
     StoppedStep, Zenon DEF DispatchStep
<1>3. ASSUME NEW w \in Watchers, StopClose(w) \/ processStep(w) \/ Client(w) PROVE FaithInv'
  BY <1>3, CloseStep, InitStep, InputStep, SendStep, ExitStep, WatchStep, ForgetStep, CancelStep, ReceiveStep,
     Zenon DEF processStep, Client
<1> QED  BY <1>1, <1>2, <1>3, EventStep, Zenon DEF Next

-----------------------------------------------------------------------------
(* What the invariant says of the client.                                   *)

LEMMA ConvertSeq ==
  ASSUME NEW r, NEW w, NEW since, NEW S, NEW s \in Seq(S), NEW isInit \in BOOLEAN
  PROVE  \E T : Convert(r, since, w, s, isInit) \in Seq(T)
<1>1. CASE s # <<>>
  BY <1>1, ConvertHead, Zenon
<1>2. CASE s = <<>>
  <2>1. Convert(r, since, w, <<>>, isInit) = <<>>
    BY ConvertShort, Zenon
  <2>2. <<>> \in Seq({})
    OBVIOUS
  <2> QED  BY <1>2, <2>1, <2>2, Zenon
<1> QED  BY <1>1, <1>2, Zenon

Splits(r, w, since, s, t) ==
    Convert(r, since, w, s \o t, FALSE)
        = Convert(r, since, w, s, FALSE) \o Convert(r, since, w, t, FALSE)

LEMMA ConvertConcat ==
  ASSUME NEW r, NEW w, NEW since, NEW S, NEW s \in Seq(S), NEW t \in Seq(S)
  PROVE  Splits(r, w, since, s, t)
<1> DEFINE f(x) == Converted(r, since, w, x, FALSE)
<1>1. /\ Convert(r, since, w, s, FALSE) = [i \in DOMAIN s |-> f(s[i])]
      /\ Convert(r, since, w, t, FALSE) = [i \in DOMAIN t |-> f(t[i])]
      /\ Convert(r, since, w, s \o t, FALSE) = [i \in DOMAIN (s \o t) |-> f((s \o t)[i])]
  BY Zenon DEF Convert
<1> HIDE DEF f
<1>2. PICK n \in Nat : n = Len(s) /\ DOMAIN s = 1 .. n
  OBVIOUS
<1>3. PICK m \in Nat : m = Len(t) /\ DOMAIN t = 1 .. m
  OBVIOUS
<1>4. /\ DOMAIN (s \o t) = 1 .. (n + m)
      /\ \A i \in 1 .. (n + m) : (s \o t)[i] = IF i <= n THEN s[i] ELSE t[i - n]
  BY <1>2, <1>3
<1> DEFINE T == {f(s[i]) : i \in 1 .. n} \cup {f(t[i]) : i \in 1 .. m}
           p == [i \in 1 .. n |-> f(s[i])]
           q == [i \in 1 .. m |-> f(t[i])]
<1>5. p \in Seq(T) /\ Len(p) = n /\ q \in Seq(T) /\ Len(q) = m
  BY <1>2, <1>3
<1>6. p \o q = [i \in 1 .. (n + m) |-> IF i <= n THEN f(s[i]) ELSE f(t[i - n])]
  BY <1>2, <1>3, <1>5
<1>7. [i \in DOMAIN (s \o t) |-> f((s \o t)[i])]
        = [i \in 1 .. (n + m) |-> IF i <= n THEN f(s[i]) ELSE f(t[i - n])]
  BY <1>4
<1>8. Convert(r, since, w, s, FALSE) = p /\ Convert(r, since, w, t, FALSE) = q
  BY <1>1, <1>2, <1>3, Zenon
<1> HIDE DEF p, q, T
<1> QED  BY <1>1, <1>6, <1>7, <1>8, Zenon DEF Splits

LEMMA LeadsTogether ==
  ASSUME NEW P, NEW r, NEW s, NEW t, NEW a, NEW b, NEW d, \E S : s \in Seq(S), \E S : t \in Seq(S),
         Leads(P, r, s, a, b), Leads(P, r, t, b, d)
  PROVE  Leads(P, r, s \o t, a, d) /\ \E S : s \o t \in Seq(S)
<1>1. PICK S : s \in Seq(S)
  BY Zenon
<1>2. PICK T : t \in Seq(T)
  BY Zenon
<1>3. s \o t \in Seq(S \cup T)
  <2>1. s \in Seq(S \cup T) /\ t \in Seq(S \cup T)
    BY <1>1, <1>2
  <2> QED  BY <2>1
<1> QED  BY <1>1, <1>2, <1>3, LeadsConcat, Zenon

LEMMA LinkLeads ==
  ASSUME NEW P, NEW r, NEW a, NEW e, NEW b, Link(P, r, a, e, b)
  PROVE  Leads(P, r, <<e>>, a, b) /\ \E S : <<e>> \in Seq(S)
<1>1. <<e>> \in Seq({e})
  OBVIOUS
<1> QED  BY <1>1, LeadsOne, Zenon

(* All that is under way to a live watcher, as one sequence.                *)
LEMMA InFlightLeads ==
  ASSUME FaithInv, NEW w \in Watchers, Live(w)
  PROVE  \E z : /\ Leads(Past(w), resource, InFlight(w), Me(w), z) /\ \E S : InFlight(w) \in Seq(S)
               /\ z.known = Selected(resource, w, storage)
<1>1. StoreTypes /\ WatchTypes /\ Registered
  BY Zenon DEF FaithInv, StoreInv
<1>3. w \in Watchers /\ Live(w) /\ Busy(w)
  BY <1>1, LiveIsBusy, Zenon
<1>4. PICK a, b, d, y, u, v, z : Near(w, a, b) /\ Middle(w, b, d, y) /\ Far(w, y, u, v, z)
  BY <1>3, Zenon DEF FaithInv, Chain
<1> DEFINE C(s) == Convert(resource, startRV[w], w, s, FALSE)
           ci == Convert(resource, startRV[w], w, initEvents[w], TRUE)
           L(s, p, q) == Leads(Past(w), resource, s, p, q) /\ \E S : s \in Seq(S)
<1>5. L(result[w], Me(w), a) /\ L(<<pending[w]>>, a, b)
  BY <1>1, <1>3, <1>4, LinkLeads, Zenon DEF WatchTypes, Near
<1>6. L(ci, b, d)
  BY <1>1, <1>3, <1>4, ConvertSeq, Zenon DEF WatchTypes, Middle
<1>7. L(C(input[w]), d, y) /\ L(C(incoming), u, v)
  BY <1>1, <1>3, <1>4, ConvertSeq, Zenon DEF StoreTypes, WatchTypes, Middle, Far
<1>8. L(C(<<Dispatched(w)>>), y, u) /\ L(C(<<writer>>), v, z)
  <2>1. /\ C(<<Dispatched(w)>>) = <<Converted(resource, startRV[w], w, Dispatched(w), FALSE)>>
        /\ C(<<writer>>) = <<Converted(resource, startRV[w], w, writer, FALSE)>>
    BY ConvertShort, Zenon
  <2>2. /\ L(<<Converted(resource, startRV[w], w, Dispatched(w), FALSE)>>, y, u)
        /\ L(<<Converted(resource, startRV[w], w, writer, FALSE)>>, v, z)
    BY <1>4, LinkLeads, Zenon DEF Far
  <2> QED  BY <2>1, <2>2, Zenon
<1>9. L(C(Unconverted(w)), d, z)
  <2>1. /\ input[w] \in Seq(Event \cup {Nil}) /\ incoming \in Seq(Event \cup {Nil})
        /\ <<Dispatched(w)>> \in Seq(Event \cup {Nil}) /\ <<writer>> \in Seq(Event \cup {Nil})
    <3>1. input[w] \in Seq(Event) /\ incoming \in Seq(Event) /\ writer \in Event \cup {Nil}
      BY <1>1, <1>3, Zenon DEF StoreTypes, WatchTypes
    <3>2. Dispatched(w) \in Event \cup {Nil}
      BY <1>1, DispatchFields, Zenon DEF StoreTypes, Dispatched
    <3> QED  BY <3>1, <3>2
  <2>2. PICK s1 : s1 = input[w] \o <<Dispatched(w)>>
    BY Zenon
  <2>3. PICK s2 : s2 = s1 \o incoming
    BY Zenon
  <2>4. s1 \in Seq(Event \cup {Nil}) /\ s2 \in Seq(Event \cup {Nil})
    BY <2>1, <2>2, <2>3
  <2>14. ASSUME NEW s \in Seq(Event \cup {Nil}), NEW t \in Seq(Event \cup {Nil})
        PROVE  C(s \o t) = C(s) \o C(t)
    <3>1. Convert(resource, startRV[w], w, s \o t, FALSE)
            = Convert(resource, startRV[w], w, s, FALSE) \o Convert(resource, startRV[w], w, t, FALSE)
      <4>1. Splits(resource, w, startRV[w], s, t)
        BY ConvertConcat, Zenon
      <4> QED  BY <4>1, Zenon DEF Splits
    <3> QED  BY <3>1, Zenon
  <2>5. C(input[w] \o <<Dispatched(w)>>) = C(input[w]) \o C(<<Dispatched(w)>>)
    BY <2>1, <2>14, Zenon
  <2>6. C(s1 \o incoming) = C(s1) \o C(incoming)
    BY <2>1, <2>4, <2>14, Zenon
  <2>7. C(s2 \o <<writer>>) = C(s2) \o C(<<writer>>)
    BY <2>1, <2>4, <2>14, Zenon
  <2> HIDE DEF C
  <2>8. L(C(input[w]) \o C(<<Dispatched(w)>>), d, u)
    BY <1>7, <1>8, LeadsTogether, Zenon
  <2>9. L(C(s1), d, u)
    BY <2>2, <2>5, <2>8, Zenon
  <2>10. L(C(s1) \o C(incoming), d, v)
    BY <1>7, <2>9, LeadsTogether, Zenon
  <2>11. L(C(s2), d, v)
    BY <2>3, <2>6, <2>10, Zenon
  <2>12. L(C(s2) \o C(<<writer>>), d, z)
    BY <1>8, <2>11, LeadsTogether, Zenon
  <2>13. L(C(s2 \o <<writer>>), d, z)
    BY <2>7, <2>12, Zenon
  <2> QED  BY <2>2, <2>3, <2>13, Zenon DEF Unconverted
<1>10. L(InFlight(w), Me(w), z)
  <2> DEFINE cu == C(Unconverted(w))
  <2>1. InFlight(w) = ((result[w] \o <<pending[w]>>) \o ci) \o cu
    BY Zenon DEF InFlight
  <2> HIDE DEF C, ci, cu
  <2>2. L(result[w] \o <<pending[w]>>, Me(w), b)
    BY <1>5, LeadsTogether, Zenon
  <2>3. L((result[w] \o <<pending[w]>>) \o ci, Me(w), d)
    BY <1>6, <2>2, LeadsTogether, Zenon
  <2>4. L(((result[w] \o <<pending[w]>>) \o ci) \o cu, Me(w), z)
    BY <1>9, <2>3, LeadsTogether, Zenon DEF cu
  <2> QED  BY <2>1, <2>4, Zenon
<1> QED  BY <1>4, <1>10, Zenon DEF Far

FoldStep(r, base, s, g, t) ==
    IF t = {} THEN base ELSE Learn(r, g[t \ {LastIndex(t)}], s[LastIndex(t)])

LEMMA LastIndexIs ==
  ASSUME NEW m \in Nat, NEW t \in SUBSET (1 .. m), m \in t
  PROVE  LastIndex(t) = m
<1>1. \A y \in t : m >= y
  OBVIOUS
<1>2. \A x \in t : (\A y \in t : x >= y) => x = m
  OBVIOUS
<1> QED  BY <1>1, <1>2, Zenon DEF LastIndex

INSTANCE NaturalsInduction

INSTANCE WellFoundedInduction

(* A set of naturals has a least element, which replaces induction below.   *)
LEMMA Smallest ==
  ASSUME NEW T, T \subseteq Nat, T # {}
  PROVE  \E m \in T : \A k \in T : m <= k
<1>1. PICK m \in T : \A k \in T : ~(<<k, m>> \in OpToRel(<, Nat))
  BY WFMin, NatLessThanWellFounded, Zenon
<1>2. \A k \in T : ~(k < m)
  BY <1>1, Zenon DEF OpToRel
<1> QED  BY <1>2

(* g is the function that LearnAll's fold computes, on the sets of places   *)
(* up to m.                                                                 *)
Folds(r, base, s, g, m) == g = [t \in SUBSET (1 .. m) |-> FoldStep(r, base, s, g, t)]

(* The fold is defined: a least m without such a function would have one.   *)
LEMMA FoldExists ==
  ASSUME NEW n \in Nat, NEW r, NEW s, NEW base
  PROVE  \E g : Folds(r, base, s, g, n)
<1> DEFINE B == {m \in Nat : ~ \E g : Folds(r, base, s, g, m)}
<1>1. SUFFICES ASSUME B # {} PROVE FALSE
  BY Zenon
<1>2. PICK m \in B : \A k \in B : m <= k
  BY <1>1, Smallest, Zenon
<1>3. m # 0
  <2>1. Folds(r, base, s, [t \in SUBSET (1 .. 0) |-> base], 0)
    BY DEF Folds, FoldStep
  <2> QED  BY <2>1, Zenon
<1>4. PICK g : Folds(r, base, s, g, m - 1)
  <2>1. m - 1 \in Nat /\ m - 1 \notin B
    BY <1>2, <1>3
  <2> QED  BY <2>1, Zenon
<1> DEFINE h == [t \in SUBSET (1 .. m) |->
                   IF m \in t THEN Learn(r, g[t \ {m}], s[m]) ELSE g[t]]
<1>5. ASSUME NEW t \in SUBSET (1 .. m)
      PROVE  h[t] = FoldStep(r, base, s, h, t)
  <2>0. m \in Nat
    OBVIOUS
  <2>1. CASE m \in t
    <3>1. t \ {m} \in SUBSET (1 .. m) /\ m \notin t \ {m} /\ t # {}
      BY <2>1
    <3>2. h[t \ {m}] = g[t \ {m}]
      BY <3>1, Zenon
    <3>3. LastIndex(t) = m
      BY <2>0, <2>1, LastIndexIs, Zenon
    <3> QED  BY <2>1, <3>1, <3>2, <3>3, Zenon DEF FoldStep
  <2>2. CASE m \notin t
    <3>1. t \in SUBSET (1 .. (m - 1))
      BY <2>2, <2>0
    <3>2. g[t] = FoldStep(r, base, s, g, t)
      BY <3>1, <1>4, Zenon DEF Folds
    <3>3. t \ {LastIndex(t)} \in SUBSET (1 .. m) /\ m \notin t \ {LastIndex(t)}
      BY <2>2, Zenon
    <3>4. h[t \ {LastIndex(t)}] = g[t \ {LastIndex(t)}]
      BY <3>3, Zenon
    <3> QED  BY <2>2, <3>2, <3>4, Zenon DEF FoldStep
  <2> QED  BY <2>1, <2>2, Zenon
<1>6. Folds(r, base, s, h, m)
  BY <1>5, Zenon DEF Folds
<1> QED  BY <1>6, Zenon

LEMMA LearnAllFolds ==
  ASSUME NEW r, NEW S, NEW s \in Seq(S), NEW base
  PROVE  \E g : Folds(r, base, s, g, Len(s)) /\ LearnAll(r, base, s) = g[1 .. Len(s)]
<1> DEFINE I == CHOOSE g : Folds(r, base, s, g, Len(s))
<1>1. Len(s) \in Nat /\ DOMAIN s = 1 .. Len(s)
  OBVIOUS
<1>2. LearnAll(r, base, s) = I[1 .. Len(s)]
  BY <1>1 DEF LearnAll, MapThenFoldSet, Folds, FoldStep
<1>3. Folds(r, base, s, I, Len(s))
  BY <1>1, FoldExists, Zenon
<1> HIDE DEF I
<1> QED  BY <1>2, <1>3, Zenon

Run(r, s, c) == \A i \in 1 .. Len(s) : c[i + 1] = Learn(r, c[i], s[i])

(* LearnAll applies the messages in their order.                            *)
LEMMA LearnAllIs ==
  ASSUME NEW r, NEW S, NEW s \in Seq(S), NEW c, Run(r, s, c)
  PROVE  LearnAll(r, c[1], s) = c[Len(s) + 1]
<1>0. PICK n \in Nat : n = Len(s)
  OBVIOUS
<1>1. PICK g : Folds(r, c[1], s, g, n) /\ LearnAll(r, c[1], s) = g[1 .. n]
  BY <1>0, LearnAllFolds, Zenon
<1> DEFINE B == {m \in 0 .. n : g[1 .. m] # c[m + 1]}
<1>2. SUFFICES ASSUME B # {} PROVE FALSE
  <2>1. n \in 0 .. n
    OBVIOUS
  <2> QED  BY <1>0, <1>1, <2>1, Zenon
<1>3. PICK m \in B : \A k \in B : m <= k
  <2>1. B \subseteq Nat
    OBVIOUS
  <2> QED  BY <1>2, <2>1, Smallest, Zenon
<1>4. m \in 0 .. n /\ m \in Nat /\ 1 .. m \in SUBSET (1 .. n)
  OBVIOUS
<1>5. g[1 .. m] = FoldStep(r, c[1], s, g, 1 .. m)
  BY <1>1, <1>4, Zenon DEF Folds
<1>6. CASE m = 0
  <2>1. 1 .. m = {} /\ m + 1 = 1
    BY <1>6
  <2>2. g[1 .. m] = c[m + 1]
    BY <1>5, <2>1, Zenon DEF FoldStep
  <2> QED  BY <2>2, Zenon
<1>7. CASE m # 0
  <2>1. /\ m \in 1 .. m /\ m - 1 \in 0 .. n /\ (1 .. m) \ {m} = 1 .. (m - 1)
        /\ (m - 1) + 1 = m /\ m \in 1 .. n
    BY <1>4, <1>7
  <2>2. LastIndex(1 .. m) = m
    BY <1>4, <2>1, LastIndexIs, Zenon
  <2>3. g[1 .. m] = Learn(r, g[1 .. (m - 1)], s[m])
    BY <1>5, <2>1, <2>2, Zenon DEF FoldStep
  <2>4. g[1 .. (m - 1)] = c[m]
    <3>1. m - 1 \notin B
      BY <1>3, <1>4
    <3> QED  BY <2>1, <3>1, Zenon
  <2>5. c[m + 1] = Learn(r, c[m], s[m])
    BY <1>0, <2>1, Zenon DEF Run
  <2> QED  BY <2>3, <2>4, <2>5, Zenon
<1> QED  BY <1>6, <1>7, Zenon

(* Where a sequence leads is what the client learns from it.                *)
LEMMA LeadsLearns ==
  ASSUME NEW P, NEW r, NEW S, NEW s \in Seq(S), NEW a, NEW b, Leads(P, r, s, a, b)
  PROVE  LearnAll(r, a.known, s) = b.known
<1>1. PICK n \in Nat : n = Len(s) /\ DOMAIN s = 1 .. n
  OBVIOUS
<1>2. PICK c : c[1] = a /\ c[n + 1] = b /\ \A i \in 1 .. n : Link(P, r, c[i], s[i], c[i + 1])
  BY <1>1, Zenon DEF Leads
<1> DEFINE k == [i \in 1 .. (n + 1) |-> c[i].known]
<1>3. ASSUME NEW i \in 1 .. n
      PROVE  k[i + 1] = Learn(r, k[i], s[i])
  <2>1. i \in 1 .. (n + 1) /\ i + 1 \in 1 .. (n + 1)
    OBVIOUS
  <2>2. k[i] = c[i].known /\ k[i + 1] = c[i + 1].known
    BY <2>1, Zenon
  <2>3. c[i + 1] = After(r, c[i], s[i])
    BY <1>2, Zenon DEF Link
  <2>4. c[i + 1].known = Learn(r, c[i].known, s[i])
    BY <2>3 DEF After
  <2> QED  BY <2>2, <2>4, Zenon
<1>4. k[1] = a.known /\ k[n + 1] = b.known
  BY <1>2
<1>5. Run(r, s, k)
  BY <1>1, <1>3, Zenon DEF Run
<1> HIDE DEF k
<1>6. LearnAll(r, k[1], s) = k[n + 1]
  BY <1>1, <1>5, LearnAllIs, Zenon
<1> QED  BY <1>4, <1>6, Zenon

(* A live client that receives all that is under way knows what is stored.  *)
LEMMA FaithNothingLost ==
  ASSUME FaithInv
  PROVE  NothingLost
<1>1. SUFFICES ASSUME NEW w \in watchers, proc[w] = "running", dispatch = Nil \/ w \notin dispatch.failed
               PROVE  LearnAll(resource, view[w], InFlight(w)) = Selected(resource, w, storage)
  BY Zenon DEF NothingLost
<1>2. w \in Watchers /\ Live(w)
  BY <1>1, Zenon DEF FaithInv, StoreInv, WatchTypes, Live
<1>3. PICK z : /\ Leads(Past(w), resource, InFlight(w), Me(w), z) /\ \E S : InFlight(w) \in Seq(S)
               /\ z.known = Selected(resource, w, storage)
  BY <1>2, InFlightLeads, Zenon
<1>4. LearnAll(resource, Me(w).known, InFlight(w)) = z.known
  BY <1>3, LeadsLearns, Zenon
<1>5. Me(w).known = view[w]
  BY DEF Me
<1> QED  BY <1>3, <1>4, <1>5, Zenon

(* A client never receives a message that does not fit what it knows, after *)
(* the bookmark knows what the store held at some version since its Watch,  *)
(* and with what is under way to it knows what the store holds now: for any *)
(* writers, watchers, timeouts and ends of requests (Watch, process,        *)
(* dispatchEvents, ToWatchEvent).                                           *)
THEOREM Faithful == Spec => []WatchIsFaithful
<1>1. Init => WatchInv
  BY InitFaith, Zenon
<1>2. WatchInv /\ [Next]_vars => WatchInv'
  <2>1. SUFFICES ASSUME WatchInv, [Next]_vars PROVE WatchInv'
    BY Zenon
  <2>2. CASE Next
    BY <2>1, <2>2, NextFaith, UnstoppedStep, SyncedStep, Zenon DEF WatchInv
  <2>3. CASE UNCHANGED vars
    <3>1. Unstopped' /\ synced' \subseteq Watchers
      BY <2>1, <2>3, Zenon DEF WatchInv, Unstopped, vars, processVars, stopVars, dispatchVars, clientVars
    <3> QED  BY <2>1, <2>3, <3>1, StutterFaith, Zenon DEF WatchInv
  <2> QED  BY <2>1, <2>2, <2>3, Zenon
<1>3. WatchInv => WatchIsFaithful
  BY FaithNothingLost, FaithReal, FaithApplies, Zenon DEF WatchInv, WatchIsFaithful
<1> QED  BY <1>1, <1>2, <1>3, PTL DEF Spec
=============================================================================
