----------------------------- MODULE SupportBundle -----------------------------
(***************************************************************************)
(* The support bundle a controller or agent collects on request: one bundle  *)
(* at a time is shown, a new request or a delete cancels the collection that *)
(* runs, a bundle and its file go when the bundle expires. A collection is a *)
(* goroutine with a context of its own; they share the status under a lock.  *)
(* Collections are numbered in the order of the requests, 0 is no file.      *)
(***************************************************************************)
EXTENDS Integers, FiniteSets

CONSTANTS MaxRequests, MaxBundleFaults

VARIABLES
  bundle,      \* r.cache: [status, file]
  latest,     \* the collection r.cancelFunc belongs to, 0 before the first
  collection, \* where the goroutine of each collection is
  canceled,   \* collections whose context is done
  files,      \* bundle files on disk
  crashed,    \* the process has panicked
  sbFaults

sbVars == <<bundle, latest, collection, canceled, files, crashed, sbFaults>>

Collections == 1..MaxRequests
NoBundle     == [status |-> "None", file |-> 0]
Goes(c, s)  == collection' = [collection EXCEPT ![c] = s]
At(c, s)    == ~crashed /\ collection[c] = s

BundleInit ==
  /\ bundle = NoBundle /\ latest = 0 /\ collection = [c \in Collections |-> "none"]
  /\ canceled = {} /\ files = {} /\ crashed = FALSE /\ sbFaults = 0

---------------------------------------------------------------------------
(* Requests, under statusLocker                                            *)

Cancel == IF latest = 0 THEN canceled ELSE canceled \cup {latest}

CreateBundle ==
  /\ ~crashed /\ latest < MaxRequests
  /\ canceled' = Cancel /\ latest' = latest + 1
  /\ bundle' = [status |-> "Collecting", file |-> 0]
  /\ Goes(latest + 1, "collecting")
  /\ UNCHANGED <<files, crashed, sbFaults>>

DeleteBundle ==
  /\ ~crashed /\ latest # 0 /\ latest \notin canceled
  /\ canceled' = Cancel /\ bundle' = NoBundle
  /\ UNCHANGED <<latest, collection, files, crashed, sbFaults>>

---------------------------------------------------------------------------
(* The goroutine of a collection                                           *)

\* The dumpers have run and packDir has written the output file.
packDir(c) ==
  /\ At(c, "collecting") /\ Goes(c, "packed") /\ files' = files \cup {c}
  /\ UNCHANGED <<bundle, latest, canceled, crashed, sbFaults>>

\* A dumper or packDir fails; packDir has created the file by then and leaves it.
collectFails(c) ==
  /\ At(c, "collecting") /\ sbFaults < MaxBundleFaults /\ sbFaults' = sbFaults + 1
  /\ Goes(c, "failed")
  /\ \/ UNCHANGED files
     \/ files' = files \cup {c}
  /\ UNCHANGED <<bundle, latest, canceled, crashed>>

collect(c) ==
  /\ At(c, "packed")
  /\ IF c \in canceled THEN Goes(c, "failed") /\ files' = files \ {c}
     ELSE Goes(c, "collected") /\ UNCHANGED files
  /\ UNCHANGED <<bundle, latest, canceled, crashed, sbFaults>>

publishUnchecked(c) ==
  /\ At(c, "collected") /\ Goes(c, "waiting")
  /\ bundle' = [status |-> "Collected", file |-> c]
  /\ UNCHANGED <<latest, canceled, files, crashed, sbFaults>>

\* A collection canceled since it was finished is not shown.
publish(c) ==
  /\ At(c, "collected") /\ Goes(c, "waiting")
  /\ bundle' = IF c \in canceled THEN bundle ELSE [status |-> "Collected", file |-> c]
  /\ UNCHANGED <<latest, canceled, files, crashed, sbFaults>>

\* A collection that failed resets the status, whichever collection it is the
\* status of, and goes on to read the file name of a bundle that is nil.
publishError(c) ==
  /\ At(c, "failed") /\ Goes(c, "nil")
  /\ bundle' = [bundle EXCEPT !.status = "None"]
  /\ UNCHANGED <<latest, canceled, files, crashed, sbFaults>>

readFilepath(c) ==
  /\ At(c, "nil") /\ Goes(c, "done") /\ crashed' = TRUE
  /\ UNCHANGED <<bundle, latest, canceled, files, sbFaults>>

cleanForgets(c) ==
  /\ At(c, "waiting") /\ Goes(c, IF c \in canceled THEN "done" ELSE "removing")
  /\ bundle' = IF c \notin canceled /\ bundle.status = "Collected" THEN NoBundle ELSE bundle
  /\ UNCHANGED <<latest, canceled, files, crashed, sbFaults>>

\* clean returns from its wait because the context is done, or because the
\* bundle has expired, when it checks the context again under the lock.
clean(c) ==
  /\ At(c, "waiting") /\ Goes(c, "removing")
  /\ bundle' = IF c \notin canceled /\ bundle.status = "Collected" THEN NoBundle ELSE bundle
  /\ UNCHANGED <<latest, canceled, files, crashed, sbFaults>>

Remove(c) ==
  /\ At(c, "removing") /\ Goes(c, "done") /\ files' = files \ {c}
  /\ UNCHANGED <<bundle, latest, canceled, crashed, sbFaults>>

Step(c) == \/ packDir(c) \/ collect(c) \/ publish(c) \/ publishError(c) \/ readFilepath(c)
           \/ clean(c) \/ Remove(c)

BundleNext == CreateBundle \/ DeleteBundle \/ \E c \in Collections : Step(c) \/ collectFails(c)

BundleSpec     == BundleInit /\ [][BundleNext]_sbVars
\* Goroutines run and timers fire; requests need not come.
BundleFairSpec == BundleSpec /\ \A c \in Collections : WF_sbVars(Step(c))

---------------------------------------------------------------------------

(***************************************************************************)
(* The bundle shown as collected is the one of the latest request, has not   *)
(* been canceled, and its file is there to be downloaded: no collection that *)
(* was superseded or deleted comes back, whatever the order in which the     *)
(* goroutines of Create, their cancellation and their expiry take the lock.  *)
(***************************************************************************)
CollectedIsLatest ==
  bundle.status = "Collected" => /\ bundle.file = latest /\ bundle.file \in files
                                /\ bundle.file \notin canceled

(***************************************************************************)
(* As long as the process lives, the file of every collection is removed in  *)
(* the end: clean waits for the expiry or the cancellation of each bundle,   *)
(* also of one that was never shown.                                         *)
(***************************************************************************)
FilesGo ==
  \A c \in Collections : []<>(crashed \/ c \notin files)
===============================================================================
