----------------------------- MODULE EvalBuild -----------------------------
(***************************************************************************)
(* `understudy evals build` of src/src/commands/evals.ts for one --out     *)
(* directory: the lease of evals/build-state.ts, the staging directory,    *)
(* the resumable export of workload-trace-export.ts, and the rename of the *)
(* staging directory to the output.                                        *)
(*                                                                         *)
(* A builder is one process that runs the command once.  It can be killed  *)
(* between any two changes of the file system; what it leaves behind is    *)
(* what the next builder starts from.  The gateway lists captures that it  *)
(* ingested late, and loses raw objects while a build is under way.        *)
(***************************************************************************)
EXTENDS Integers, FiniteSets

CONSTANTS
  Builders,     \* processes that run the command, each once
  Rolling,      \* builders without --date: they resume the stored window
  Selects,      \* Selects[b]: the captures in the window that b asks for
  NumCaptures,  \* captures of the workload, numbered in capture order
  Late,         \* bound: captures that may not be listed from the start
  Perishable,   \* bound: captures whose raw object may go
  PageSize,     \* captures on a page of the listing
  Concurrency,  \* downloads at a time
  None

Captures == 1..NumCaptures
Windows == SUBSET Captures

(* The summary of an export, and the contents of a directory. *)
Summaries == [window : Windows, rows : Windows, skipped : Windows]
Marks == {None} \cup Windows
Manifests == {None} \cup Summaries
Dirs == [window : Marks, mode : {"rolling", "date", None}, traces : Windows,
         index : Marks, skipped : Marks, summary : Manifests, project : Manifests]

ASSUME EvalBuildAssumption ==
  /\ Rolling \subseteq Builders
  /\ NumCaptures \in Nat
  /\ Selects \in [Builders -> Windows]
  /\ PageSize \in Nat \ {0} /\ Concurrency \in Nat \ {0}
  /\ None \notin Builders \cup Summaries \cup Dirs \cup [window : Windows, listed : Windows]
  /\ \A w \in Windows : w # None

VARIABLES
  ingested,  \* captures that the gateway lists
  stored,    \* captures whose raw object it still has
  lock,      \* the lock directory, and the owner that its file names
  staging,   \* what the staging directory holds
  output,    \* what the output directory holds, None if there is none
  pc,        \* pc[b]: where builder b is
  export,    \* export[b]: the variables of b's exportWorkloadTraceWindow
  fetched,   \* history: fetched[c] counts finished downloads of c
  listed     \* history: captures of the window listed when it was bound

gatewayVars == <<ingested, stored>>
dirVars == <<staging, output>>
vars == <<gatewayVars, lock, dirVars, pc, export, fetched, listed>>

Free == [dir |-> FALSE, owner |-> None]
NoExport == [todo |-> {}, page |-> {}, flight |-> {}, rows |-> {},
             missing |-> {}, failed |-> FALSE]
Nothing == [window |-> None, mode |-> None, traces |-> {}, index |-> None,
            skipped |-> None, summary |-> None, project |-> None]

Mode(b) == IF b \in Rolling THEN "rolling" ELSE "date"

(* What each removal of a marker removes, and where it goes on: the three    *)
(* before an export, and the three of the finally block of a failed one.   *)
Removes == [clearIndex |-> "index", clearSummary |-> "summary",
            clearSkipped |-> "skipped", undoIndex |-> "index",
            undoSkipped |-> "skipped", undoSummary |-> "summary"]
AfterRemoval == [clearIndex |-> "clearSummary", clearSummary |-> "clearSkipped",
                 clearSkipped |-> "firstPage", undoIndex |-> "undoSkipped",
                 undoSkipped |-> "undoSummary", undoSummary |-> "releaseOwner"]

(* Places at which a call may throw, and where the exception leads. *)
Exporting == {"firstPage", "page", "index", "skipped", "summary"}
FailTo == [p \in {"recheck", "confirm", "bind", "completed", "project", "publish"}
                     \cup Exporting \cup DOMAIN Removes |->
             IF p \in Exporting THEN "undoIndex" ELSE "releaseOwner"]

Leased == {"owner", "captures", "releaseOwner", "releaseDir"}
            \cup DOMAIN FailTo
Places == {"off", "lock", "ended", "killed"} \cup Leased

Holding(b) == pc[b] \in Leased
Goto(b, place) == pc' = [pc EXCEPT ![b] = place]

Init ==
  /\ \E late \in SUBSET Late : ingested = Captures \ late
  /\ stored = ingested
  /\ lock = Free
  /\ staging = Nothing
  /\ output = None
  /\ pc = [b \in Builders |-> "off"]
  /\ export = [b \in Builders |-> NoExport]
  /\ fetched = [c \in Captures |-> 0]
  /\ listed = {}
-----------------------------------------------------------------------------
(* The gateway. *)

Ingest ==
  /\ \E c \in Captures \ ingested :
       ingested' = ingested \cup {c} /\ stored' = stored \cup {c}
  /\ UNCHANGED <<lock, dirVars, pc, export, fetched, listed>>

(* The raw object of a listed capture is gone: its URL answers 404. *)
Expire ==
  /\ \E c \in stored \cap Perishable : stored' = stored \ {c}
  /\ UNCHANGED <<ingested, lock, dirVars, pc, export, fetched, listed>>
-----------------------------------------------------------------------------
(* The lease. *)

(* An output that is there, a bad option or a repository that does not       *)
(* exclude the directory ends the command before it takes the lock.        *)
Start(b) ==
  /\ pc[b] = "off"
  /\ \/ output = None /\ Goto(b, "lock")
     \/ Goto(b, "ended")
  /\ UNCHANGED <<gatewayVars, lock, dirVars, export, fetched, listed>>

(* A variant that takes over a lock without an owner file. *)
AcquireIncomplete(b) ==
  /\ pc[b] = "lock"
  /\ IF lock.owner # None
     THEN Goto(b, "ended") /\ UNCHANGED lock
     ELSE Goto(b, "owner") /\ lock' = [dir |-> TRUE, owner |-> None]
  /\ UNCHANGED <<gatewayVars, dirVars, export, fetched, listed>>

(* mkdir succeeds for one builder; every other one reports the lock's state *)
(* (owned, stale or incomplete) and gives up.                              *)
Acquire(b) ==
  /\ pc[b] = "lock"
  /\ IF lock.dir
     THEN Goto(b, "ended") /\ UNCHANGED lock
     ELSE Goto(b, "owner") /\ lock' = [dir |-> TRUE, owner |-> None]
  /\ UNCHANGED <<gatewayVars, dirVars, export, fetched, listed>>

WriteOwner(b) ==
  /\ pc[b] = "owner"
  /\ \/ lock' = [lock EXCEPT !.owner = b] /\ Goto(b, "recheck")
     \/ lock' = Free /\ Goto(b, "ended")
  /\ UNCHANGED <<gatewayVars, dirVars, export, fetched, listed>>

(* A variant that trusts the check made before the lock was taken. *)
RecheckNothing(b) ==
  /\ pc[b] = "recheck"
  /\ Goto(b, "confirm")
  /\ UNCHANGED <<gatewayVars, lock, dirVars, export, fetched, listed>>

(* A variant that returns early without releasing the lock. *)
RecheckLeaving(b) ==
  /\ pc[b] = "recheck"
  /\ Goto(b, IF output = None THEN "confirm" ELSE "ended")
  /\ UNCHANGED <<gatewayVars, lock, dirVars, export, fetched, listed>>

(* Another builder may have published since Start. *)
Recheck(b) ==
  /\ pc[b] = "recheck"
  /\ Goto(b, IF output = None THEN "confirm" ELSE "releaseOwner")
  /\ UNCHANGED <<gatewayVars, lock, dirVars, export, fetched, listed>>

(* The context resolves and the user approves; otherwise Fail.  Neither has a  *)
(* deadline: the build may wait here for ever, with the lease in its hands.  *)
Confirm(b) ==
  /\ pc[b] = "confirm"
  /\ Goto(b, "bind")
  /\ UNCHANGED <<gatewayVars, lock, dirVars, export, fetched, listed>>

(* The owner file goes first, the directory after it, if the file still     *)
(* names this builder.                                                     *)
ReleaseOwner(b) ==
  /\ pc[b] = "releaseOwner"
  /\ IF lock.owner = b
     THEN lock' = [lock EXCEPT !.owner = None] /\ Goto(b, "releaseDir")
     ELSE Goto(b, "ended") /\ UNCHANGED lock
  /\ export' = [export EXCEPT ![b] = NoExport]
  /\ UNCHANGED <<gatewayVars, dirVars, fetched, listed>>

ReleaseDir(b) ==
  /\ pc[b] = "releaseDir"
  /\ lock' = Free
  /\ Goto(b, "ended")
  /\ UNCHANGED <<gatewayVars, dirVars, export, fetched, listed>>

(* The operator removes the lock directory that an error message named      *)
(* stale, or one without an owner file when no build is running.           *)
RemoveLock ==
  /\ lock.dir
  /\ IF lock.owner = None THEN \A b \in Builders : ~Holding(b)
                          ELSE pc[lock.owner] = "killed"
  /\ lock' = Free
  /\ UNCHANGED <<gatewayVars, dirVars, pc, export, fetched, listed>>
-----------------------------------------------------------------------------
(* The export. *)

(* The window of an earlier build is resumed; a build that selects another   *)
(* way, or another day by date, is refused.                                *)
Refuses(b) ==
  IF staging.window = None
  THEN staging.traces # {}
  ELSE \/ staging.mode # Mode(b)
       \/ Mode(b) = "date" /\ staging.window # Selects[b]

Bind(b) ==
  /\ pc[b] = "bind"
  /\ IF Refuses(b)
     THEN Goto(b, "releaseOwner") /\ UNCHANGED <<staging, listed>>
     ELSE /\ Goto(b, "completed")
          /\ IF staging.window = None
             THEN /\ staging' = [staging EXCEPT !.window = Selects[b], !.mode = Mode(b)]
                  /\ listed' = ingested \cap Selects[b]
             ELSE UNCHANGED <<staging, listed>>
  /\ UNCHANGED <<gatewayVars, lock, output, export, fetched>>

(* readCompletedExport: with an index and a summary the export is complete, *)
(* and everything it names is verified.                                    *)
LooksComplete(dir) == dir.index # None /\ dir.summary # None
Verified(dir) ==
  /\ dir.skipped # None
  /\ dir.index # {} /\ dir.index \subseteq dir.traces
  /\ dir.index \cap dir.skipped = {}
  /\ dir.index \cup dir.skipped \subseteq dir.window
  /\ dir.summary = [window |-> dir.window, rows |-> dir.index, skipped |-> dir.skipped]

ReadCompleted(b) ==
  /\ pc[b] = "completed"
  /\ Goto(b, IF ~LooksComplete(staging) THEN "clearIndex"
             ELSE IF Verified(staging) THEN "project" ELSE "releaseOwner")
  /\ UNCHANGED <<gatewayVars, lock, dirVars, export, fetched, listed>>

RemoveMarker(b) ==
  /\ pc[b] \in DOMAIN Removes
  /\ staging' = [staging EXCEPT ![Removes[pc[b]]] = None]
  /\ Goto(b, AfterRemoval[pc[b]])
  /\ UNCHANGED <<gatewayVars, lock, output, export, fetched, listed>>

FirstOf(S) == {c \in S : Cardinality({d \in S : d < c}) < PageSize}

TakePage(b, listing) ==
  /\ export' = [export EXCEPT ![b].page = FirstOf(listing),
                              ![b].todo = listing \ FirstOf(listing)]
  /\ Goto(b, "captures")
  /\ UNCHANGED <<gatewayVars, lock, dirVars, fetched, listed>>

(* The first page freezes the listing at its ingestion cutoff. *)
FirstPage(b) == pc[b] = "firstPage" /\ TakePage(b, ingested \cap staging.window)
NextPage(b) == pc[b] = "page" /\ TakePage(b, export[b].todo)

Pending(b) == pc[b] = "captures" /\ ~export[b].failed /\ export[b].page # {}

(* A free worker takes the next capture. *)
TakeCapture(b) ==
  /\ Pending(b)
  /\ Cardinality(export[b].flight) < Concurrency
  /\ \E c \in export[b].page :
       /\ \A d \in export[b].page : c <= d
       /\ export' = [export EXCEPT ![b].page = @ \ {c}, ![b].flight = @ \cup {c}]
  /\ UNCHANGED <<gatewayVars, lock, dirVars, pc, fetched, listed>>

InFlight(b, c) == pc[b] = "captures" /\ c \in export[b].flight

(* The file of an earlier attempt is verified and adopted. *)
Adopted(b, c) ==
  /\ InFlight(b, c) /\ c \in staging.traces
  /\ export' = [export EXCEPT ![b].flight = @ \ {c}, ![b].rows = @ \cup {c}]
  /\ UNCHANGED <<gatewayVars, lock, dirVars, pc, fetched, listed>>

(* The partial file is verified and renamed; the chmod after it may throw. *)
Rename(b, c) ==
  /\ staging' = [staging EXCEPT !.traces = @ \cup {c}]
  /\ fetched' = [fetched EXCEPT ![c] = @ + 1]
  /\ \/ export' = [export EXCEPT ![b].flight = @ \ {c}, ![b].rows = @ \cup {c}]
     \/ export' = [export EXCEPT ![b].flight = @ \ {c}, ![b].failed = TRUE]
  /\ UNCHANGED <<gatewayVars, lock, output, pc, listed>>

(* A variant that does not look for the file of an earlier attempt. *)
DownloadedAgain(b, c) == InFlight(b, c) /\ c \in stored /\ Rename(b, c)

Downloaded(b, c) ==
  InFlight(b, c) /\ c \in stored \ staging.traces /\ Rename(b, c)

NotFound(b, c) ==
  /\ InFlight(b, c) /\ c \notin stored \cup staging.traces
  /\ export' = [export EXCEPT ![b].flight = @ \ {c}, ![b].missing = @ \cup {c}]
  /\ UNCHANGED <<gatewayVars, lock, dirVars, pc, fetched, listed>>

(* All retries fail, or a file is not what it should be: no further capture *)
(* is taken, those in flight end.                                          *)
CaptureFails(b, c) ==
  /\ InFlight(b, c)
  /\ export' = [export EXCEPT ![b].flight = @ \ {c}, ![b].failed = TRUE]
  /\ UNCHANGED <<gatewayVars, lock, dirVars, pc, fetched, listed>>

(* A variant that takes the first page for the whole listing. *)
PageDoneAlways(b) ==
  /\ pc[b] = "captures" /\ export[b].flight = {}
  /\ export[b].failed \/ export[b].page = {}
  /\ Goto(b, IF export[b].failed \/ export[b].rows = {} THEN "undoIndex" ELSE "index")
  /\ UNCHANGED <<gatewayVars, lock, dirVars, export, fetched, listed>>

(* A variant that goes on as soon as a worker fails or none is left to start. *)
PageDoneUnawaited(b) ==
  /\ pc[b] = "captures"
  /\ export[b].failed \/ export[b].page = {}
  /\ Goto(b, IF export[b].failed THEN "undoIndex"
             ELSE IF export[b].todo # {} THEN "page"
             ELSE IF export[b].rows = {} THEN "undoIndex" ELSE "index")
  /\ UNCHANGED <<gatewayVars, lock, dirVars, export, fetched, listed>>

(* The page is over when every worker is; without a single row there is     *)
(* nothing to publish.                                                     *)
PageDone(b) ==
  /\ pc[b] = "captures" /\ export[b].flight = {}
  /\ export[b].failed \/ export[b].page = {}
  /\ Goto(b, IF export[b].failed THEN "undoIndex"
             ELSE IF export[b].todo # {} THEN "page"
             ELSE IF export[b].rows = {} THEN "undoIndex" ELSE "index")
  /\ UNCHANGED <<gatewayVars, lock, dirVars, export, fetched, listed>>

SummaryOf(b) == [window |-> staging.window, rows |-> export[b].rows,
                 skipped |-> export[b].missing]

(* A marker is renamed into place; the chmod after it may throw. *)
PutMarker(b, marker, value, place) ==
  /\ staging' = [staging EXCEPT ![marker] = value]
  /\ \E next \in {place, FailTo[pc[b]]} : Goto(b, next)
  /\ UNCHANGED <<gatewayVars, lock, output, export, fetched, listed>>

(* A variant that writes the summary before the skipped index. *)
RenameIndexEarly(b) ==
  /\ pc[b] = "index"
  /\ staging' = [staging EXCEPT !.index = export[b].rows, !.summary = SummaryOf(b)]
  /\ Goto(b, "skipped")
  /\ UNCHANGED <<gatewayVars, lock, output, export, fetched, listed>>

(* Both indexes are renamed into place, then the summary is replaced. *)
RenameIndex(b) ==
  pc[b] = "index" /\ PutMarker(b, "index", export[b].rows, "skipped")
RenameSkipped(b) ==
  pc[b] = "skipped" /\ PutMarker(b, "skipped", export[b].missing, "summary")
WriteSummary(b) ==
  pc[b] = "summary" /\ PutMarker(b, "summary", SummaryOf(b), "project")
-----------------------------------------------------------------------------
(* The project, its publication, and exceptions. *)

WriteProject(b) ==
  /\ pc[b] = "project"
  /\ PutMarker(b, "project", staging.summary, "publish")

(* renameSync: a directory that is there and not empty is not replaced. *)
Publish(b) ==
  /\ pc[b] = "publish"
  /\ IF output = None
     THEN output' = staging /\ staging' = Nothing
     ELSE UNCHANGED dirVars
  /\ Goto(b, "releaseOwner")
  /\ UNCHANGED <<gatewayVars, lock, export, fetched, listed>>

Fail(b) ==
  /\ pc[b] \in DOMAIN FailTo
  /\ Goto(b, FailTo[pc[b]])
  /\ UNCHANGED <<gatewayVars, lock, dirVars, export, fetched, listed>>

(* The process is gone, and its variables with it; its files are not. *)
Kill(b) ==
  /\ pc[b] \notin {"off", "ended", "killed"}
  /\ Goto(b, "killed")
  /\ export' = [export EXCEPT ![b] = NoExport]
  /\ UNCHANGED <<gatewayVars, lock, dirVars, fetched, listed>>

Step(b) ==
  \/ Acquire(b) \/ WriteOwner(b) \/ Recheck(b) \/ Confirm(b)
  \/ Bind(b) \/ ReadCompleted(b) \/ RemoveMarker(b)
  \/ FirstPage(b) \/ NextPage(b) \/ TakeCapture(b) \/ PageDone(b)
  \/ \E c \in Captures : Adopted(b, c) \/ Downloaded(b, c) \/ NotFound(b, c) \/ CaptureFails(b, c)
  \/ RenameIndex(b) \/ RenameSkipped(b) \/ WriteSummary(b)
  \/ WriteProject(b) \/ Publish(b) \/ Fail(b) \/ ReleaseOwner(b) \/ ReleaseDir(b)

Next ==
  \/ Ingest \/ Expire \/ RemoveLock
  \/ \E b \in Builders : Start(b) \/ Step(b) \/ Kill(b)

Spec == Init /\ [][Next]_vars

(* A living builder goes on, except where it waits for its context and for an *)
(* answer to its question: the requests of the context have no deadline, and *)
(* nobody owes it an answer.  Every later request has a deadline and a       *)
(* bounded number of retries.                                              *)
FairSpec == Spec /\ \A b \in Builders : WF_vars(pc[b] # "confirm" /\ Step(b))
-----------------------------------------------------------------------------
(* Properties. *)

(* Downloads are in flight only while their page is: nothing is written into *)
(* the traces after the export has gone on.                                *)
TypeOK ==
  /\ ingested \in Windows /\ stored \subseteq ingested
  /\ lock \in [dir : BOOLEAN, owner : Builders \cup {None}]
  /\ staging \in Dirs
  /\ output \in {None} \cup Dirs
  /\ pc \in [Builders -> Places]
  /\ export \in [Builders -> [todo : Windows, page : Windows, flight : Windows,
                              rows : Windows, missing : Windows, failed : BOOLEAN]]
  /\ \A b \in Builders : export[b].flight # {} => pc[b] = "captures"
  /\ fetched \in [Captures -> Nat]
  /\ listed \in Windows

(* Two builders never work on the staging directory of one output, also when *)
(* earlier ones were killed anywhere in the lease and their locks removed:  *)
(* the mkdir, owner file and two-step removal of acquireEvalBuildLease.    *)
OneBuilder == \A a, b \in Builders : Holding(a) /\ Holding(b) => a = b

(* A lock is accounted for: its owner file names a builder that is at work or *)
(* was killed, and without one of these there is no lock directory.  No way *)
(* out of the command, early, with an exception or between the two removals *)
(* of the release that acquireEvalBuildLease returns, leaves a lock behind  *)
(* that blocks the builds to come.                                         *)
LockAccounted ==
  /\ lock.owner # None => lock.dir /\ (Holding(lock.owner) \/ pc[lock.owner] = "killed")
  /\ lock.dir => \E b \in Builders : Holding(b) \/ pc[b] = "killed"

(* Both: the lock stands for the one builder at work, or for a dead one. *)
LeaseSound == OneBuilder /\ LockAccounted

(* What is published is a verified export with its manifest, and nobody      *)
(* starts a second export beside it: a builder that waited for the lock     *)
(* sees the output under the lease.                                        *)
PublishedWhole ==
  output # None =>
    /\ staging = Nothing
    /\ LooksComplete(output) /\ Verified(output)
    /\ output.project = output.summary

(* No interruption leaves markers that readCompletedExport takes for a       *)
(* complete export and then rejects, which would block every later build.  *)
NeverStuck == LooksComplete(staging) => Verified(staging)

(* A capture is downloaded to its end at most once, over all attempts that   *)
(* share a staging directory.                                              *)
DownloadedOnce == \A c \in Captures : fetched[c] <= 1

(* What is in the staging directory comes from the window it is bound to,   *)
(* whichever windows the builders that resumed it asked for.               *)
OneWindow ==
  /\ staging.traces # {} => staging.window # None
  /\ staging.window # None => staging.traces \subseteq staging.window

(* The strengthening of the last four properties: a builder that has not     *)
(* begun to export has no rows, and what the builder in the lease knows of  *)
(* the directories at each of its places.                                  *)
Collecting == {"captures", "page", "index", "skipped", "summary"}
BeforeExport == {"off", "lock", "owner", "recheck", "confirm", "bind", "completed",
                 "clearIndex", "clearSummary", "clearSkipped", "firstPage"}
AfterBinding == {"completed", "clearIndex", "clearSummary", "clearSkipped", "firstPage"}
                  \cup Collecting
WithoutIndex == {"clearSummary", "clearSkipped", "firstPage", "captures", "page",
                 "index", "undoSkipped", "undoSummary"}
WithoutSummary == {"clearSkipped", "firstPage"} \cup Collecting
OutsideDirs == {"owner", "recheck", "releaseOwner", "releaseDir"}

Apart(x) ==
  /\ x.rows \cap x.missing = {}
  /\ (x.rows \cup x.missing) \cap (x.flight \cup x.page \cup x.todo) = {}
  /\ x.flight \cap (x.page \cup x.todo) = {} /\ x.page \cap x.todo = {}
Expected(x) == x.rows \cup x.missing \cup x.flight \cup x.page \cup x.todo
Collected(x, dir) ==
  Apart(x) /\ x.rows \subseteq dir.traces /\ Expected(x) \subseteq dir.window

KnownAt(b) ==
  /\ pc[b] \in WithoutIndex => staging.index = None
  /\ pc[b] \in WithoutSummary => staging.summary = None
  /\ pc[b] \in Collecting => Collected(export[b], staging)
  /\ pc[b] \in {"index", "skipped", "summary"} => export[b].rows # {}
  /\ pc[b] \in {"skipped", "summary"} => staging.index = export[b].rows
  /\ pc[b] = "summary" => staging.skipped = export[b].missing
  /\ pc[b] \in {"project", "publish"} => LooksComplete(staging) /\ Verified(staging)
  /\ pc[b] = "publish" => staging.project = staging.summary
  /\ pc[b] \notin OutsideDirs => output = None

Fresh == \A b \in Builders : pc[b] \in BeforeExport => export[b] = NoExport
DirsKnown == \A b \in Builders : Holding(b) => KnownAt(b)
Kept == \A c \in Captures :
  \/ fetched[c] = 0
  \/ fetched[c] = 1 /\ (c \in staging.traces \/ output # None)
DirsInv == /\ Fresh /\ DirsKnown /\ Kept
           /\ PublishedWhole /\ NeverStuck /\ OneWindow

(* Only its question keeps a living builder: it gets to the question or ends, *)
(* it ends once it is past it, whatever fails on the way, and the lock that   *)
(* no killed builder has left is there no longer than somebody may wait.     *)
Waits(b) == pc[b] \in {"confirm", "killed"}
PastQuestion(b) == Holding(b) /\ pc[b] \notin {"owner", "recheck", "confirm"}
EndsUnlocked ==
  /\ \A b \in Builders : (pc[b] # "off") ~> (pc[b] = "ended" \/ Waits(b))
  /\ \A b \in Builders : PastQuestion(b) ~> pc[b] \in {"ended", "killed"}
  /\ lock.dir ~> (~lock.dir \/ \E b \in Builders : Waits(b))

(* The command delivers the directory as EvalDelivery promises. *)
Orders ==
  IF output # None THEN [window |-> output.window, listed |-> listed]
  ELSE IF staging.window # None THEN [window |-> staging.window, listed |-> listed]
  ELSE None
Delivered ==
  IF output = None THEN None
  ELSE [window |-> output.window, rows |-> output.index, skipped |-> output.skipped]
Delivery == INSTANCE EvalDelivery WITH order <- Orders, delivered <- Delivered
Implements == Delivery!Spec

(* Its strengthening: no capture of the listing is forgotten.               *)
AccountsFor(b) ==
  /\ pc[b] \in Collecting =>
       /\ Expected(export[b]) \subseteq ingested
       /\ listed \subseteq Expected(export[b]) \/ export[b].failed
  /\ pc[b] \in Collecting \ {"captures"} =>
       ~export[b].failed /\ export[b].flight \cup export[b].page = {}
  /\ pc[b] \in {"index", "skipped", "summary"} => export[b].todo = {}
Accounted ==
  /\ output = None /\ staging.window # None => listed \subseteq staging.window \cap ingested
  /\ LooksComplete(staging) =>
       /\ staging.index \cup staging.skipped \subseteq ingested
       /\ listed \subseteq staging.index \cup staging.skipped
  /\ \A b \in Builders : Holding(b) => AccountsFor(b)
=============================================================================
