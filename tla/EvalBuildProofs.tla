-------------------------- MODULE EvalBuildProofs --------------------------
(***************************************************************************)
(* Proofs about EvalBuild, for any number of builders, captures, windows   *)
(* and workers.                                                            *)
(***************************************************************************)
EXTENDS EvalBuild, TLAPS

LEMMA MarkerPlaces ==
  /\ DOMAIN Removes = {"clearIndex", "clearSummary", "clearSkipped",
                       "undoIndex", "undoSkipped", "undoSummary"}
  /\ \A p \in DOMAIN Removes : AfterRemoval[p] \in Leased
  /\ \A p \in DOMAIN Removes : Removes[p] \in {"index", "skipped", "summary"}
<1>1. DOMAIN Removes = {"clearIndex", "clearSummary", "clearSkipped",
                        "undoIndex", "undoSkipped", "undoSummary"}
  BY DEF Removes
<1>2. \A p \in DOMAIN Removes : AfterRemoval[p] \in Leased
  BY <1>1 DEF AfterRemoval, Leased, FailTo, Exporting
<1>3. \A p \in DOMAIN Removes : Removes[p] \in {"index", "skipped", "summary"}
  BY <1>1 DEF Removes
<1> QED BY <1>1, <1>2, <1>3

LEMMA FailPlaces ==
  /\ \A p \in DOMAIN FailTo : p \in Leased /\ FailTo[p] \in {"undoIndex", "releaseOwner"}
  /\ {"index", "skipped", "summary", "project"} \subseteq DOMAIN FailTo
BY MarkerPlaces DEF FailTo, Leased, Exporting

(* The places that the actions name, and those outside the lease. *)
LEMMA LeasedPlaces ==
  /\ {"owner", "recheck", "confirm", "bind", "completed", "clearIndex", "firstPage",
      "page", "captures", "index", "skipped", "summary", "project", "publish",
      "undoIndex", "releaseOwner", "releaseDir"} \subseteq Leased
  /\ DOMAIN Removes \subseteq Leased
  /\ {"off", "lock", "ended", "killed"} \cap Leased = {}
  /\ Leased \subseteq Places
BY MarkerPlaces DEF Leased, FailTo, Exporting, Places

-----------------------------------------------------------------------------
(* The lease: whoever is in it made the directory, and the owner file names *)
(* nobody else.                                                            *)
LeaseInv ==
  /\ pc \in [Builders -> Places]
  /\ lock \in [dir : BOOLEAN, owner : Builders \cup {None}]
  /\ \A b \in Builders : Holding(b) => lock.dir /\ lock.owner \in {b, None}
  /\ OneBuilder

LEMMA LeaseInit == Init => LeaseInv
BY LeasedPlaces DEF Init, LeaseInv, OneBuilder, Holding, Free, Places

(* A builder that goes on within the lease, or leaves it with its lock in    *)
(* place, or never had it.                                                 *)
LEMMA LeaseMoves ==
  ASSUME LeaseInv, NEW b \in Builders, NEW place \in Places, Goto(b, place),
         UNCHANGED lock, place \in Leased => Holding(b)
  PROVE  LeaseInv'
<1>1. pc' \in [Builders -> Places]
  BY DEF LeaseInv, Goto
<1>2. \A a \in Builders : Holding(a)' => Holding(a)
  BY DEF LeaseInv, Holding, Goto
<1> QED BY <1>1, <1>2 DEF LeaseInv, OneBuilder

LEMMA LeaseAcquire ==
  ASSUME LeaseInv, NEW b \in Builders, Acquire(b)
  PROVE  LeaseInv'
<1>1. CASE lock.dir
  BY <1>1, LeaseMoves, LeasedPlaces DEF Acquire, Places
<1>2. CASE ~lock.dir
  <2>1. \A a \in Builders : ~Holding(a)
    BY <1>2 DEF LeaseInv
  <2>2. lock' = [dir |-> TRUE, owner |-> None] /\ pc' = [pc EXCEPT ![b] = "owner"]
    BY <1>2 DEF Acquire, Goto
  <2>3. \A a \in Builders : Holding(a)' => a = b
    BY <2>1, <2>2 DEF LeaseInv, Holding
  <2> QED BY <2>2, <2>3, LeasedPlaces DEF LeaseInv, OneBuilder
<1> QED BY <1>1, <1>2

LEMMA LeaseWriteOwner ==
  ASSUME LeaseInv, NEW b \in Builders, WriteOwner(b)
  PROVE  LeaseInv'
<1>1. Holding(b)
  BY LeasedPlaces DEF WriteOwner, Holding
<1>2. \A a \in Builders : Holding(a) => a = b
  BY <1>1 DEF LeaseInv, OneBuilder
<1>3. CASE lock' = [lock EXCEPT !.owner = b] /\ Goto(b, "recheck")
  <2>1. \A a \in Builders : Holding(a)' => a = b
    BY <1>2, <1>3 DEF LeaseInv, Holding, Goto
  <2>2. lock.dir
    BY <1>1 DEF LeaseInv
  <2> QED BY <1>3, <2>1, <2>2, LeasedPlaces DEF LeaseInv, OneBuilder, Goto
<1>4. CASE lock' = Free /\ Goto(b, "ended")
  <2>1. \A a \in Builders : ~Holding(a)'
    BY <1>2, <1>4, LeasedPlaces DEF LeaseInv, Holding, Goto
  <2> QED BY <1>4, <2>1, LeasedPlaces DEF LeaseInv, OneBuilder, Goto, Free, Places
<1> QED BY <1>3, <1>4 DEF WriteOwner

LEMMA LeaseReleaseOwner ==
  ASSUME LeaseInv, NEW b \in Builders, ReleaseOwner(b)
  PROVE  LeaseInv'
<1>1. Holding(b)
  BY LeasedPlaces DEF ReleaseOwner, Holding
<1>2. CASE lock.owner = b
  <2>1. lock' = [lock EXCEPT !.owner = None] /\ pc' = [pc EXCEPT ![b] = "releaseDir"]
    BY <1>2 DEF ReleaseOwner, Goto
  <2>2. \A a \in Builders : Holding(a)' => Holding(a)
    BY <1>1, <2>1 DEF LeaseInv, Holding
  <2> QED BY <2>1, <2>2, LeasedPlaces DEF LeaseInv, OneBuilder
<1>3. CASE lock.owner # b
  BY <1>3, LeaseMoves, LeasedPlaces DEF ReleaseOwner, Places
<1> QED BY <1>2, <1>3

LEMMA LeaseReleaseDir ==
  ASSUME LeaseInv, NEW b \in Builders, ReleaseDir(b)
  PROVE  LeaseInv'
<1>1. Holding(b)
  BY LeasedPlaces DEF ReleaseDir, Holding
<1>2. lock' = Free /\ pc' = [pc EXCEPT ![b] = "ended"]
  BY DEF ReleaseDir, Goto
<1>3. \A a \in Builders : ~Holding(a)'
  BY <1>1, <1>2, LeasedPlaces DEF LeaseInv, OneBuilder, Holding
<1> QED BY <1>2, <1>3, LeasedPlaces DEF LeaseInv, OneBuilder, Free, Places

LEMMA LeaseRemoveLock ==
  ASSUME LeaseInv, RemoveLock
  PROVE  LeaseInv'
<1>1. \A a \in Builders : ~Holding(a)
  <2>1. CASE lock.owner = None
    BY <2>1 DEF RemoveLock
  <2>2. CASE lock.owner # None
    <3>1. lock.owner \in Builders /\ ~Holding(lock.owner)
      BY <2>2, LeasedPlaces DEF LeaseInv, RemoveLock, Holding
    <3> QED BY <2>2, <3>1 DEF LeaseInv
  <2> QED BY <2>1, <2>2
<1>2. lock' = Free /\ pc' = pc
  BY DEF RemoveLock
<1> QED BY <1>1, <1>2 DEF LeaseInv, OneBuilder, Holding, Free

LEMMA LeaseStep ==
  ASSUME LeaseInv, [Next]_vars
  PROVE  LeaseInv'
<1> USE LeasedPlaces DEF Places
<1>1. CASE UNCHANGED vars
  BY <1>1 DEF vars, LeaseInv, OneBuilder, Holding
<1>2. CASE Ingest \/ Expire
  BY <1>2 DEF Ingest, Expire, LeaseInv, OneBuilder, Holding
<1>3. CASE RemoveLock
  BY <1>3, LeaseRemoveLock
<1>4. ASSUME NEW b \in Builders, Start(b) \/ Step(b) \/ Kill(b)
      PROVE  LeaseInv'
  <2>1. CASE Start(b)
    BY <2>1, LeaseMoves DEF Start
  <2>2. CASE Acquire(b)
    BY <2>2, LeaseAcquire
  <2>3. CASE WriteOwner(b)
    BY <2>3, LeaseWriteOwner
  <2>4. CASE Recheck(b) \/ Confirm(b)
    BY <2>4, LeaseMoves DEF Recheck, Confirm, Holding
  <2>5. CASE Bind(b) \/ ReadCompleted(b)
    BY <2>5, LeaseMoves DEF Bind, ReadCompleted, Holding
  <2>6. CASE RemoveMarker(b)
    <3>1. /\ Holding(b) /\ AfterRemoval[pc[b]] \in Leased
          /\ Goto(b, AfterRemoval[pc[b]]) /\ UNCHANGED lock
      BY <2>6, MarkerPlaces DEF RemoveMarker, Holding
    <3> QED BY <3>1, LeaseMoves
  <2>7. CASE FirstPage(b) \/ NextPage(b) \/ PageDone(b)
    BY <2>7, LeaseMoves DEF FirstPage, NextPage, TakePage, PageDone, Holding
  <2>8. CASE TakeCapture(b)
    BY <2>8 DEF TakeCapture, LeaseInv, OneBuilder, Holding
  <2>9. CASE \E c \in Captures : Adopted(b, c) \/ Downloaded(b, c)
                                   \/ NotFound(b, c) \/ CaptureFails(b, c)
    BY <2>9 DEF Adopted, Downloaded, Rename, NotFound, CaptureFails,
                LeaseInv, OneBuilder, Holding
  <2>10. CASE RenameIndex(b) \/ RenameSkipped(b) \/ WriteSummary(b) \/ WriteProject(b)
    BY <2>10, LeaseMoves, FailPlaces
       DEF RenameIndex, RenameSkipped, WriteSummary, WriteProject, PutMarker, Holding
  <2>11. CASE Publish(b)
    BY <2>11, LeaseMoves DEF Publish, Holding
  <2>12. CASE Fail(b)
    BY <2>12, LeaseMoves, FailPlaces DEF Fail, Holding
  <2>13. CASE ReleaseOwner(b)
    BY <2>13, LeaseReleaseOwner
  <2>14. CASE ReleaseDir(b)
    BY <2>14, LeaseReleaseDir
  <2>15. CASE Kill(b)
    BY <2>15, LeaseMoves DEF Kill
  <2> QED BY <1>4, <2>1, <2>2, <2>3, <2>4, <2>5, <2>6, <2>7, <2>8, <2>9,
             <2>10, <2>11, <2>12, <2>13, <2>14, <2>15 DEF Step
<1> QED BY <1>1, <1>2, <1>3, <1>4 DEF Next

THEOREM LeaseInvariant == Spec => []LeaseInv
<1>1. LeaseInv /\ [Next]_vars => LeaseInv'
  BY LeaseStep
<1> QED BY LeaseInit, <1>1, PTL DEF Spec

(* At most one builder works on the staging directory of an output: the      *)
(* mutual exclusion of acquireEvalBuildLease with kills and lock removals. *)
THEOREM BuildersExclude == Spec => []OneBuilder
<1>1. LeaseInv => OneBuilder
  BY DEF LeaseInv
<1> QED BY LeaseInvariant, <1>1, PTL

-----------------------------------------------------------------------------
(* The lock that is left: between writing and removing its owner file a      *)
(* builder knows that the file names it.                                   *)
Named == Leased \ {"owner", "releaseDir"}
OwnerKnown == \A b \in Builders : pc[b] \in Named => lock.owner = b
LockInv == LeaseInv /\ LockAccounted /\ OwnerKnown

LEMMA NamedPlaces ==
  /\ {"recheck", "confirm", "bind", "completed", "clearIndex", "firstPage",
      "page", "captures", "index", "skipped", "summary", "project", "publish",
      "undoIndex", "releaseOwner"} \subseteq Named
  /\ DOMAIN Removes \subseteq Named
  /\ DOMAIN FailTo \subseteq Named
  /\ \A p \in DOMAIN Removes : AfterRemoval[p] \in Named
  /\ \A p \in DOMAIN FailTo : FailTo[p] \in Named
  /\ {"off", "lock", "ended", "killed", "owner", "releaseDir"} \cap Named = {}
  /\ Named \subseteq Leased
<1>1. \A p \in DOMAIN FailTo : p \notin {"owner", "releaseDir"}
  BY MarkerPlaces DEF FailTo, Exporting
<1>2. \A p \in DOMAIN Removes : AfterRemoval[p] \notin {"owner", "releaseDir"}
  BY MarkerPlaces DEF AfterRemoval
<1>3. DOMAIN Removes \cap {"owner", "releaseDir"} = {}
  BY MarkerPlaces
<1> QED BY <1>1, <1>2, <1>3, MarkerPlaces, FailPlaces, LeasedPlaces DEF Named

LEMMA LockInit == Init => LockInv
BY LeaseInit, NamedPlaces DEF Init, LockInv, LockAccounted, OwnerKnown, Free

(* A builder that goes on while the owner file names it. *)
LEMMA LockNamedMoves ==
  ASSUME LockInv, LeaseInv', NEW b \in Builders, NEW place \in Named,
         pc[b] \in Named, Goto(b, place), UNCHANGED lock
  PROVE  LockInv'
<1>1. pc' = [pc EXCEPT ![b] = place] /\ pc \in [Builders -> Places]
  BY DEF Goto, LockInv, LeaseInv
<1>2. \A a \in Builders : /\ Holding(a) => Holding(a)'
                          /\ pc[a] = "killed" => pc'[a] = "killed"
                          /\ pc'[a] \in Named => pc[a] \in Named
  BY <1>1, NamedPlaces DEF Holding
<1>3. lock.owner \in Builders \cup {None}
  BY DEF LockInv, LeaseInv
<1>4. LockAccounted'
  BY <1>2, <1>3 DEF LockInv, LockAccounted
<1> QED BY <1>2, <1>4 DEF LockInv, OwnerKnown

(* A builder outside the lease moves outside it, or one is killed. *)
LEMMA LockOutside ==
  ASSUME LockInv, LeaseInv', NEW b \in Builders, NEW place \in Places \ Leased,
         Goto(b, place), UNCHANGED lock, pc[b] # "killed",
         Holding(b) => place = "killed"
  PROVE  LockInv'
<1>1. pc' = [pc EXCEPT ![b] = place] /\ pc \in [Builders -> Places]
  BY DEF Goto, LockInv, LeaseInv
<1>2. \A a \in Builders : /\ Holding(a) => Holding(a)' \/ pc'[a] = "killed"
                          /\ pc[a] = "killed" => pc'[a] = "killed"
                          /\ pc'[a] \in Named => pc[a] \in Named
  BY <1>1, NamedPlaces DEF Holding
<1>3. lock.owner \in Builders \cup {None}
  BY DEF LockInv, LeaseInv
<1>4. LockAccounted'
  BY <1>2, <1>3 DEF LockInv, LockAccounted
<1> QED BY <1>2, <1>4 DEF LockInv, OwnerKnown

(* Once nobody is in the lease, a lock that is removed leaves nothing. *)
LEMMA LockFreed ==
  ASSUME LeaseInv', lock' = Free, \A a \in Builders : ~Holding(a)'
  PROVE  LockInv'
<1>1. \A a \in Builders : pc'[a] \notin Named
  BY NamedPlaces DEF Holding
<1> QED BY <1>1 DEF LockInv, LockAccounted, OwnerKnown, Free

LEMMA LockAcquire ==
  ASSUME LockInv, LeaseInv', NEW b \in Builders, Acquire(b)
  PROVE  LockInv'
<1>1. CASE lock.dir
  BY <1>1, LockOutside, LeasedPlaces DEF Acquire, Holding, Places
<1>2. CASE ~lock.dir
  <2>1. lock' = [dir |-> TRUE, owner |-> None] /\ pc' = [pc EXCEPT ![b] = "owner"]
    BY <1>2 DEF Acquire, Goto
  <2>2. pc \in [Builders -> Places] /\ \A a \in Builders : ~Holding(a)
    BY <1>2 DEF LockInv, LeaseInv
  <2>3. Holding(b)' /\ \A a \in Builders : pc'[a] \notin Named
    BY <2>1, <2>2, NamedPlaces, LeasedPlaces DEF Holding
  <2> QED BY <2>1, <2>3 DEF LockInv, LockAccounted, OwnerKnown
<1> QED BY <1>1, <1>2

LEMMA LockWriteOwner ==
  ASSUME LockInv, LeaseInv', NEW b \in Builders, WriteOwner(b)
  PROVE  LockInv'
<1>1. pc \in [Builders -> Places] /\ Holding(b) /\ \A a \in Builders : Holding(a) => a = b
  BY LeasedPlaces DEF WriteOwner, Holding, LockInv, LeaseInv, OneBuilder
<1>2. CASE lock' = [lock EXCEPT !.owner = b] /\ Goto(b, "recheck")
  <2>1. lock.dir /\ lock'.owner = b /\ lock'.dir
    BY <1>1, <1>2 DEF LockInv, LeaseInv
  <2>2. Holding(b)' /\ \A a \in Builders : pc'[a] \in Named => a = b
    BY <1>1, <1>2, NamedPlaces, LeasedPlaces DEF Holding, Goto
  <2> QED BY <2>1, <2>2 DEF LockInv, LockAccounted, OwnerKnown
<1>3. CASE lock' = Free /\ Goto(b, "ended")
  <2>1. \A a \in Builders : ~Holding(a)'
    BY <1>1, <1>3, LeasedPlaces DEF Holding, Goto
  <2> QED BY <1>3, <2>1, LockFreed
<1> QED BY <1>2, <1>3 DEF WriteOwner

LEMMA LockReleaseOwner ==
  ASSUME LockInv, LeaseInv', NEW b \in Builders, ReleaseOwner(b)
  PROVE  LockInv'
<1>1. pc \in [Builders -> Places] /\ Holding(b) /\ \A a \in Builders : Holding(a) => a = b
  BY LeasedPlaces DEF ReleaseOwner, Holding, LockInv, LeaseInv, OneBuilder
<1>2. lock.owner = b
  BY NamedPlaces DEF ReleaseOwner, LockInv, OwnerKnown
<1>3. lock' = [lock EXCEPT !.owner = None] /\ pc' = [pc EXCEPT ![b] = "releaseDir"]
  BY <1>2 DEF ReleaseOwner, Goto
<1>4. lock'.owner = None
  BY <1>3 DEF LockInv, LeaseInv
<1>5. Holding(b)' /\ \A a \in Builders : pc'[a] \notin Named
  BY <1>1, <1>3, NamedPlaces, LeasedPlaces DEF Holding
<1> QED BY <1>4, <1>5 DEF LockInv, LockAccounted, OwnerKnown

LEMMA LockReleaseDir ==
  ASSUME LockInv, LeaseInv', NEW b \in Builders, ReleaseDir(b)
  PROVE  LockInv'
<1>1. pc \in [Builders -> Places] /\ Holding(b) /\ \A a \in Builders : Holding(a) => a = b
  BY LeasedPlaces DEF ReleaseDir, Holding, LockInv, LeaseInv, OneBuilder
<1>2. lock' = Free /\ pc' = [pc EXCEPT ![b] = "ended"]
  BY DEF ReleaseDir, Goto
<1>3. \A a \in Builders : ~Holding(a)'
  BY <1>1, <1>2, LeasedPlaces DEF Holding
<1> QED BY <1>2, <1>3, LockFreed

LEMMA LockRemoveLock ==
  ASSUME LockInv, LeaseInv', RemoveLock
  PROVE  LockInv'
<1>1. \A a \in Builders : ~Holding(a)
  <2>1. CASE lock.owner = None
    BY <2>1 DEF RemoveLock
  <2>2. CASE lock.owner # None
    BY <2>2, LeasedPlaces DEF LockInv, LeaseInv, RemoveLock, Holding
  <2> QED BY <2>1, <2>2
<1>2. lock' = Free /\ pc' = pc
  BY DEF RemoveLock
<1> QED BY <1>1, <1>2, LockFreed DEF Holding

LEMMA LockUnchanged ==
  ASSUME LockInv, LeaseInv', UNCHANGED <<lock, pc>>
  PROVE  LockInv'
BY DEF LockInv, LockAccounted, OwnerKnown, Holding

LEMMA LockStep ==
  ASSUME LockInv, [Next]_vars
  PROVE  LockInv'
<1> USE NamedPlaces
<1>1. LeaseInv'
  BY LeaseStep DEF LockInv
<1>2. CASE UNCHANGED vars
  BY <1>1, <1>2, LockUnchanged DEF vars
<1>3. CASE Ingest \/ Expire
  BY <1>1, <1>3, LockUnchanged DEF Ingest, Expire
<1>4. CASE RemoveLock
  BY <1>1, <1>4, LockRemoveLock
<1>5. ASSUME NEW b \in Builders, Start(b) \/ Step(b) \/ Kill(b)
      PROVE  LockInv'
  <2>1. CASE Start(b)
    BY <1>1, <2>1, LockOutside, LeasedPlaces DEF Start, Holding, Places
  <2>2. CASE Acquire(b)
    BY <1>1, <2>2, LockAcquire
  <2>3. CASE WriteOwner(b)
    BY <1>1, <2>3, LockWriteOwner
  <2>4. CASE Recheck(b) \/ Confirm(b)
    BY <1>1, <2>4, LockNamedMoves DEF Recheck, Confirm
  <2>5. CASE Bind(b) \/ ReadCompleted(b)
    BY <1>1, <2>5, LockNamedMoves DEF Bind, ReadCompleted
  <2>6. CASE RemoveMarker(b)
    BY <1>1, <2>6, LockNamedMoves DEF RemoveMarker
  <2>7. CASE FirstPage(b) \/ NextPage(b) \/ PageDone(b)
    BY <1>1, <2>7, LockNamedMoves DEF FirstPage, NextPage, TakePage, PageDone
  <2>8. CASE TakeCapture(b)
    BY <1>1, <2>8, LockUnchanged DEF TakeCapture
  <2>9. CASE \E c \in Captures : Adopted(b, c) \/ Downloaded(b, c)
                                   \/ NotFound(b, c) \/ CaptureFails(b, c)
    BY <1>1, <2>9, LockUnchanged DEF Adopted, Downloaded, Rename, NotFound, CaptureFails
  <2>10. CASE RenameIndex(b) \/ RenameSkipped(b) \/ WriteSummary(b) \/ WriteProject(b)
    <3>1. /\ pc[b] \in Named /\ FailTo[pc[b]] \in Named /\ UNCHANGED lock
          /\ \E next \in Named : Goto(b, next)
      BY <2>10, FailPlaces DEF RenameIndex, RenameSkipped, WriteSummary, WriteProject, PutMarker
    <3> QED BY <1>1, <3>1, LockNamedMoves
  <2>11. CASE Publish(b)
    BY <1>1, <2>11, LockNamedMoves DEF Publish
  <2>12. CASE Fail(b)
    BY <1>1, <2>12, LockNamedMoves DEF Fail
  <2>13. CASE ReleaseOwner(b)
    BY <1>1, <2>13, LockReleaseOwner
  <2>14. CASE ReleaseDir(b)
    BY <1>1, <2>14, LockReleaseDir
  <2>15. CASE Kill(b)
    BY <1>1, <2>15, LockOutside, LeasedPlaces DEF Kill, Places
  <2> QED BY <1>5, <2>1, <2>2, <2>3, <2>4, <2>5, <2>6, <2>7, <2>8, <2>9,
             <2>10, <2>11, <2>12, <2>13, <2>14, <2>15 DEF Step
<1> QED BY <1>2, <1>3, <1>4, <1>5 DEF Next

(* The lock of an output stands for a builder that is at work or was killed: *)
(* every way out of `evals build` that is not a kill takes it away, and the *)
(* release in two removals never strands it.                               *)
THEOREM LocksAreAccounted == Spec => []LockAccounted
<1>1. LockInv /\ [Next]_vars => LockInv'
  BY LockStep
<1>2. LockInv => LockAccounted
  BY DEF LockInv
<1> QED BY LockInit, <1>1, <1>2, PTL DEF Spec

(* Both halves of the lease: it excludes, and it is not left behind. *)
THEOREM LeaseIsSound == Spec => []LeaseSound
<1>1. OneBuilder /\ LockAccounted => LeaseSound
  BY DEF LeaseSound
<1> QED BY BuildersExclude, LocksAreAccounted, <1>1, PTL

-----------------------------------------------------------------------------
(* Types. *)

LEMMA DirUpdates ==
  ASSUME NEW d \in Dirs
  PROVE  /\ \A w \in Windows, m \in {"rolling", "date"} :
              [d EXCEPT !.window = w, !.mode = m] \in Dirs
         /\ \A w \in Windows : [d EXCEPT !.traces = w] \in Dirs
         /\ \A mark \in Marks : /\ [d EXCEPT !.index = mark] \in Dirs
                                /\ [d EXCEPT !.skipped = mark] \in Dirs
         /\ \A manifest \in Manifests : /\ [d EXCEPT !.summary = manifest] \in Dirs
                                        /\ [d EXCEPT !.project = manifest] \in Dirs
BY DEF Dirs, Marks

LEMMA NoneMarks == None \in Marks /\ None \in Manifests /\ Windows \subseteq Marks
BY DEF Marks, Manifests

LEMMA NothingTyped == Nothing \in Dirs
BY DEF Nothing, Dirs, Marks, Manifests, Windows

ExportVars == [todo : Windows, page : Windows, flight : Windows, rows : Windows,
               missing : Windows, failed : BOOLEAN]

LEMMA NoExportTyped == NoExport \in ExportVars /\ NoExport.flight = {}
BY DEF NoExport, ExportVars, Windows

LEMMA TypeInit == Init => TypeOK
<1> SUFFICES ASSUME Init PROVE TypeOK
  OBVIOUS
<1>1. ingested \in Windows /\ stored \subseteq ingested
  BY DEF Init, Windows
<1>2. pc \in [Builders -> Places] /\ lock \in [dir : BOOLEAN, owner : Builders \cup {None}]
  BY LeaseInit DEF LeaseInv
<1>3. export \in [Builders -> ExportVars] /\ \A b \in Builders : export[b].flight = {}
  BY NoExportTyped DEF Init
<1>4. staging \in Dirs /\ output \in {None} \cup Dirs
  BY NothingTyped DEF Init
<1>5. fetched \in [Captures -> Nat] /\ listed \in Windows
  BY DEF Init, Windows
<1> QED BY <1>1, <1>2, <1>3, <1>4, <1>5 DEF TypeOK, ExportVars

(* A builder goes from one place to another, with no download left behind. *)
LEMMA TypeMoves ==
  ASSUME TypeOK, LeaseInv', NEW b \in Builders, NEW place, Goto(b, place),
         pc[b] = "captures" => export[b].flight = {},
         UNCHANGED <<gatewayVars, export>>, staging' \in Dirs, output' \in {None} \cup Dirs,
         fetched' \in [Captures -> Nat], listed' \in Windows
  PROVE  TypeOK'
<1>1. \A a \in Builders : export'[a].flight # {} => pc'[a] = "captures"
  BY DEF TypeOK, Goto
<1>2. lock' \in [dir : BOOLEAN, owner : Builders \cup {None}] /\ pc' \in [Builders -> Places]
  BY DEF LeaseInv
<1> QED BY <1>1, <1>2 DEF TypeOK, gatewayVars

(* A builder drops its variables. *)
LEMMA TypeDrops ==
  ASSUME TypeOK, LeaseInv', NEW b \in Builders, NEW place, Goto(b, place),
         export' = [export EXCEPT ![b] = NoExport],
         UNCHANGED <<gatewayVars, dirVars, fetched, listed>>
  PROVE  TypeOK'
<1>1. export' \in [Builders -> ExportVars]
  BY NoExportTyped DEF TypeOK, ExportVars
<1>2. \A a \in Builders : export'[a].flight # {} => pc'[a] = "captures"
  BY NoExportTyped DEF TypeOK, Goto
<1>3. lock' \in [dir : BOOLEAN, owner : Builders \cup {None}] /\ pc' \in [Builders -> Places]
  BY DEF LeaseInv
<1> QED BY <1>1, <1>2, <1>3 DEF TypeOK, ExportVars, gatewayVars, dirVars

(* A builder at its captures changes its variables. *)
LEMMA TypeCollects ==
  ASSUME TypeOK, LeaseInv', NEW b \in Builders, NEW x \in ExportVars,
         pc[b] = "captures", pc' = pc, export' = [export EXCEPT ![b] = x],
         UNCHANGED <<gatewayVars, output, listed>>, staging' \in Dirs,
         fetched' \in [Captures -> Nat]
  PROVE  TypeOK'
<1>1. export' \in [Builders -> ExportVars]
  BY DEF TypeOK, ExportVars
<1>2. \A a \in Builders : export'[a].flight # {} => pc'[a] = "captures"
  BY DEF TypeOK
<1>3. lock' \in [dir : BOOLEAN, owner : Builders \cup {None}] /\ pc' \in [Builders -> Places]
  BY DEF LeaseInv
<1> QED BY <1>1, <1>2, <1>3 DEF TypeOK, ExportVars, gatewayVars

(* Removing a marker, at each of the six places. *)
LEMMA MarkerRemoved ==
  ASSUME NEW d \in Dirs, NEW p \in DOMAIN Removes
  PROVE  \/ /\ p \in {"clearIndex", "undoIndex"}
            /\ [d EXCEPT ![Removes[p]] = None] = [d EXCEPT !.index = None]
         \/ /\ p \in {"clearSkipped", "undoSkipped"}
            /\ [d EXCEPT ![Removes[p]] = None] = [d EXCEPT !.skipped = None]
         \/ /\ p \in {"clearSummary", "undoSummary"}
            /\ [d EXCEPT ![Removes[p]] = None] = [d EXCEPT !.summary = None]
<1>1. CASE p \in {"clearIndex", "undoIndex"}
  <2>1. Removes[p] = "index"
    BY <1>1 DEF Removes
  <2> QED BY <1>1, <2>1
<1>2. CASE p \in {"clearSkipped", "undoSkipped"}
  <2>1. Removes[p] = "skipped"
    BY <1>2 DEF Removes
  <2> QED BY <1>2, <2>1
<1>3. CASE p \in {"clearSummary", "undoSummary"}
  <2>1. Removes[p] = "summary"
    BY <1>3 DEF Removes
  <2> QED BY <1>3, <2>1
<1> QED BY <1>1, <1>2, <1>3, MarkerPlaces

LEMMA FirstOfPage ==
  ASSUME NEW listing \in Windows
  PROVE  FirstOf(listing) \in Windows /\ listing \ FirstOf(listing) \in Windows
BY DEF FirstOf, Windows

(* A builder that has bound its window finds it bound. *)
Bound == \A b \in Builders : pc[b] \in AfterBinding => staging.window # None

LEMMA BindingPlaces ==
  /\ AfterBinding \subseteq Leased
  /\ AfterBinding \cap {"off", "lock", "ended", "killed", "owner", "recheck", "confirm",
                        "bind", "releaseOwner", "releaseDir", "undoIndex", "project"} = {}
BY LeasedPlaces, MarkerPlaces DEF AfterBinding, Collecting

LEMMA BoundStep ==
  ASSUME TypeOK, Bound, LeaseInv, [Next]_vars
  PROVE  Bound'
<1>1. CASE UNCHANGED vars
  BY <1>1 DEF vars, dirVars, Bound
<1>2. CASE Ingest \/ Expire \/ RemoveLock
  BY <1>2 DEF Ingest, Expire, RemoveLock, dirVars, Bound
<1>3. ASSUME NEW b \in Builders, Start(b) \/ Step(b) \/ Kill(b)
      PROVE  Bound'
  <2> USE DEF TypeOK
  <2>1. CASE Start(b) \/ Acquire(b) \/ WriteOwner(b) \/ Recheck(b) \/ Confirm(b)
             \/ ReleaseOwner(b) \/ ReleaseDir(b) \/ Kill(b)
    BY <2>1, BindingPlaces DEF Start, Acquire, WriteOwner, Recheck, Confirm, ReleaseOwner,
                              ReleaseDir, Kill, Goto, dirVars, Bound
  <2>2. CASE Fail(b)
    <3>1. pc' = [pc EXCEPT ![b] = FailTo[pc[b]]] /\ FailTo[pc[b]] \notin AfterBinding
      BY <2>2, FailPlaces, BindingPlaces DEF Fail, Goto
    <3> QED BY <2>2, <3>1 DEF Fail, dirVars, Bound
  <2>3. CASE Bind(b)
    <3>1. Selects[b] # None
      BY EvalBuildAssumption
    <3>2. staging'.window # None \/ (pc' = [pc EXCEPT ![b] = "releaseOwner"] /\ staging' = staging)
      BY <2>3, <3>1 DEF Bind, Goto, Dirs
    <3> QED BY <3>2, BindingPlaces DEF Bound
  <2>4. CASE ReadCompleted(b)
    <3>1. pc[b] \in AfterBinding
      BY <2>4 DEF ReadCompleted, AfterBinding
    <3> QED BY <2>4, <3>1 DEF ReadCompleted, Goto, Bound, dirVars
  <2>5. CASE RemoveMarker(b)
    <3>1. staging'.window = staging.window
      <4>1. staging' \in {[staging EXCEPT !.index = None], [staging EXCEPT !.skipped = None],
                          [staging EXCEPT !.summary = None]}
        BY <2>5, MarkerRemoved DEF RemoveMarker
      <4> QED BY <4>1 DEF Dirs
    <3>2. pc' = [pc EXCEPT ![b] = AfterRemoval[pc[b]]]
      BY <2>5 DEF RemoveMarker, Goto
    <3>3. AfterRemoval[pc[b]] \in AfterBinding => pc[b] \in AfterBinding
      BY <2>5, MarkerPlaces, BindingPlaces
         DEF RemoveMarker, AfterRemoval, AfterBinding, Collecting
    <3> QED BY <3>1, <3>2, <3>3 DEF Bound
  <2>6. CASE FirstPage(b) \/ NextPage(b) \/ PageDone(b)
    <3>1. pc[b] \in AfterBinding
      BY <2>6 DEF FirstPage, NextPage, PageDone, AfterBinding, Collecting
    <3> QED BY <2>6, <3>1 DEF FirstPage, NextPage, PageDone, TakePage, Goto, Bound, dirVars
  <2>7. CASE TakeCapture(b)
    BY <2>7 DEF TakeCapture, Bound, dirVars
  <2>8. ASSUME NEW c \in Captures,
               Adopted(b, c) \/ Downloaded(b, c) \/ NotFound(b, c) \/ CaptureFails(b, c)
        PROVE  Bound'
    <3>1. staging'.window = staging.window /\ pc' = pc
      BY <2>8 DEF Adopted, Downloaded, Rename, NotFound, CaptureFails, dirVars, Dirs
    <3> QED BY <3>1 DEF Bound
  <2>9. CASE RenameIndex(b) \/ RenameSkipped(b) \/ WriteSummary(b)
    <3>1. pc[b] \in AfterBinding
      BY <2>9 DEF RenameIndex, RenameSkipped, WriteSummary, AfterBinding, Collecting
    <3>2. staging'.window = staging.window
      BY <2>9 DEF RenameIndex, RenameSkipped, WriteSummary, PutMarker, Dirs
    <3> QED BY <2>9, <3>1, <3>2
            DEF RenameIndex, RenameSkipped, WriteSummary, PutMarker, Goto, Bound
  <2>10. CASE WriteProject(b)
    <3>1. staging'.window = staging.window
      BY <2>10 DEF WriteProject, PutMarker, Dirs
    <3>2. \E place \in {"publish", "releaseOwner"} : pc' = [pc EXCEPT ![b] = place]
      BY <2>10, MarkerPlaces DEF WriteProject, PutMarker, Goto, FailTo, Exporting
    <3>3. {"publish", "releaseOwner"} \cap AfterBinding = {}
      BY DEF AfterBinding, Collecting
    <3> QED BY <3>1, <3>2, <3>3 DEF Bound
  <2>11. CASE Publish(b)
    <3>1. \A a \in Builders : Holding(a) => a = b
      BY <2>11, LeasedPlaces DEF Publish, Holding, LeaseInv, OneBuilder
    <3>2. pc' = [pc EXCEPT ![b] = "releaseOwner"]
      BY <2>11 DEF Publish, Goto
    <3> QED BY <3>1, <3>2, BindingPlaces DEF Holding, Bound
  <2> QED BY <1>3, <2>1, <2>2, <2>3, <2>4, <2>5, <2>6, <2>7, <2>8, <2>9, <2>10, <2>11 DEF Step
<1> QED BY <1>1, <1>2, <1>3 DEF Next

LEMMA TypeStep ==
  ASSUME TypeOK, Bound, LeaseInv, [Next]_vars
  PROVE  TypeOK'
<1> USE LeaseStep
<1>1. CASE UNCHANGED vars
  BY <1>1 DEF vars, gatewayVars, dirVars, TypeOK
<1>2. CASE Ingest \/ Expire
  BY <1>2 DEF Ingest, Expire, TypeOK, dirVars, Windows
<1>3. CASE RemoveLock
  BY <1>3 DEF RemoveLock, TypeOK, gatewayVars, dirVars, LeaseInv
<1>4. ASSUME NEW b \in Builders, Start(b) \/ Step(b) \/ Kill(b)
      PROVE  TypeOK'
  <2> DEFINE x == export[b]
  <2>1. /\ x \in ExportVars /\ staging \in Dirs /\ output \in {None} \cup Dirs
        /\ fetched \in [Captures -> Nat] /\ listed \in Windows
        /\ ingested \in Windows /\ b \in Builders
    BY <1>4 DEF TypeOK, ExportVars
  <2>2. CASE Start(b) \/ Acquire(b) \/ WriteOwner(b) \/ Recheck(b) \/ Confirm(b) \/ Fail(b)
             \/ ReadCompleted(b) \/ ReleaseDir(b)
    <3>1. /\ UNCHANGED <<gatewayVars, export, dirVars, fetched, listed>>
          /\ \E place : Goto(b, place)
          /\ pc[b] # "captures"
      BY <2>2 DEF Start, Acquire, WriteOwner, Recheck, Confirm, Fail, FailTo, Exporting,
                  Removes, ReadCompleted, ReleaseDir
    <3> QED BY <2>1, <3>1, TypeMoves DEF dirVars
  <2>3. CASE PageDone(b)
    BY <2>1, <2>3, TypeMoves DEF PageDone, dirVars
  <2>4. CASE Bind(b)
    <3>1. Selects[b] \in Windows /\ Mode(b) \in {"rolling", "date"}
      BY <2>1, EvalBuildAssumption DEF Mode
    <3>2. ingested \cap Selects[b] \in Windows
      BY <2>1 DEF Windows
    <3>3. staging' \in Dirs /\ listed' \in Windows
      <4>1. \/ /\ staging' = [staging EXCEPT !.window = Selects[b], !.mode = Mode(b)]
               /\ listed' = ingested \cap Selects[b]
            \/ UNCHANGED <<staging, listed>>
        BY <2>4 DEF Bind
      <4>2. [staging EXCEPT !.window = Selects[b], !.mode = Mode(b)] \in Dirs
        BY <2>1, <3>1 DEF Dirs, Marks
      <4> QED BY <2>1, <3>2, <4>1, <4>2
    <3> QED BY <2>1, <2>4, <3>3, TypeMoves DEF Bind
  <2>5. CASE RemoveMarker(b)
    <3>1. staging' \in Dirs
      BY <2>1, <2>5, NoneMarks, MarkerRemoved, DirUpdates DEF RemoveMarker
    <3>2. pc[b] # "captures"
      BY <2>5, MarkerPlaces DEF RemoveMarker
    <3> QED BY <2>1, <2>5, <3>1, <3>2, TypeMoves DEF RemoveMarker
  <2>6. CASE FirstPage(b) \/ NextPage(b)
    <3>1. PICK listing \in Windows : TakePage(b, listing)
      BY <2>1, <2>6 DEF FirstPage, NextPage, ExportVars, Windows
    <3>2. /\ FirstOf(listing) \in Windows /\ listing \ FirstOf(listing) \in Windows
      BY FirstOfPage
    <3>3. export' \in [Builders -> ExportVars]
      BY <3>1, <3>2 DEF TakePage, TypeOK, ExportVars
    <3>4. \A a \in Builders : export'[a].flight # {} => pc'[a] = "captures"
      BY <3>1 DEF TakePage, TypeOK, Goto
    <3> QED BY <3>1, <3>3, <3>4 DEF TakePage, TypeOK, ExportVars, gatewayVars, dirVars, LeaseInv
  <2>7. CASE TakeCapture(b)
    <3>1. PICK c \in x.page : export' = [export EXCEPT ![b] =
                                 [x EXCEPT !.page = x.page \ {c}, !.flight = x.flight \cup {c}]]
      BY <2>7 DEF TakeCapture
    <3>2. [x EXCEPT !.page = x.page \ {c}, !.flight = x.flight \cup {c}] \in ExportVars
      BY <2>1 DEF ExportVars, Windows
    <3> QED BY <2>1, <2>7, <3>1, <3>2, TypeCollects DEF TakeCapture, Pending, dirVars
  <2>8. ASSUME NEW c \in Captures,
               Adopted(b, c) \/ Downloaded(b, c) \/ NotFound(b, c) \/ CaptureFails(b, c)
        PROVE  TypeOK'
    <3>1. PICK y \in {[x EXCEPT !.flight = x.flight \ {c}, !.rows = x.rows \cup {c}],
                      [x EXCEPT !.flight = x.flight \ {c}, !.missing = x.missing \cup {c}],
                      [x EXCEPT !.flight = x.flight \ {c}, !.failed = TRUE]} :
            export' = [export EXCEPT ![b] = y]
      BY <2>8 DEF Adopted, Downloaded, Rename, NotFound, CaptureFails
    <3>2. y \in ExportVars
      <4>1. /\ x.flight \ {c} \in Windows /\ x.rows \cup {c} \in Windows
            /\ x.missing \cup {c} \in Windows
        BY <2>1 DEF ExportVars, Windows
      <4> QED BY <2>1, <3>1, <4>1 DEF ExportVars
    <3>3. staging.traces \cup {c} \in Windows
      BY <2>1 DEF Dirs, Windows
    <3>4. staging' \in Dirs
      BY <2>1, <2>8, <3>3, DirUpdates
         DEF Adopted, Downloaded, Rename, NotFound, CaptureFails, dirVars
    <3>5. fetched' \in [Captures -> Nat]
      BY <2>1, <2>8 DEF Adopted, Downloaded, Rename, NotFound, CaptureFails
    <3>6. pc[b] = "captures" /\ pc' = pc /\ UNCHANGED <<gatewayVars, output, listed>>
      BY <2>8 DEF Adopted, Downloaded, Rename, NotFound, CaptureFails, InFlight, dirVars
    <3> QED BY <2>1, <3>1, <3>2, <3>4, <3>5, <3>6, TypeCollects
  <2>9. CASE RenameIndex(b) \/ RenameSkipped(b) \/ WriteSummary(b) \/ WriteProject(b)
    <3>1. x.rows \in Marks /\ x.missing \in Marks /\ staging.summary \in Manifests
      BY <2>1 DEF ExportVars, Marks, Dirs
    <3>2. CASE WriteSummary(b)
      <4>1. staging.window \in Windows
        BY <2>1, <3>2 DEF WriteSummary, Bound, AfterBinding, Collecting, Dirs, Marks
      <4>2. SummaryOf(b) \in Manifests
        BY <2>1, <4>1 DEF SummaryOf, Manifests, Summaries, ExportVars
      <4> QED BY <2>1, <3>2, <4>2, DirUpdates, TypeMoves DEF WriteSummary, PutMarker
    <3>3. CASE RenameIndex(b) \/ RenameSkipped(b) \/ WriteProject(b)
      BY <2>1, <3>1, <3>3, DirUpdates, TypeMoves
         DEF RenameIndex, RenameSkipped, WriteProject, PutMarker
    <3> QED BY <2>9, <3>2, <3>3
  <2>10. CASE Publish(b)
    BY <2>1, <2>10, NothingTyped, TypeMoves DEF Publish, dirVars
  <2>11. CASE ReleaseOwner(b)
    <3>1. \E place : Goto(b, place)
      BY <2>11 DEF ReleaseOwner
    <3> QED BY <2>1, <2>11, <3>1, TypeDrops DEF ReleaseOwner
  <2>12. CASE Kill(b)
    BY <2>1, <2>12, TypeDrops DEF Kill
  <2> QED BY <1>4, <2>2, <2>3, <2>4, <2>5, <2>6, <2>7, <2>8, <2>9, <2>10, <2>11, <2>12
          DEF Step
<1> QED BY <1>1, <1>2, <1>3, <1>4 DEF Next

TypeInv == LeaseInv /\ TypeOK /\ Bound

LEMMA TypeInvariant == Spec => []TypeInv
<1>1. Init => TypeInv
  BY LeaseInit, TypeInit, BindingPlaces DEF Init, Bound, TypeInv
<1>2. TypeInv /\ [Next]_vars => TypeInv'
  BY LeaseStep, TypeStep, BoundStep DEF TypeInv
<1> QED BY <1>1, <1>2, PTL DEF Spec

(* The type invariant, and with it that no download outlives its page. *)
THEOREM TypeCorrect == Spec => []TypeOK
<1>1. TypeInv => TypeOK
  BY DEF TypeInv
<1> QED BY TypeInvariant, <1>1, PTL
-----------------------------------------------------------------------------
(* What the builder in the lease knows of the directories. *)

(* A step of one builder leaves the others where they are. *)
LEMMA OthersStay ==
  ASSUME TypeOK, NEW b \in Builders, Start(b) \/ Step(b) \/ Kill(b),
         NEW a \in Builders, a # b
  PROVE  pc'[a] = pc[a] /\ export'[a] = export[a]
<1> USE DEF TypeOK, Goto
<1>1. CASE Start(b) \/ Kill(b) \/ Acquire(b) \/ WriteOwner(b) \/ Recheck(b) \/ Confirm(b)
           \/ Fail(b) \/ ReleaseOwner(b) \/ ReleaseDir(b)
  BY <1>1 DEF Start, Kill, Acquire, WriteOwner, Recheck, Confirm, Fail, ReleaseOwner, ReleaseDir
<1>2. CASE Bind(b) \/ ReadCompleted(b) \/ RemoveMarker(b) \/ PageDone(b) \/ Publish(b)
  BY <1>2 DEF Bind, ReadCompleted, RemoveMarker, PageDone, Publish
<1>3. CASE FirstPage(b) \/ NextPage(b) \/ TakeCapture(b)
  BY <1>3 DEF FirstPage, NextPage, TakePage, TakeCapture
<1>4. ASSUME NEW c \in Captures,
             Adopted(b, c) \/ Downloaded(b, c) \/ NotFound(b, c) \/ CaptureFails(b, c)
      PROVE  pc'[a] = pc[a] /\ export'[a] = export[a]
  BY <1>4 DEF Adopted, Downloaded, Rename, NotFound, CaptureFails
<1>5. CASE RenameIndex(b) \/ RenameSkipped(b) \/ WriteSummary(b) \/ WriteProject(b)
  BY <1>5 DEF RenameIndex, RenameSkipped, WriteSummary, WriteProject, PutMarker
<1> QED BY <1>1, <1>2, <1>3, <1>4, <1>5 DEF Step

(* Nobody else knows anything of the directories while b is in the lease;    *)
(* and what the others know stands while the directories do.               *)
LEMMA KnownStep ==
  ASSUME TypeInv, TypeInv', DirsKnown, Fresh, NEW b \in Builders,
         Start(b) \/ Step(b) \/ Kill(b),
         Holding(b) \/ UNCHANGED dirVars,
         Holding(b)' => KnownAt(b)',
         pc'[b] \in BeforeExport => export'[b] = NoExport
  PROVE  DirsKnown' /\ Fresh'
<1>1. \A a \in Builders : a # b => pc'[a] = pc[a] /\ export'[a] = export[a]
  BY OthersStay DEF TypeInv
<1>2. Fresh'
  BY <1>1 DEF Fresh
<1>3. ASSUME NEW a \in Builders, a # b, Holding(a)'
      PROVE  KnownAt(a)'
  <2>1. Holding(a)
    BY <1>1, <1>3 DEF Holding
  <2>2. UNCHANGED dirVars
    BY <1>3, <2>1 DEF TypeInv, LeaseInv, OneBuilder
  <2>3. KnownAt(a)
    BY <2>1 DEF DirsKnown
  <2> QED BY <1>1, <1>3, <2>2, <2>3
          DEF KnownAt, dirVars, Collected, Apart, Expected, LooksComplete, Verified
<1>4. DirsKnown'
  BY <1>3 DEF DirsKnown
<1> QED BY <1>2, <1>4

(* A step that changes neither directory. *)
LEMMA SameDirs ==
  ASSUME TypeInv, TypeInv', DirsInv, NEW b \in Builders,
         Start(b) \/ Step(b) \/ Kill(b),
         UNCHANGED <<dirVars, fetched>>,
         Holding(b)' => KnownAt(b)',
         pc'[b] \in BeforeExport => export'[b] = NoExport
  PROVE  DirsInv'
<1>1. DirsKnown' /\ Fresh'
  BY KnownStep DEF DirsInv
<1>2. Kept' /\ PublishedWhole' /\ NeverStuck' /\ OneWindow'
  BY DEF DirsInv, dirVars, Kept, PublishedWhole, NeverStuck, OneWindow, LooksComplete, Verified
<1> QED BY <1>1, <1>2 DEF DirsInv

(* A step of the builder in the lease that changes the staging directory. *)
LEMMA OwnStaging ==
  ASSUME TypeInv, TypeInv', DirsInv, NEW b \in Builders, Step(b), Holding(b),
         pc[b] \notin OutsideDirs, UNCHANGED <<output, fetched, export>>,
         staging.traces = staging'.traces,
         staging.window # None => staging'.window = staging.window,
         KnownAt(b)', OneWindow', NeverStuck', pc'[b] \notin BeforeExport \/ export[b] = NoExport
  PROVE  DirsInv'
<1>1. output = None
  BY DEF DirsInv, DirsKnown, KnownAt
<1>2. DirsKnown' /\ Fresh'
  BY KnownStep DEF DirsInv
<1>3. Kept' /\ PublishedWhole'
  BY <1>1 DEF DirsInv, Kept, PublishedWhole
<1> QED BY <1>2, <1>3 DEF DirsInv

(* Places outside the directories, at which there is nothing to know. *)
LEMMA NothingToKnow ==
  OutsideDirs \cap (WithoutIndex \cup WithoutSummary \cup Collecting
                      \cup {"index", "skipped", "summary", "project", "publish"}) = {}
BY DEF OutsideDirs, WithoutIndex, WithoutSummary, Collecting

(* The steps outside the directories, up to the binding and after the end. *)
LEMMA DirsQuiet ==
  ASSUME TypeInv, TypeInv', DirsInv, NEW b \in Builders,
         \/ Start(b) \/ Acquire(b) \/ WriteOwner(b) \/ Recheck(b) \/ Confirm(b)
         \/ ReleaseOwner(b) \/ ReleaseDir(b) \/ Kill(b)
  PROVE  DirsInv'
<1>1. Start(b) \/ Step(b) \/ Kill(b)
  BY DEF Step
<1>2. UNCHANGED <<dirVars, fetched>>
  BY DEF Start, Acquire, WriteOwner, Recheck, Confirm, ReleaseOwner, ReleaseDir, Kill
<1>3. pc \in [Builders -> Places] /\ export \in [Builders -> ExportVars]
  BY DEF TypeInv, TypeOK, ExportVars
<1>4. CASE Start(b) \/ Acquire(b) \/ WriteOwner(b) \/ ReleaseOwner(b) \/ ReleaseDir(b) \/ Kill(b)
  <2>1. pc'[b] \in {"lock", "ended", "killed"} \cup OutsideDirs
    BY <1>3, <1>4 DEF Start, Acquire, WriteOwner, ReleaseOwner, ReleaseDir, Kill, Goto, OutsideDirs
  <2>2. pc'[b] \in BeforeExport => export'[b] = NoExport
    BY <1>3, <1>4 DEF Start, Acquire, WriteOwner, ReleaseOwner, ReleaseDir, Kill, Goto,
                      BeforeExport, DirsInv, Fresh
  <2>3. Holding(b)' => KnownAt(b)'
    BY <2>1, NothingToKnow, LeasedPlaces DEF Holding, KnownAt
  <2> QED BY <1>1, <1>2, <2>2, <2>3, SameDirs
<1>5. CASE Recheck(b)
  <2>1. /\ pc[b] = "recheck" /\ export' = export
        /\ \/ pc'[b] = "releaseOwner"
           \/ pc'[b] = "confirm" /\ output = None
    BY <1>3, <1>5 DEF Recheck, Goto
  <2>2. export[b] = NoExport
    BY <2>1 DEF DirsInv, Fresh, BeforeExport
  <2>3. KnownAt(b)'
    BY <1>2, <2>1
       DEF KnownAt, dirVars, WithoutIndex, WithoutSummary, Collecting, OutsideDirs
  <2> QED BY <1>1, <1>2, <2>1, <2>2, <2>3, SameDirs
<1>6. CASE Confirm(b)
  <2>1. pc[b] = "confirm" /\ export' = export /\ pc'[b] = "bind"
    BY <1>3, <1>6 DEF Confirm, Goto
  <2>2. export[b] = NoExport /\ output = None
    BY <2>1, LeasedPlaces
       DEF DirsInv, Fresh, BeforeExport, DirsKnown, KnownAt, Holding, OutsideDirs
  <2>3. KnownAt(b)'
    BY <1>2, <2>1, <2>2
       DEF KnownAt, dirVars, WithoutIndex, WithoutSummary, Collecting, OutsideDirs
  <2> QED BY <1>1, <1>2, <2>1, <2>2, <2>3, SameDirs
<1> QED BY <1>4, <1>5, <1>6

(* An exception leads out of the directories, or to the removal of what the  *)
(* export has written.                                                     *)
LEMMA DirsFail ==
  ASSUME TypeInv, TypeInv', DirsInv, NEW b \in Builders, Fail(b)
  PROVE  DirsInv'
<1>1. Step(b) /\ UNCHANGED <<dirVars, fetched, export>> /\ Holding(b)
  BY FailPlaces DEF Step, Fail, Holding
<1>2. pc[b] \in DOMAIN FailTo /\ pc'[b] = FailTo[pc[b]]
  BY DEF Fail, Goto, TypeInv, TypeOK
<1>3. \/ pc'[b] = "releaseOwner"
      \/ pc'[b] = "undoIndex" /\ pc[b] \in Exporting
  BY <1>2, MarkerPlaces DEF FailTo
<1>4. pc[b] \in Exporting => output = None
  BY <1>1 DEF Exporting, OutsideDirs, DirsInv, DirsKnown, KnownAt
<1>5. KnownAt(b)'
  BY <1>1, <1>3, <1>4
     DEF KnownAt, dirVars, WithoutIndex, WithoutSummary, Collecting, OutsideDirs
<1>6. pc'[b] \notin BeforeExport
  BY <1>3 DEF BeforeExport
<1> QED BY <1>1, <1>5, <1>6, SameDirs

(* Binding: an unbound directory holds no capture and no complete export. *)
LEMMA DirsBind ==
  ASSUME TypeInv, TypeInv', DirsInv, NEW b \in Builders, Bind(b)
  PROVE  DirsInv'
<1>1. Step(b) /\ Holding(b) /\ pc[b] = "bind"
  BY LeasedPlaces DEF Step, Bind, Holding
<1>2. output = None /\ export[b] = NoExport
  BY <1>1 DEF OutsideDirs, BeforeExport, DirsInv, DirsKnown, KnownAt, Fresh
<1>3. staging \in Dirs /\ pc \in [Builders -> Places]
  BY DEF TypeInv, TypeOK
<1>4. CASE pc'[b] \in {"releaseOwner", "completed"} /\ UNCHANGED <<dirVars, fetched, export>>
  <2>1. KnownAt(b)'
    BY <1>2, <1>4
       DEF KnownAt, dirVars, WithoutIndex, WithoutSummary, Collecting, OutsideDirs
  <2> QED BY <1>1, <1>2, <1>4, <2>1, SameDirs
<1>5. CASE /\ pc'[b] = "completed" /\ UNCHANGED <<output, fetched, export>>
           /\ staging.window = None /\ staging.traces = {}
           /\ staging' = [staging EXCEPT !.window = Selects[b], !.mode = Mode(b)]
  <2>1. /\ staging'.index = staging.index /\ staging'.summary = staging.summary
        /\ staging'.traces = {}
    BY <1>3, <1>5 DEF Dirs
  <2>2. ~LooksComplete(staging)
    <3>1. SUFFICES ASSUME LooksComplete(staging) PROVE FALSE
      OBVIOUS
    <3>2. staging.summary.window = None
      BY <1>5, <3>1 DEF DirsInv, NeverStuck, Verified
    <3>3. staging.summary.window \in Windows
      BY <1>3, <3>1 DEF LooksComplete, Dirs, Manifests, Summaries
    <3> QED BY <3>2, <3>3, EvalBuildAssumption
  <2>3. NeverStuck'
    BY <2>1, <2>2 DEF NeverStuck, LooksComplete
  <2>4. OneWindow'
    <3>1. staging'.traces = {}
      BY <2>1
    <3> QED BY <3>1 DEF OneWindow
  <2>5. KnownAt(b)'
    BY <1>2, <1>5
       DEF KnownAt, WithoutIndex, WithoutSummary, Collecting, OutsideDirs
  <2>6. pc[b] \notin OutsideDirs /\ staging.traces = staging'.traces
    BY <1>1, <1>5, <2>1 DEF OutsideDirs
  <2> QED BY <1>1, <1>2, <1>5, <2>3, <2>4, <2>5, <2>6, OwnStaging
<1> QED BY <1>3, <1>4, <1>5 DEF Bind, Goto, Refuses, dirVars

LEMMA DirsRead ==
  ASSUME TypeInv, TypeInv', DirsInv, NEW b \in Builders, ReadCompleted(b)
  PROVE  DirsInv'
<1>1. Step(b) /\ Holding(b) /\ pc[b] = "completed" /\ UNCHANGED <<dirVars, fetched, export>>
  BY LeasedPlaces, MarkerPlaces DEF Step, ReadCompleted, Holding, Leased, FailTo
<1>2. output = None /\ export[b] = NoExport
  BY <1>1 DEF OutsideDirs, BeforeExport, DirsInv, DirsKnown, KnownAt, Fresh
<1>3. \/ pc'[b] \in {"clearIndex", "releaseOwner"}
      \/ pc'[b] = "project" /\ LooksComplete(staging) /\ Verified(staging)
  BY DEF ReadCompleted, Goto, TypeInv, TypeOK
<1>4. KnownAt(b)'
  BY <1>1, <1>2, <1>3
     DEF KnownAt, dirVars, WithoutIndex, WithoutSummary, Collecting, OutsideDirs,
         LooksComplete, Verified
<1> QED BY <1>1, <1>2, <1>4, SameDirs

(* Removing a marker: what stays of the directory, and where it leads. *)
LEMMA DirsMarker ==
  ASSUME TypeInv, TypeInv', DirsInv, NEW b \in Builders, RemoveMarker(b)
  PROVE  DirsInv'
<1>1. Step(b) /\ Holding(b) /\ pc[b] \in DOMAIN Removes
  BY LeasedPlaces DEF Step, RemoveMarker, Holding
<1>2. staging \in Dirs /\ UNCHANGED <<output, fetched, export>>
  BY DEF TypeInv, TypeOK, RemoveMarker
<1>3. pc[b] \notin OutsideDirs /\ output = None
  BY <1>1, MarkerPlaces DEF OutsideDirs, DirsInv, DirsKnown, KnownAt
<1>4. pc'[b] = AfterRemoval[pc[b]] /\ staging' = [staging EXCEPT ![Removes[pc[b]]] = None]
  BY DEF RemoveMarker, Goto, TypeInv, TypeOK
<1>5. /\ pc[b] = "clearIndex" => pc'[b] = "clearSummary"
      /\ pc[b] = "clearSummary" => pc'[b] = "clearSkipped"
      /\ pc[b] = "clearSkipped" => pc'[b] = "firstPage"
      /\ pc[b] = "undoIndex" => pc'[b] = "undoSkipped"
      /\ pc[b] = "undoSkipped" => pc'[b] = "undoSummary"
      /\ pc[b] = "undoSummary" => pc'[b] = "releaseOwner"
  BY <1>4 DEF AfterRemoval
<1>6. /\ staging'.traces = staging.traces /\ staging'.window = staging.window
      /\ \/ /\ pc[b] \in {"clearIndex", "undoIndex"} /\ staging'.index = None
            /\ staging'.summary = staging.summary
         \/ /\ pc[b] \in {"clearSummary", "undoSummary"} /\ staging'.summary = None
            /\ staging'.index = staging.index
         \/ /\ pc[b] \in {"clearSkipped", "undoSkipped"}
            /\ staging'.index = staging.index /\ staging'.summary = staging.summary
  <2>1. \/ /\ pc[b] \in {"clearIndex", "undoIndex"}
           /\ staging' = [staging EXCEPT !.index = None]
        \/ /\ pc[b] \in {"clearSkipped", "undoSkipped"}
           /\ staging' = [staging EXCEPT !.skipped = None]
        \/ /\ pc[b] \in {"clearSummary", "undoSummary"}
           /\ staging' = [staging EXCEPT !.summary = None]
    BY <1>1, <1>2, <1>4, MarkerRemoved
  <2> QED BY <1>2, <2>1 DEF Dirs
<1>7. /\ pc[b] \in WithoutIndex => staging.index = None
      /\ pc[b] \in WithoutSummary => staging.summary = None
  BY <1>1 DEF DirsInv, DirsKnown, KnownAt
<1>8. ~LooksComplete(staging')
  BY <1>1, <1>6, <1>7, MarkerPlaces DEF LooksComplete, WithoutIndex, WithoutSummary
<1>9. NeverStuck' /\ OneWindow'
  BY <1>6, <1>8 DEF NeverStuck, LooksComplete, DirsInv, OneWindow
<1>10. KnownAt(b)'
  <2>1. output' = None
    BY <1>2, <1>3
  <2>2. pc'[b] \in {"clearSummary", "clearSkipped", "firstPage",
                   "undoSkipped", "undoSummary", "releaseOwner"}
    BY <1>1, <1>5, MarkerPlaces
  <2>3. pc'[b] \in WithoutIndex => staging'.index = None
    BY <1>1, <1>5, <1>6, <1>7, MarkerPlaces DEF WithoutIndex
  <2>4. pc'[b] \in WithoutSummary => staging'.summary = None
    BY <1>1, <1>5, <1>6, <1>7, MarkerPlaces DEF WithoutSummary, Collecting
  <2> QED BY <2>1, <2>2, <2>3, <2>4 DEF KnownAt, Collecting
<1>11. pc'[b] \notin BeforeExport \/ export[b] = NoExport
  BY <1>1, <1>5, MarkerPlaces DEF BeforeExport, DirsInv, Fresh
<1> QED BY <1>1, <1>2, <1>3, <1>6, <1>9, <1>10, <1>11, OwnStaging

(* A page is taken from a listing that holds no capture that was dealt with. *)
LEMMA DirsPage ==
  ASSUME TypeInv, TypeInv', DirsInv, NEW b \in Builders, FirstPage(b) \/ NextPage(b)
  PROVE  DirsInv'
<1>1. Step(b) /\ Holding(b) /\ UNCHANGED <<dirVars, fetched>>
  BY LeasedPlaces DEF Step, FirstPage, NextPage, TakePage, Holding
<1>2. KnownAt(b)
  BY <1>1 DEF DirsInv, DirsKnown
<1>3. export \in [Builders -> ExportVars] /\ pc \in [Builders -> Places]
  BY DEF TypeInv, TypeOK, ExportVars
<1>4. PICK listing \in Windows :
        /\ TakePage(b, listing)
        /\ listing \subseteq staging.window
        /\ export[b].rows \cap listing = {} /\ export[b].missing \cap listing = {}
        /\ export[b].flight = {}
        /\ export[b].rows \cap export[b].missing = {}
        /\ export[b].rows \cup export[b].missing \subseteq staging.window
        /\ export[b].rows \subseteq staging.traces
        /\ staging.index = None /\ staging.summary = None /\ output = None
  <2>1. CASE FirstPage(b)
    <3>1. export[b] = NoExport
      BY <2>1 DEF FirstPage, BeforeExport, DirsInv, Fresh
    <3>2. ingested \cap staging.window \in Windows
      BY DEF TypeInv, TypeOK, Windows
    <3> QED BY <1>2, <2>1, <3>1, <3>2
            DEF FirstPage, NoExport, KnownAt, WithoutIndex, WithoutSummary, OutsideDirs
  <2>2. CASE NextPage(b)
    <3>1. export[b].flight = {} /\ export[b].todo \in Windows
      BY <2>2, <1>3 DEF NextPage, TypeInv, TypeOK, ExportVars
    <3> QED BY <1>2, <2>2, <3>1
            DEF NextPage, KnownAt, Collecting, Collected, Apart, Expected, WithoutIndex,
                WithoutSummary, OutsideDirs
  <2> QED BY <2>1, <2>2
<1>5. /\ export'[b].page = FirstOf(listing) /\ export'[b].todo = listing \ FirstOf(listing)
      /\ export'[b].rows = export[b].rows /\ export'[b].missing = export[b].missing
      /\ export'[b].flight = export[b].flight
      /\ pc'[b] = "captures"
  BY <1>3, <1>4 DEF TakePage, ExportVars, Goto
<1>6. FirstOf(listing) \subseteq listing
  BY DEF FirstOf
<1>7. Collected(export'[b], staging)
  BY <1>4, <1>5, <1>6 DEF Collected, Apart, Expected
<1>8. KnownAt(b)'
  BY <1>1, <1>4, <1>5, <1>7 DEF KnownAt, dirVars, Collected, Apart, Expected
<1>9. pc'[b] \notin BeforeExport
  BY <1>5 DEF BeforeExport
<1> QED BY <1>1, <1>8, <1>9, SameDirs

LEMMA DirsPageDone ==
  ASSUME TypeInv, TypeInv', DirsInv, NEW b \in Builders, PageDone(b)
  PROVE  DirsInv'
<1>1. /\ Step(b) /\ Holding(b) /\ UNCHANGED <<dirVars, fetched, export>>
      /\ pc[b] = "captures"
  BY LeasedPlaces DEF Step, PageDone, Holding
<1>2. KnownAt(b)
  BY <1>1 DEF DirsInv, DirsKnown
<1>3. \/ pc'[b] \in {"undoIndex", "page"}
      \/ pc'[b] = "index" /\ export[b].rows # {}
  BY DEF PageDone, Goto, TypeInv, TypeOK
<1>4. KnownAt(b)'
  BY <1>1, <1>2, <1>3
     DEF KnownAt, dirVars, WithoutIndex, WithoutSummary, Collecting, OutsideDirs, Collected,
         Apart
<1>5. pc'[b] \notin BeforeExport
  BY <1>3 DEF BeforeExport
<1> QED BY <1>1, <1>4, <1>5, SameDirs

(* A capture is taken, and ends as a row, as missing or with a failure. *)
LEMMA DirsCollect ==
  ASSUME TypeInv, TypeInv', DirsInv, NEW b \in Builders,
         \/ TakeCapture(b)
         \/ \E c \in Captures :
              Adopted(b, c) \/ Downloaded(b, c) \/ NotFound(b, c) \/ CaptureFails(b, c)
  PROVE  DirsInv'
<1>1. Step(b) /\ Holding(b) /\ pc[b] = "captures" /\ pc' = pc /\ output' = output
  BY LeasedPlaces
     DEF Step, TakeCapture, Pending, Adopted, Downloaded, Rename, NotFound, CaptureFails,
         InFlight, Holding, dirVars
<1>2. KnownAt(b)
  BY <1>1 DEF DirsInv, DirsKnown
<1>3. /\ export \in [Builders -> ExportVars] /\ staging \in Dirs
      /\ fetched \in [Captures -> Nat]
  BY DEF TypeInv, TypeOK, ExportVars
<1>4. /\ staging.index = None /\ staging.summary = None /\ output = None
      /\ Collected(export[b], staging)
  BY <1>1, <1>2 DEF KnownAt, WithoutIndex, WithoutSummary, Collecting, OutsideDirs
<1>5. /\ staging'.window = staging.window /\ staging'.index = staging.index
      /\ staging'.summary = staging.summary
      /\ \/ staging'.traces = staging.traces /\ fetched' = fetched
         \/ \E c \in export[b].flight :
              /\ c \notin staging.traces /\ staging'.traces = staging.traces \cup {c}
              /\ fetched' = [fetched EXCEPT ![c] = @ + 1]
  BY <1>3 DEF TakeCapture, Adopted, Downloaded, Rename, NotFound, CaptureFails, InFlight,
              dirVars, Dirs
<1>6. Collected(export'[b], staging')
  <2>1. CASE TakeCapture(b)
    <3>1. PICK c \in export[b].page :
            /\ export'[b].page = export[b].page \ {c}
            /\ export'[b].flight = export[b].flight \cup {c}
            /\ export'[b].todo = export[b].todo /\ export'[b].rows = export[b].rows
            /\ export'[b].missing = export[b].missing
      BY <1>3, <2>1 DEF TakeCapture, ExportVars
    <3> QED BY <1>4, <1>5, <3>1 DEF Collected, Apart, Expected
  <2>2. ASSUME NEW c \in Captures,
               Adopted(b, c) \/ Downloaded(b, c) \/ NotFound(b, c) \/ CaptureFails(b, c)
        PROVE  Collected(export'[b], staging')
    <3>1. /\ c \in export[b].flight /\ export'[b].flight = export[b].flight \ {c}
          /\ export'[b].page = export[b].page /\ export'[b].todo = export[b].todo
          /\ \/ /\ export'[b].rows = export[b].rows \cup {c}
                /\ export'[b].missing = export[b].missing /\ c \in staging'.traces
             \/ /\ export'[b].rows = export[b].rows
                /\ export'[b].missing = export[b].missing \cup {c}
             \/ /\ export'[b].rows = export[b].rows /\ export'[b].missing = export[b].missing
      BY <1>3, <2>2
         DEF Adopted, Downloaded, Rename, NotFound, CaptureFails, InFlight, ExportVars,
             dirVars, Dirs
    <3> QED BY <1>4, <1>5, <3>1 DEF Collected, Apart, Expected
  <2> QED BY <2>1, <2>2
<1>7. KnownAt(b)'
  BY <1>1, <1>4, <1>5, <1>6 DEF KnownAt, Collected, Apart, Expected
<1>8. DirsKnown' /\ Fresh'
  BY <1>1, <1>7, KnownStep DEF DirsInv, BeforeExport
<1>9. NeverStuck' /\ PublishedWhole'
  BY <1>1, <1>4, <1>5 DEF NeverStuck, LooksComplete, PublishedWhole
<1>10. OneWindow'
  <2>1. staging.window # None
    BY <1>1 DEF TypeInv, Bound, AfterBinding, Collecting
  <2>2. export[b].flight \subseteq staging.window
    BY <1>4 DEF Collected, Expected
  <2> QED BY <1>5, <2>1, <2>2 DEF DirsInv, OneWindow
<1>11. Kept'
  BY <1>1, <1>3, <1>4, <1>5 DEF DirsInv, Kept
<1> QED BY <1>8, <1>9, <1>10, <1>11 DEF DirsInv

(* The two indexes and the summary are written in this order, over none. *)
LEMMA DirsPut ==
  ASSUME TypeInv, TypeInv', DirsInv, NEW b \in Builders,
         RenameIndex(b) \/ RenameSkipped(b) \/ WriteSummary(b) \/ WriteProject(b)
  PROVE  DirsInv'
<1>1. /\ Step(b) /\ pc[b] \in {"index", "skipped", "summary", "project"}
      /\ UNCHANGED <<output, fetched, export>> /\ Holding(b) /\ pc[b] \notin OutsideDirs
  BY LeasedPlaces
     DEF Step, RenameIndex, RenameSkipped, WriteSummary, WriteProject, PutMarker, Holding,
         OutsideDirs
<1>2. KnownAt(b) /\ output = None
  BY <1>1 DEF DirsInv, DirsKnown, KnownAt
<1>3. staging \in Dirs /\ pc \in [Builders -> Places] /\ export[b] \in ExportVars
  BY DEF TypeInv, TypeOK, ExportVars
<1>4. /\ FailTo["index"] = "undoIndex" /\ FailTo["skipped"] = "undoIndex"
      /\ FailTo["summary"] = "undoIndex" /\ FailTo["project"] = "releaseOwner"
  BY FailPlaces, MarkerPlaces DEF FailTo, Exporting
<1>5. pc'[b] \notin BeforeExport
  BY <1>1, <1>3, <1>4
     DEF RenameIndex, RenameSkipped, WriteSummary, WriteProject, PutMarker, Goto, BeforeExport
<1> SUFFICES /\ staging'.traces = staging.traces /\ staging'.window = staging.window
             /\ NeverStuck' /\ KnownAt(b)'
  <2>1. staging'.traces = staging.traces /\ staging'.window = staging.window => OneWindow'
    BY DEF DirsInv, OneWindow
  <2> QED BY <1>1, <1>5, <2>1, OwnStaging
<1>6. CASE RenameIndex(b)
  <2>1. /\ pc[b] = "index" /\ pc'[b] \in {"skipped", "undoIndex"}
        /\ staging' = [staging EXCEPT !.index = export[b].rows]
    BY <1>3, <1>4, <1>6 DEF RenameIndex, PutMarker, Goto
  <2>2. /\ staging'.traces = staging.traces /\ staging'.window = staging.window
        /\ staging'.index = export[b].rows /\ staging'.summary = None
        /\ Collected(export[b], staging) /\ export[b].rows # {}
    BY <1>2, <1>3, <2>1 DEF Dirs, KnownAt, WithoutSummary, Collecting
  <2>3. KnownAt(b)'
    BY <1>1, <1>2, <2>1, <2>2 DEF KnownAt, WithoutIndex, WithoutSummary, Collecting, Collected, Apart, Expected
  <2> QED BY <2>2, <2>3 DEF NeverStuck, LooksComplete
<1>7. CASE RenameSkipped(b)
  <2>1. /\ pc[b] = "skipped" /\ pc'[b] \in {"summary", "undoIndex"}
        /\ staging' = [staging EXCEPT !.skipped = export[b].missing]
    BY <1>3, <1>4, <1>7 DEF RenameSkipped, PutMarker, Goto
  <2>2. /\ staging'.traces = staging.traces /\ staging'.window = staging.window
        /\ staging'.index = export[b].rows /\ staging'.summary = None
        /\ staging'.skipped = export[b].missing
        /\ Collected(export[b], staging) /\ export[b].rows # {}
    BY <1>2, <1>3, <2>1 DEF Dirs, KnownAt, WithoutSummary, Collecting
  <2>3. KnownAt(b)'
    BY <1>1, <1>2, <2>1, <2>2 DEF KnownAt, WithoutIndex, WithoutSummary, Collecting, Collected, Apart, Expected
  <2> QED BY <2>2, <2>3 DEF NeverStuck, LooksComplete
<1>8. CASE WriteSummary(b)
  <2>1. /\ pc[b] = "summary" /\ pc'[b] \in {"project", "undoIndex"}
        /\ staging' = [staging EXCEPT !.summary = SummaryOf(b)]
    BY <1>3, <1>4, <1>8 DEF WriteSummary, PutMarker, Goto
  <2>2. /\ staging'.traces = staging.traces /\ staging'.window = staging.window
        /\ staging'.index = export[b].rows /\ staging'.skipped = export[b].missing
        /\ staging'.summary = [window |-> staging.window, rows |-> export[b].rows,
                               skipped |-> export[b].missing]
        /\ Collected(export[b], staging) /\ export[b].rows # {}
    BY <1>2, <1>3, <2>1 DEF Dirs, KnownAt, Collecting, SummaryOf
  <2>3. export[b].rows # None /\ export[b].missing # None
    BY <1>3, EvalBuildAssumption DEF ExportVars
  <2>4. Verified(staging')
    BY <2>2, <2>3 DEF Verified, Collected, Apart, Expected
  <2>5. LooksComplete(staging')
    <3>1. staging.window \in Windows
      BY <1>3, <2>1 DEF TypeInv, Bound, AfterBinding, Collecting, Dirs, Marks
    <3>2. staging'.summary \in Summaries
      BY <1>3, <2>2, <3>1 DEF Summaries, ExportVars
    <3> QED BY <2>2, <2>3, <3>2, EvalBuildAssumption DEF LooksComplete
  <2>6. KnownAt(b)'
    BY <1>1, <1>2, <2>1, <2>4, <2>5
       DEF KnownAt, WithoutIndex, WithoutSummary, Collecting, LooksComplete, Verified
  <2> QED BY <2>2, <2>4, <2>6 DEF NeverStuck, LooksComplete, Verified
<1>9. CASE WriteProject(b)
  <2>1. /\ pc[b] = "project" /\ pc'[b] \in {"publish", "releaseOwner"}
        /\ staging' = [staging EXCEPT !.project = staging.summary]
    BY <1>3, <1>4, <1>9 DEF WriteProject, PutMarker, Goto
  <2>2. /\ staging'.traces = staging.traces /\ staging'.window = staging.window
        /\ staging'.index = staging.index /\ staging'.skipped = staging.skipped
        /\ staging'.summary = staging.summary /\ staging'.project = staging'.summary
        /\ LooksComplete(staging) /\ Verified(staging)
    BY <1>2, <1>3, <2>1 DEF Dirs, KnownAt
  <2>3. LooksComplete(staging') /\ Verified(staging')
    BY <2>2 DEF LooksComplete, Verified
  <2>4. KnownAt(b)'
    BY <1>1, <1>2, <2>1, <2>2, <2>3
       DEF KnownAt, WithoutIndex, WithoutSummary, Collecting, LooksComplete, Verified
  <2> QED BY <2>2, <2>3, <2>4 DEF NeverStuck, LooksComplete, Verified
<1> QED BY <1>6, <1>7, <1>8, <1>9

(* Only a verified export is renamed to the output. *)
LEMMA DirsPublish ==
  ASSUME TypeInv, TypeInv', DirsInv, NEW b \in Builders, Publish(b)
  PROVE  DirsInv'
<1>1. /\ Step(b) /\ Holding(b) /\ pc[b] = "publish" /\ pc'[b] = "releaseOwner"
      /\ UNCHANGED fetched
  BY LeasedPlaces DEF Step, Publish, Holding, Goto, TypeInv, TypeOK
<1>2. /\ LooksComplete(staging) /\ Verified(staging) /\ staging.project = staging.summary
      /\ output = None
  BY <1>1 DEF DirsInv, DirsKnown, KnownAt, OutsideDirs
<1>3. output' = staging /\ staging' = Nothing
  BY <1>2 DEF Publish
<1>4. output' # None
  BY <1>3, EvalBuildAssumption DEF TypeInv, TypeOK
<1>5. KnownAt(b)'
  BY <1>1 DEF KnownAt, WithoutIndex, WithoutSummary, Collecting, OutsideDirs
<1>6. DirsKnown' /\ Fresh'
  BY <1>1, <1>5, KnownStep DEF DirsInv, BeforeExport
<1>7. PublishedWhole'
  BY <1>2, <1>3 DEF PublishedWhole, LooksComplete, Verified
<1>8. NeverStuck' /\ OneWindow'
  BY <1>3 DEF Nothing, NeverStuck, LooksComplete, OneWindow
<1>9. Kept'
  BY <1>1, <1>4 DEF DirsInv, Kept
<1> QED BY <1>6, <1>7, <1>8, <1>9 DEF DirsInv

LEMMA DirsStep ==
  ASSUME TypeInv, TypeInv', DirsInv, [Next]_vars
  PROVE  DirsInv'
<1>1. CASE UNCHANGED <<lock, dirVars, pc, export, fetched, listed>> \/ RemoveLock
  <2>1. UNCHANGED <<dirVars, pc, export, fetched>>
    BY <1>1 DEF RemoveLock
  <2>2. Fresh' /\ DirsKnown' /\ Kept'
    BY <2>1 DEF DirsInv, Fresh, DirsKnown, Kept, Holding, KnownAt, Collected, Apart, Expected,
                LooksComplete, Verified, dirVars
  <2>3. PublishedWhole' /\ NeverStuck' /\ OneWindow'
    BY <2>1 DEF DirsInv, PublishedWhole, NeverStuck, OneWindow, LooksComplete, Verified, dirVars
  <2> QED BY <2>2, <2>3 DEF DirsInv
<1>2. CASE UNCHANGED vars \/ Ingest \/ Expire
  BY <1>1, <1>2 DEF vars, Ingest, Expire
<1>3. ASSUME NEW b \in Builders, Start(b) \/ Step(b) \/ Kill(b)
      PROVE  DirsInv'
  BY <1>3, DirsQuiet, DirsFail, DirsBind, DirsRead, DirsMarker, DirsPage, DirsPageDone,
     DirsCollect, DirsPut, DirsPublish DEF Step
<1> QED BY <1>1, <1>2, <1>3 DEF Next

LEMMA DirsInvariant == Spec => [](TypeInv /\ DirsInv)
<1>1. Init => DirsInv
  BY LeasedPlaces
     DEF Init, DirsInv, Fresh, DirsKnown, Holding, Kept, PublishedWhole, NeverStuck, OneWindow,
         Nothing, LooksComplete
<1>2. TypeInv /\ TypeInv' /\ DirsInv /\ [Next]_vars => DirsInv'
  BY DirsStep
<1> QED BY TypeInvariant, <1>1, <1>2, PTL DEF Spec

(* No interruption leaves a staging directory that readCompletedExport       *)
(* takes for a complete export and then rejects.                           *)
THEOREM NeverBlocked == Spec => []NeverStuck
<1>1. DirsInv => NeverStuck
  BY DEF DirsInv
<1> QED BY DirsInvariant, <1>1, PTL

(* The output directory appears whole, verified and with its manifest, and   *)
(* the staging directory is gone with it.                                  *)
THEOREM PublishesWhole == Spec => []PublishedWhole
<1>1. DirsInv => PublishedWhole
  BY DEF DirsInv
<1> QED BY DirsInvariant, <1>1, PTL

(* Over all attempts on a staging directory, a capture is downloaded to its  *)
(* end at most once.                                                       *)
THEOREM DownloadsOnce == Spec => []DownloadedOnce
<1>1. DirsInv => DownloadedOnce
  BY DEF DirsInv, Kept, DownloadedOnce
<1> QED BY DirsInvariant, <1>1, PTL

(* Whatever windows the builders ask for, the captures in a staging          *)
(* directory come from the one it is bound to.                             *)
THEOREM KeepsToItsWindow == Spec => []OneWindow
<1>1. DirsInv => OneWindow
  BY DEF DirsInv
<1> QED BY DirsInvariant, <1>1, PTL

-----------------------------------------------------------------------------
(* EvalBuild implements EvalDelivery: whichever builders are killed and       *)
(* resumed, what is published answers the window that was bound first and    *)
(* leaves out no capture that was listed then.                              *)

(* A step of one builder says nothing new of what the others account for. *)
LEMMA AccountStep ==
  ASSUME TypeInv, TypeInv', Accounted, NEW b \in Builders,
         Start(b) \/ Step(b) \/ Kill(b),
         ingested' = ingested, Holding(b) \/ listed' = listed,
         Holding(b)' => AccountsFor(b)'
  PROVE  \A a \in Builders : Holding(a)' => AccountsFor(a)'
<1>1. SUFFICES ASSUME NEW a \in Builders, a # b, Holding(a)'
               PROVE  AccountsFor(a)'
  OBVIOUS
<1>2. pc'[a] = pc[a] /\ export'[a] = export[a]
  BY <1>1, OthersStay DEF TypeInv
<1>3. Holding(a) /\ AccountsFor(a)
  BY <1>1, <1>2 DEF Holding, Accounted
<1>4. listed' = listed
  BY <1>1, <1>3 DEF TypeInv, LeaseInv, OneBuilder
<1> QED BY <1>2, <1>3, <1>4 DEF AccountsFor, Expected

(* Outside the collecting there is nothing to account for. *)
LEMMA NothingExpected ==
  ASSUME NEW b, pc'[b] \notin Collecting
  PROVE  AccountsFor(b)'
BY DEF AccountsFor, Collecting

(* The steps that leave the collecting alone and what is marked as it is. *)
LEMMA AccountQuiet ==
  ASSUME TypeInv, TypeInv', DirsInv, Accounted, NEW b \in Builders,
         \/ Start(b) \/ Acquire(b) \/ WriteOwner(b) \/ Recheck(b) \/ Confirm(b) \/ Fail(b)
         \/ ReadCompleted(b) \/ ReleaseOwner(b) \/ ReleaseDir(b) \/ Kill(b)
  PROVE  Accounted'
<1>1. Start(b) \/ Step(b) \/ Kill(b)
  BY DEF Step
<1>2. UNCHANGED <<ingested, dirVars, listed>>
  BY DEF Start, Acquire, WriteOwner, Recheck, Confirm, Fail, ReadCompleted, ReleaseOwner,
         ReleaseDir, Kill, gatewayVars
<1>3. pc'[b] \notin Collecting
  <2>1. pc \in [Builders -> Places]
    BY DEF TypeInv, TypeOK
  <2>2. CASE Fail(b)
    BY <2>1, <2>2, FailPlaces DEF Fail, Goto, Collecting
  <2>3. CASE ~Fail(b)
    BY <2>1, <2>3
       DEF Start, Acquire, WriteOwner, Recheck, Confirm, ReadCompleted, ReleaseOwner,
           ReleaseDir, Kill, Goto, Collecting
  <2> QED BY <2>2, <2>3
<1>4. \A a \in Builders : Holding(a)' => AccountsFor(a)'
  BY <1>1, <1>2, <1>3, NothingExpected, AccountStep
<1> QED BY <1>2, <1>4 DEF Accounted, dirVars, LooksComplete

(* Binding records what is listed of the window; the removal of a marker     *)
(* leaves an export that does not look complete.                           *)
LEMMA AccountBind ==
  ASSUME TypeInv, TypeInv', DirsInv, DirsInv', Accounted, NEW b \in Builders, Bind(b)
  PROVE  Accounted'
<1>1. Step(b) /\ Holding(b) /\ ingested' = ingested /\ output' = output
  BY LeasedPlaces DEF Step, Bind, Holding, gatewayVars
<1>2. pc'[b] \notin Collecting
  BY DEF Bind, Goto, Collecting, TypeInv, TypeOK
<1>3. \A a \in Builders : Holding(a)' => AccountsFor(a)'
  BY <1>1, <1>2, NothingExpected, AccountStep
<1>4. CASE UNCHANGED <<staging, listed>>
  BY <1>1, <1>3, <1>4 DEF Accounted, LooksComplete
<1>5. CASE /\ staging.window = None /\ listed' = ingested \cap Selects[b]
           /\ staging' = [staging EXCEPT !.window = Selects[b], !.mode = Mode(b)]
  <2>1. /\ staging'.window = Selects[b] /\ staging'.index = staging.index
        /\ staging'.summary = staging.summary
    BY <1>5 DEF TypeInv, TypeOK, Dirs
  <2>2. ~LooksComplete(staging)
    <3>1. SUFFICES ASSUME LooksComplete(staging) PROVE FALSE
      OBVIOUS
    <3>2. staging.summary.window = None
      BY <1>5, <3>1 DEF DirsInv, NeverStuck, Verified
    <3>3. staging.summary.window \in Windows
      BY <3>1 DEF LooksComplete, TypeInv, TypeOK, Dirs, Manifests, Summaries
    <3> QED BY <3>2, <3>3, EvalBuildAssumption
  <2> QED BY <1>1, <1>3, <1>5, <2>1, <2>2 DEF Accounted, LooksComplete
<1> QED BY <1>4, <1>5 DEF Bind

LEMMA AccountMarker ==
  ASSUME TypeInv, TypeInv', DirsInv, DirsInv', Accounted, NEW b \in Builders, RemoveMarker(b)
  PROVE  Accounted'
<1>1. /\ Step(b) /\ Holding(b) /\ pc[b] \in DOMAIN Removes
      /\ UNCHANGED <<ingested, output, listed>>
  BY LeasedPlaces DEF Step, RemoveMarker, Holding, gatewayVars
<1>2. staging \in Dirs /\ staging' = [staging EXCEPT ![Removes[pc[b]]] = None]
  BY DEF RemoveMarker, TypeInv, TypeOK
<1>3. pc'[b] \notin Collecting
  <2>1. pc'[b] = AfterRemoval[pc[b]]
    BY DEF RemoveMarker, Goto, TypeInv, TypeOK
  <2> QED BY <1>1, <2>1, MarkerPlaces DEF AfterRemoval, Collecting
<1>4. \A a \in Builders : Holding(a)' => AccountsFor(a)'
  BY <1>1, <1>3, NothingExpected, AccountStep
<1>5. \/ staging' = [staging EXCEPT !.index = None]
      \/ staging' = [staging EXCEPT !.skipped = None]
      \/ staging' = [staging EXCEPT !.summary = None]
  BY <1>1, <1>2, MarkerRemoved
<1>6. /\ staging'.window = staging.window
      /\ staging'.index = None \/ staging'.skipped = None \/ staging'.summary = None
  BY <1>2, <1>5 DEF Dirs
<1>7. ~LooksComplete(staging')
  BY <1>6 DEF LooksComplete, DirsInv, NeverStuck, Verified
<1> QED BY <1>1, <1>4, <1>6, <1>7 DEF Accounted, LooksComplete

(* The listing covers what was listed at binding, and a page goes on without *)
(* forgetting a capture unless a download failed.                          *)
LEMMA AccountPage ==
  ASSUME TypeInv, TypeInv', DirsInv, DirsInv', Accounted, NEW b \in Builders,
         FirstPage(b) \/ NextPage(b) \/ PageDone(b)
  PROVE  Accounted'
<1>1. Step(b) /\ Holding(b) /\ UNCHANGED <<ingested, dirVars, listed>>
  BY LeasedPlaces DEF Step, FirstPage, NextPage, PageDone, TakePage, Holding, gatewayVars
<1>2. /\ pc \in [Builders -> Places] /\ export \in [Builders -> ExportVars]
      /\ pc[b] # "captures" => export[b].flight = {}
  BY DEF TypeInv, TypeOK, ExportVars
<1>3. AccountsFor(b)
  BY <1>1 DEF Accounted
<1>4. AccountsFor(b)'
  <2>1. CASE FirstPage(b)
    <3>1. export[b] = NoExport
      BY <2>1 DEF FirstPage, DirsInv, Fresh, BeforeExport
    <3>2. listed \subseteq ingested \cap staging.window
      <4>1. output = None /\ staging.window # None
        BY <1>1, <2>1 DEF FirstPage, DirsInv, DirsKnown, KnownAt, OutsideDirs, TypeInv,
                          Bound, AfterBinding
      <4> QED BY <4>1 DEF Accounted
    <3>3. /\ pc'[b] = "captures"
          /\ export'[b].page \cup export'[b].todo = ingested \cap staging.window
          /\ export'[b].rows = {} /\ export'[b].missing = {} /\ export'[b].flight = {}
      BY <1>2, <2>1, <3>1 DEF FirstPage, TakePage, Goto, ExportVars, NoExport, FirstOf
    <3>4. Expected(export'[b]) = ingested \cap staging.window
      BY <3>3 DEF Expected
    <3>5. /\ Expected(export'[b]) \subseteq ingested'
          /\ listed' \subseteq Expected(export'[b])
      BY <1>1, <3>2, <3>4
    <3> QED BY <3>3, <3>5 DEF AccountsFor, Expected
  <2>2. CASE NextPage(b)
    <3>1. /\ pc[b] = "page" /\ export[b].flight = {}
      BY <1>2, <2>2 DEF NextPage
    <3>2. /\ Expected(export[b]) \subseteq ingested
          /\ listed \subseteq Expected(export[b]) /\ export[b].page = {}
      BY <1>3, <3>1 DEF AccountsFor, Collecting
    <3>3. /\ pc'[b] = "captures"
          /\ export'[b].page \cup export'[b].todo = export[b].todo
          /\ export'[b].rows = export[b].rows /\ export'[b].missing = export[b].missing
          /\ export'[b].flight = {}
      BY <1>2, <2>2, <3>1 DEF NextPage, TakePage, Goto, ExportVars, FirstOf
    <3>4. Expected(export'[b]) = Expected(export[b])
      BY <3>1, <3>2, <3>3 DEF Expected
    <3>5. /\ Expected(export'[b]) \subseteq ingested'
          /\ listed' \subseteq Expected(export'[b])
      BY <1>1, <3>2, <3>4
    <3> QED BY <3>3, <3>5 DEF AccountsFor, Expected
  <2>3. CASE PageDone(b)
    <3>1. pc[b] = "captures" /\ export' = export
      BY <2>3 DEF PageDone
    <3>2. \/ pc'[b] = "undoIndex"
          \/ /\ pc'[b] = "page" /\ ~export[b].failed
             /\ export[b].flight = {} /\ export[b].page = {}
          \/ /\ pc'[b] = "index" /\ ~export[b].failed
             /\ export[b].flight = {} /\ export[b].page = {} /\ export[b].todo = {}
      BY <1>2, <2>3 DEF PageDone, Goto
    <3> QED BY <1>1, <1>3, <3>1, <3>2 DEF AccountsFor, Collecting, Expected
  <2> QED BY <2>1, <2>2, <2>3
<1>5. \A a \in Builders : Holding(a)' => AccountsFor(a)'
  BY <1>1, <1>4, AccountStep
<1> QED BY <1>1, <1>5 DEF Accounted, LooksComplete, dirVars

LEMMA AccountCollect ==
  ASSUME TypeInv, TypeInv', DirsInv, DirsInv', Accounted, NEW b \in Builders,
         \/ TakeCapture(b)
         \/ \E c \in Captures :
              Adopted(b, c) \/ Downloaded(b, c) \/ NotFound(b, c) \/ CaptureFails(b, c)
  PROVE  Accounted'
<1>1. /\ Step(b) /\ Holding(b) /\ pc[b] = "captures" /\ pc' = pc
      /\ UNCHANGED <<ingested, output, listed>>
  BY LeasedPlaces
     DEF Step, TakeCapture, Pending, Adopted, Downloaded, Rename, NotFound, CaptureFails,
         InFlight, Holding, dirVars, gatewayVars
<1>2. export \in [Builders -> ExportVars] /\ staging \in Dirs
  BY DEF TypeInv, TypeOK, ExportVars
<1>3. /\ Expected(export[b]) \subseteq ingested
      /\ listed \subseteq Expected(export[b]) \/ export[b].failed
  BY <1>1 DEF Accounted, AccountsFor, Collecting
<1>4. AccountsFor(b)'
  <2>1. CASE TakeCapture(b)
    <3>1. /\ export'[b].page \cup export'[b].flight = export[b].page \cup export[b].flight
          /\ export'[b].todo = export[b].todo /\ export'[b].rows = export[b].rows
          /\ export'[b].missing = export[b].missing
          /\ export'[b].failed = export[b].failed
      <4>1. PICK c \in export[b].page :
              export' = [export EXCEPT ![b].page = @ \ {c}, ![b].flight = @ \cup {c}]
        BY <2>1 DEF TakeCapture
      <4>2. /\ export'[b].page = export[b].page \ {c}
            /\ export'[b].flight = export[b].flight \cup {c}
            /\ export'[b].todo = export[b].todo /\ export'[b].rows = export[b].rows
            /\ export'[b].missing = export[b].missing
            /\ export'[b].failed = export[b].failed
        BY <1>2, <4>1 DEF ExportVars
      <4> QED BY <4>1, <4>2
    <3>2. Expected(export'[b]) = Expected(export[b])
      BY <3>1 DEF Expected
    <3> QED BY <1>1, <1>3, <3>1, <3>2 DEF AccountsFor, Expected
  <2>2. ASSUME NEW c \in Captures,
               Adopted(b, c) \/ Downloaded(b, c) \/ NotFound(b, c) \/ CaptureFails(b, c)
        PROVE  AccountsFor(b)'
    <3>1. /\ c \in export[b].flight /\ export'[b].flight = export[b].flight \ {c}
          /\ export'[b].page = export[b].page /\ export'[b].todo = export[b].todo
          /\ \/ /\ export'[b].rows = export[b].rows \cup {c}
                /\ export'[b].missing = export[b].missing
                /\ export'[b].failed = export[b].failed
             \/ /\ export'[b].rows = export[b].rows
                /\ export'[b].missing = export[b].missing \cup {c}
                /\ export'[b].failed = export[b].failed
             \/ /\ export'[b].rows = export[b].rows /\ export'[b].missing = export[b].missing
                /\ export'[b].failed
      BY <1>2, <2>2
         DEF Adopted, Downloaded, Rename, NotFound, CaptureFails, InFlight, ExportVars
    <3>2. /\ Expected(export'[b]) \subseteq Expected(export[b])
          /\ \/ Expected(export'[b]) = Expected(export[b]) /\ export'[b].failed = export[b].failed
             \/ export'[b].failed
      BY <3>1 DEF Expected
    <3> QED BY <1>1, <1>3, <3>2 DEF AccountsFor, Expected
  <2> QED BY <2>1, <2>2
<1>5. \A a \in Builders : Holding(a)' => AccountsFor(a)'
  BY <1>1, <1>4, AccountStep
<1>6. staging.index = None
  BY <1>1 DEF DirsInv, DirsKnown, KnownAt, WithoutIndex
<1>7. staging'.window = staging.window /\ staging'.index = staging.index
  BY <1>2 DEF TakeCapture, Adopted, Downloaded, Rename, NotFound, CaptureFails, dirVars, Dirs
<1> QED BY <1>1, <1>5, <1>6, <1>7 DEF Accounted, LooksComplete

(* The summary is written when both indexes account for the listing. *)
LEMMA AccountPut ==
  ASSUME TypeInv, TypeInv', DirsInv, DirsInv', Accounted, NEW b \in Builders,
         RenameIndex(b) \/ RenameSkipped(b) \/ WriteSummary(b) \/ WriteProject(b)
  PROVE  Accounted'
<1>1. /\ Step(b) /\ Holding(b) /\ UNCHANGED <<ingested, output, listed, export>>
      /\ pc[b] \in {"index", "skipped", "summary", "project"}
  BY LeasedPlaces
     DEF Step, RenameIndex, RenameSkipped, WriteSummary, WriteProject, PutMarker, Holding,
         gatewayVars
<1>2. staging \in Dirs /\ pc \in [Builders -> Places]
  BY DEF TypeInv, TypeOK
<1>3. KnownAt(b) /\ AccountsFor(b)
  BY <1>1 DEF DirsInv, DirsKnown, Accounted
<1>4. /\ FailTo["index"] = "undoIndex" /\ FailTo["skipped"] = "undoIndex"
      /\ FailTo["summary"] = "undoIndex" /\ FailTo["project"] = "releaseOwner"
  BY FailPlaces, MarkerPlaces DEF FailTo, Exporting
<1>5. AccountsFor(b)'
  <2>1. \/ pc'[b] \notin Collecting
        \/ pc'[b] \in {"skipped", "summary"} /\ pc[b] \in {"index", "skipped"}
    BY <1>1, <1>2, <1>4
       DEF RenameIndex, RenameSkipped, WriteSummary, WriteProject, PutMarker, Goto, Collecting
  <2> QED BY <1>1, <1>3, <2>1 DEF AccountsFor, Collecting, Expected
<1>6. \A a \in Builders : Holding(a)' => AccountsFor(a)'
  BY <1>1, <1>5, AccountStep
<1>7. staging'.window = staging.window
  BY <1>2 DEF RenameIndex, RenameSkipped, WriteSummary, WriteProject, PutMarker, Dirs
<1>8. CASE RenameIndex(b) \/ RenameSkipped(b)
  <2>1. staging'.summary = None
    BY <1>2, <1>3, <1>8
       DEF RenameIndex, RenameSkipped, PutMarker, KnownAt, WithoutSummary, Collecting, Dirs
  <2> QED BY <1>1, <1>6, <1>7, <2>1 DEF Accounted, LooksComplete
<1>9. CASE WriteSummary(b)
  <2>1. /\ pc[b] = "summary" /\ staging' = [staging EXCEPT !.summary = SummaryOf(b)]
    BY <1>9 DEF WriteSummary, PutMarker
  <2>2. staging'.index = export[b].rows /\ staging'.skipped = export[b].missing
    BY <1>2, <1>3, <2>1 DEF KnownAt, Dirs
  <2>3. /\ Expected(export[b]) = export[b].rows \cup export[b].missing
        /\ Expected(export[b]) \subseteq ingested /\ listed \subseteq Expected(export[b])
    BY <1>3, <2>1 DEF AccountsFor, Collecting, Expected
  <2> QED BY <1>1, <1>6, <1>7, <2>2, <2>3 DEF Accounted, LooksComplete
<1>10. CASE WriteProject(b)
  <2>1. /\ staging'.index = staging.index /\ staging'.skipped = staging.skipped
        /\ staging'.summary = staging.summary
    BY <1>2, <1>10 DEF WriteProject, PutMarker, Dirs
  <2> QED BY <1>1, <1>6, <1>7, <2>1 DEF Accounted, LooksComplete
<1> QED BY <1>8, <1>9, <1>10

LEMMA AccountPublish ==
  ASSUME TypeInv, TypeInv', DirsInv, DirsInv', Accounted, NEW b \in Builders, Publish(b)
  PROVE  Accounted'
<1>1. Step(b) /\ Holding(b) /\ pc[b] = "publish" /\ UNCHANGED <<ingested, listed>>
  BY LeasedPlaces DEF Step, Publish, Holding, gatewayVars
<1>2. pc'[b] \notin Collecting
  BY DEF Publish, Goto, Collecting, TypeInv, TypeOK
<1>3. \A a \in Builders : Holding(a)' => AccountsFor(a)'
  BY <1>1, <1>2, NothingExpected, AccountStep
<1>4. output = None
  BY <1>1 DEF DirsInv, DirsKnown, KnownAt, OutsideDirs
<1>5. staging' = Nothing
  BY <1>4 DEF Publish
<1> QED BY <1>3, <1>5 DEF Accounted, LooksComplete, Nothing

LEMMA AccountedStep ==
  ASSUME TypeInv, TypeInv', DirsInv, DirsInv', Accounted, [Next]_vars
  PROVE  Accounted'
<1>1. CASE UNCHANGED vars \/ Ingest \/ Expire \/ RemoveLock
  <2>1. UNCHANGED <<dirVars, pc, export, listed>> /\ ingested \subseteq ingested'
    BY <1>1 DEF vars, gatewayVars, Ingest, Expire, RemoveLock
  <2>2. ASSUME NEW a \in Builders, Holding(a)'
        PROVE  AccountsFor(a)'
    <3>1. AccountsFor(a)
      BY <2>1, <2>2 DEF Accounted, Holding
    <3> QED BY <2>1, <3>1 DEF AccountsFor, Expected
  <2> QED BY <2>1, <2>2 DEF Accounted, LooksComplete, dirVars
<1>2. ASSUME NEW b \in Builders, Start(b) \/ Step(b) \/ Kill(b)
      PROVE  Accounted'
  BY <1>2, AccountQuiet, AccountBind, AccountMarker, AccountPage, AccountCollect, AccountPut,
     AccountPublish DEF Step
<1> QED BY <1>1, <1>2 DEF Next

BuildInv == TypeInv /\ DirsInv /\ Accounted

LEMMA BuildInvariant == Spec => []BuildInv
<1>1. Init => Accounted
  BY LeasedPlaces DEF Init, Accounted, Nothing, LooksComplete, Holding
<1>2. /\ TypeInv /\ TypeInv' /\ DirsInv /\ DirsInv' /\ Accounted /\ [Next]_vars
      => Accounted'
  BY AccountedStep
<1>3. TypeInv /\ DirsInv /\ Accounted => BuildInv
  BY DEF BuildInv
<1> QED BY DirsInvariant, <1>1, <1>2, <1>3, PTL DEF Spec

-----------------------------------------------------------------------------
(* The simulation. *)

LEMMA DeliveryInit == Init => Delivery!Init
BY DEF Init, Delivery!Init, Orders, Delivered, Nothing

(* A step that keeps the directories, or the staging directory's window. *)
LEMMA NothingDelivered ==
  ASSUME UNCHANGED <<ingested, output, listed>>, staging'.window = staging.window
  PROVE  UNCHANGED Delivery!vars
BY DEF Delivery!vars, Orders, Delivered

LEMMA DeliveryBind ==
  ASSUME BuildInv, NEW b \in Builders, Bind(b)
  PROVE  [Delivery!Next]_(Delivery!vars)
<1>1. output = None
  <2>1. Holding(b) /\ pc[b] = "bind"
    BY LeasedPlaces DEF Bind, Holding
  <2> QED BY <2>1 DEF BuildInv, DirsInv, DirsKnown, KnownAt, OutsideDirs
<1>2. CASE UNCHANGED <<staging, listed>>
  BY <1>2, NothingDelivered DEF Bind, gatewayVars
<1>3. CASE /\ staging.window = None /\ listed' = ingested \cap Selects[b]
           /\ staging' = [staging EXCEPT !.window = Selects[b], !.mode = Mode(b)]
  <2>1. Selects[b] \in SUBSET Captures /\ Selects[b] # None
    BY EvalBuildAssumption DEF Windows
  <2>2. staging'.window = Selects[b]
    BY <1>3 DEF BuildInv, TypeInv, TypeOK, Dirs
  <2>3. output' = output /\ ingested' = ingested
    BY DEF Bind, gatewayVars
  <2>4. Orders = None /\ Delivered' = Delivered
    BY <1>1, <1>3, <2>3 DEF Orders, Delivered
  <2>5. Orders' = [window |-> Selects[b], listed |-> Selects[b] \cap ingested]
    <3>1. listed' = Selects[b] \cap ingested
      BY <1>3
    <3> QED BY <1>1, <2>1, <2>2, <2>3, <3>1 DEF Orders
  <2>6. Delivery!Bind
    BY <2>1, <2>3, <2>4, <2>5 DEF Delivery!Bind
  <2> QED BY <2>6 DEF Delivery!Next
<1> QED BY <1>2, <1>3 DEF Bind

(* The rename publishes the answer to the bound window. *)
LEMMA DeliveryPublish ==
  ASSUME BuildInv, NEW b \in Builders, Publish(b)
  PROVE  [Delivery!Next]_(Delivery!vars)
<1>1. LooksComplete(staging) /\ Verified(staging) /\ output = None
  <2>1. Holding(b) /\ pc[b] = "publish"
    BY LeasedPlaces DEF Publish, Holding
  <2> QED BY <2>1 DEF BuildInv, DirsInv, DirsKnown, KnownAt, OutsideDirs
<1>2. output' = staging /\ UNCHANGED <<ingested, listed>> /\ staging' = Nothing
  BY <1>1 DEF Publish, gatewayVars
<1>3. staging \in Dirs /\ output' # None
  BY <1>2, EvalBuildAssumption DEF BuildInv, TypeInv, TypeOK
<1>4. staging.window # None
  <2>1. staging.summary \in Summaries /\ staging.summary.window = staging.window
    BY <1>1, <1>3 DEF LooksComplete, Verified, Dirs, Manifests
  <2> QED BY <2>1, EvalBuildAssumption DEF Summaries
<1>5. Orders = [window |-> staging.window, listed |-> listed] /\ Delivered = None
  BY <1>1, <1>4 DEF Orders, Delivered
<1>6. Orders' = Orders
  BY <1>2, <1>3, <1>5 DEF Orders
<1>7. Delivered' = [window |-> staging.window, rows |-> staging.index,
                    skipped |-> staging.skipped]
  BY <1>2, <1>3 DEF Delivered
<1>8. Orders # None /\ Orders.window = staging.window /\ Orders.listed = listed
  <2>1. Orders.window \in Windows
    BY <1>3, <1>4, <1>5 DEF Dirs, Marks
  <2>2. Orders \in [window : Windows, listed : Windows]
    BY <1>3, <1>4, <1>5 DEF Dirs, Marks, BuildInv, TypeInv, TypeOK
  <2> QED BY <1>5, <2>2, EvalBuildAssumption
<1>9. /\ staging.index \subseteq staging.window \cap ingested
      /\ staging.skipped \subseteq staging.window \cap ingested
      /\ staging.index # {} /\ staging.index \cap staging.skipped = {}
      /\ listed \subseteq staging.index \cup staging.skipped
  BY <1>1 DEF Verified, BuildInv, Accounted
<1>10. Delivery!Deliver
  BY <1>2, <1>5, <1>6, <1>7, <1>8, <1>9 DEF Delivery!Deliver
<1> QED BY <1>10 DEF Delivery!Next

LEMMA DeliveryStep ==
  ASSUME BuildInv, [Next]_vars
  PROVE  [Delivery!Next]_(Delivery!vars)
<1>1. staging \in Dirs
  BY DEF BuildInv, TypeInv, TypeOK
<1>2. CASE UNCHANGED vars \/ Expire \/ RemoveLock
  BY <1>2, NothingDelivered DEF vars, gatewayVars, dirVars, Expire, RemoveLock
<1>3. CASE Ingest
  <2>1. Orders' = Orders /\ Delivered' = Delivered
    BY <1>3 DEF Ingest, dirVars, Orders, Delivered
  <2>2. Delivery!Ingest
    BY <1>3, <2>1 DEF Ingest, Delivery!Ingest
  <2> QED BY <2>2 DEF Delivery!Next
<1>4. ASSUME NEW b \in Builders, Start(b) \/ Step(b) \/ Kill(b)
      PROVE  [Delivery!Next]_(Delivery!vars)
  <2>1. CASE Start(b) \/ Kill(b) \/ Acquire(b) \/ WriteOwner(b) \/ Recheck(b) \/ Confirm(b)
             \/ ReadCompleted(b) \/ PageDone(b) \/ Fail(b) \/ ReleaseOwner(b) \/ ReleaseDir(b)
             \/ FirstPage(b) \/ NextPage(b) \/ TakeCapture(b)
    BY <2>1, NothingDelivered
       DEF Start, Kill, Acquire, WriteOwner, Recheck, Confirm, ReadCompleted, PageDone, Fail,
           ReleaseOwner, ReleaseDir, FirstPage, NextPage, TakePage, TakeCapture, gatewayVars,
           dirVars
  <2>2. ASSUME NEW c \in Captures,
               Adopted(b, c) \/ Downloaded(b, c) \/ NotFound(b, c) \/ CaptureFails(b, c)
        PROVE  UNCHANGED Delivery!vars
    BY <1>1, <2>2, NothingDelivered
       DEF Adopted, Downloaded, Rename, NotFound, CaptureFails, gatewayVars, dirVars, Dirs
  <2>3. CASE RemoveMarker(b)
    <3>1. staging'.window = staging.window
      <4>1. staging' \in {[staging EXCEPT !.index = None], [staging EXCEPT !.skipped = None],
                          [staging EXCEPT !.summary = None]}
        BY <1>1, <2>3, MarkerRemoved DEF RemoveMarker
      <4> QED BY <1>1, <4>1 DEF Dirs
    <3> QED BY <2>3, <3>1, NothingDelivered DEF RemoveMarker, gatewayVars
  <2>4. CASE RenameIndex(b) \/ RenameSkipped(b) \/ WriteSummary(b) \/ WriteProject(b)
    BY <1>1, <2>4, NothingDelivered
       DEF RenameIndex, RenameSkipped, WriteSummary, WriteProject, PutMarker, gatewayVars, Dirs
  <2> QED BY <1>4, <2>1, <2>2, <2>3, <2>4, DeliveryBind, DeliveryPublish DEF Step
<1> QED BY <1>2, <1>3, <1>4 DEF Next

(* evals build keeps the promise of EvalDelivery: the output appears once,   *)
(* answers the window bound first, leaves out no capture that was listed    *)
(* then, and never changes.                                                *)
THEOREM DeliversAsPromised == Spec => Implements
<1>1. BuildInv /\ [Next]_vars => [Delivery!Next]_(Delivery!vars)
  BY DeliveryStep
<1> QED BY DeliveryInit, BuildInvariant, <1>1, PTL DEF Spec, Implements, Delivery!Spec
=============================================================================
