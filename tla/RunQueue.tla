------------------------------ MODULE RunQueue ------------------------------
(***************************************************************************)
(* The file-based run queue of src/src/run-executor.ts and `runs execute   *)
(* --watch` of src/src/commands/runs.ts.                                   *)
(*                                                                         *)
(* A run request is one JSON file.  Three kinds of process read and write  *)
(* it without a lock: whoever creates the request, hubs and CLIs that      *)
(* cancel it, and executors that claim and run it.  Every update is a read *)
(* of the whole file followed by a write of the whole file, so an action   *)
(* here is one read or one write: what another process does in between is  *)
(* what this module is about.                                              *)
(*                                                                         *)
(* One executor runs its work items one at a time (--concurrency 1, one    *)
(* arm); arms, worker pool, spend and the local server are in ArmPool.     *)
(***************************************************************************)
EXTENDS Integers, FiniteSets

CONSTANTS
  NumRequests,    \* run requests, numbered in creation order
  Total,          \* work items (arm, task, rollout) of each request
  Executors,      \* executor processes; a restarted one is another element
  Cancellers,     \* processes that cancel one request each
  Nonces,         \* bound: claim attempts in a behaviour
  Unsupported,    \* <<e, r>>: r requires a capability that e lacks
  Empty,          \* requests whose split and tasks select no task
  Unreadable,     \* requests whose manifest or local artifact may be gone
  SingleWatcher,  \* deployment: an executor is launched only when none lives
  None

Requests == 1..NumRequests

ASSUME RunQueueAssumption ==
  /\ NumRequests \in Nat
  /\ Total \in Nat
  /\ Executors # {}
  /\ Unsupported \subseteq Executors \X Requests
  /\ Empty \subseteq Requests
  /\ Unreadable \subseteq Requests
  /\ SingleWatcher \in BOOLEAN
  /\ None \notin Executors \cup Nonces

VARIABLES
  created,    \* the requests 1..created have a file
  file,       \* file[r]: the content of the request file
  rows,       \* rows[r][e]: rows that e appended to the rows file of r
  pc,         \* pc[e]: where executor e is
  todo,       \* todo[e]: what is left of e's last listing of the queue
  cur,        \* cur[e]: the request e is at
  copy,       \* copy[e]: the request as e last read it
  nonce,      \* nonce[e]: the nonce of e's last claim
  completed,  \* completed[e]: e's count of work items of this execution
  drawn,      \* nonces drawn so far
  cpc, ccur, ccopy, \* the same three for the cancellers
  landed      \* history: requests whose cancellation was written while no
              \* executor was at a place of LosesFlip

queueVars == <<created, file, rows>>
execVars == <<pc, todo, cur, copy, nonce, completed, drawn>>
cancelVars == <<cpc, ccur, ccopy, landed>>
vars == <<queueVars, execVars, cancelVars>>

Terminal == {"done", "failed", "cancelled"}
Statuses == {"queued", "running"} \cup Terminal
NoClaim == [pid |-> None, nonce |-> None]
Claims == [pid : Executors, nonce : Nonces] \cup {NoClaim}
Records == [status : Statuses, claim : Claims, completed : 0..Total,
            live : BOOLEAN, note : Executors \cup {None}]

(* createRunRequest writes status queued, no claim, progress 0. *)
Fresh == [status |-> "queued", claim |-> NoClaim, completed |-> 0,
          live |-> FALSE, note |-> None]

Created(r) == r <= created
Alive(e) == pc[e] \notin {"off", "exited", "killed"}

(* Places between a read of the request and the write it prepares. *)
Writing == {"noteWrite", "claimWrite", "start", "liveWrite", "progressWrite",
            "doneWrite", "cancelledWrite", "failWrite"}

(* Places inside an execution: after a verified claim, before the return. *)
Executing == {"check", "liveRead", "liveWrite", "rollout", "progressRead",
              "progressWrite", "final", "doneRead", "doneWrite",
              "cancelledRead", "cancelledWrite", "failRead", "failWrite"}

(* The write that follows `readRunRequest(file) ?? request`. *)
WriteAfter == [liveRead |-> "liveWrite", progressRead |-> "progressWrite",
               doneRead |-> "doneWrite", cancelledRead |-> "cancelledWrite",
               failRead |-> "failWrite"]

(* Places from which the executor's next write ignores a cancellation that  *)
(* lands now: its copy is older, or the status it writes is its own.       *)
LosesFlip == Writing \cup {"claimVerify", "doneRead", "failRead"}

Labels == {"off", "idle", "list", "initialRead", "claimRead", "claimVerify",
           "exited", "killed"} \cup Writing \cup Executing

Init ==
  /\ created = 0
  /\ file = [r \in Requests |-> Fresh]
  /\ rows = [r \in Requests |-> [e \in Executors |-> 0]]
  /\ pc = [e \in Executors |-> "off"]
  /\ todo = [e \in Executors |-> {}]
  /\ cur = [e \in Executors |-> 0]
  /\ copy = [e \in Executors |-> Fresh]
  /\ nonce = [e \in Executors |-> None]
  /\ completed = [e \in Executors |-> 0]
  /\ drawn = {}
  /\ cpc = [c \in Cancellers |-> "idle"]
  /\ ccur = [c \in Cancellers |-> 0]
  /\ ccopy = [c \in Cancellers |-> Fresh]
  /\ landed = {}

Goto(e, l) == pc' = [pc EXCEPT ![e] = l]
Remember(e) == copy' = [copy EXCEPT ![e] = file[cur[e]]]

(* A variable that the code does not read again before it assigns it gets   *)
(* its initial value back, so that it tells no two states apart.           *)
Forget(e) == copy' = [copy EXCEPT ![e] = Fresh]

(* writeRunRequest: one atomic rename replaces the whole file. *)
Write(r, rec) == file' = [file EXCEPT ![r] = rec]

-----------------------------------------------------------------------------
(* The queue directory. *)

Create ==
  /\ created < NumRequests
  /\ created' = created + 1
  /\ Write(created + 1, Fresh)
  /\ UNCHANGED <<rows, execVars, cancelVars>>

CancelRead(c, r) ==
  /\ cpc[c] = "idle"
  /\ Created(r)
  /\ file[r].status \in {"queued", "running"}
  /\ cpc' = [cpc EXCEPT ![c] = "write"]
  /\ ccur' = [ccur EXCEPT ![c] = r]
  /\ ccopy' = [ccopy EXCEPT ![c] = file[r]]
  /\ UNCHANGED <<queueVars, execVars, landed>>

CancelWrite(c) ==
  LET r == ccur[c] IN
  /\ cpc[c] = "write"
  /\ cpc' = [cpc EXCEPT ![c] = "over"]
  /\ Write(r, [ccopy[c] EXCEPT !.status = "cancelled"])
  /\ landed' = IF \A e \in Executors : cur[e] = r => pc[e] \notin LosesFlip
               THEN landed \cup {r} ELSE landed
  /\ ccopy' = [ccopy EXCEPT ![c] = Fresh]
  /\ UNCHANGED <<created, rows, execVars, ccur>>

-----------------------------------------------------------------------------
(* The watch loop: list the queue, take the queued requests oldest first. *)

Launch(e) ==
  /\ pc[e] = "off"
  /\ SingleWatcher => ~ \E f \in Executors : Alive(f)
  /\ Goto(e, "idle")
  /\ UNCHANGED <<queueVars, cancelVars, todo, cur, copy, nonce, completed, drawn>>

Poll(e) ==
  /\ pc[e] = "idle"
  /\ todo' = [todo EXCEPT ![e] =
                {r \in Requests : Created(r) /\ file[r].status = "queued"}]
  /\ Goto(e, "list")
  /\ UNCHANGED <<queueVars, cancelVars, cur, copy, nonce, completed, drawn>>

PickNext(e) ==
  /\ pc[e] = "list"
  /\ \/ /\ todo[e] = {}
        /\ Goto(e, "idle")
        /\ UNCHANGED <<todo, cur>>
     \/ \E r \in todo[e] :
          /\ \A s \in todo[e] : r <= s
          /\ todo' = [todo EXCEPT ![e] = @ \ {r}]
          /\ cur' = [cur EXCEPT ![e] = r]
          /\ Goto(e, "initialRead")
  /\ UNCHANGED <<queueVars, cancelVars, copy, nonce, completed, drawn>>

(* The first read of executeRunRequest throws unless the request is still   *)
(* queued, and nothing between here and main catches: the process exits.   *)
InitialRead(e) ==
  LET r == cur[e]
      noted == file[r].note = e IN
  /\ pc[e] = "initialRead"
  /\ IF <<e, r>> \in Unsupported THEN Remember(e) ELSE Forget(e)
  /\ Goto(e, IF file[r].status # "queued" THEN "exited"
             ELSE IF <<e, r>> \notin Unsupported THEN "claimRead"
             ELSE IF noted THEN "list" ELSE "noteWrite")
  /\ UNCHANGED <<queueVars, cancelVars, todo, cur, nonce, completed, drawn>>

(* The run_unsupported note, on top of the first read. *)
NoteWrite(e) ==
  /\ pc[e] = "noteWrite"
  /\ Write(cur[e], [copy[e] EXCEPT !.note = e])
  /\ Forget(e)
  /\ Goto(e, "list")
  /\ UNCHANGED <<created, rows, cancelVars, todo, cur, nonce, completed, drawn>>

-----------------------------------------------------------------------------
(* claimRunRequest: read, write our claim, read again. *)

HeldByOther(e, claim) ==
  claim.pid # None /\ claim.pid # e /\ Alive(claim.pid)

ClaimRead(e) ==
  LET held == HeldByOther(e, file[cur[e]].claim) IN
  /\ pc[e] = "claimRead"
  /\ Remember(e)
  /\ Goto(e, IF file[cur[e]].status # "queued" \/ held THEN "list" ELSE "claimWrite")
  /\ UNCHANGED <<queueVars, cancelVars, todo, cur, nonce, completed, drawn>>

(* A variant that verifies against the nonce of the previous attempt. *)
ClaimWriteForgetful(e) ==
  /\ pc[e] = "claimWrite"
  /\ \E n \in Nonces \ drawn :
       /\ drawn' = drawn \cup {n}
       /\ Write(cur[e], [copy[e] EXCEPT !.claim = [pid |-> e, nonce |-> n]])
  /\ Forget(e)
  /\ Goto(e, "claimVerify")
  /\ UNCHANGED <<created, rows, cancelVars, todo, cur, completed, nonce>>

ClaimWrite(e) ==
  /\ pc[e] = "claimWrite"
  /\ \E n \in Nonces \ drawn :
       /\ drawn' = drawn \cup {n}
       /\ nonce' = [nonce EXCEPT ![e] = n]
       /\ Write(cur[e], [copy[e] EXCEPT !.claim = [pid |-> e, nonce |-> n]])
  /\ Forget(e)
  /\ Goto(e, "claimVerify")
  /\ UNCHANGED <<created, rows, cancelVars, todo, cur, completed>>

ClaimVerify(e) ==
  /\ pc[e] = "claimVerify"
  /\ Remember(e)
  /\ nonce' = [nonce EXCEPT ![e] = None]
  /\ Goto(e, IF file[cur[e]].claim.nonce = nonce[e] THEN "start" ELSE "list")
  /\ UNCHANGED <<queueVars, cancelVars, todo, cur, completed, drawn>>

-----------------------------------------------------------------------------
(* executeRunRequest after the claim. *)

FailEmpty(e) ==
  /\ pc[e] = "start"
  /\ cur[e] \in Empty
  /\ Write(cur[e], [copy[e] EXCEPT !.status = "failed"])
  /\ Forget(e)
  /\ Goto(e, "list")
  /\ UNCHANGED <<created, rows, cancelVars, todo, cur, nonce, completed, drawn>>

(* The manifest, or the artifact of a local arm, cannot be read: the throw   *)
(* is before the try block, so the claim stays and the process exits.      *)
PrepareThrows(e) ==
  /\ pc[e] = "start"
  /\ cur[e] \in Unreadable
  /\ Forget(e)
  /\ Goto(e, "exited")
  /\ UNCHANGED <<queueVars, cancelVars, todo, cur, nonce, completed, drawn>>

(* A variant that leaves the request queued until its first progress. *)
StartWriteQueued(e) ==
  /\ pc[e] = "start"
  /\ cur[e] \notin Empty
  /\ Write(cur[e], [copy[e] EXCEPT !.completed = 0])
  /\ completed' = [completed EXCEPT ![e] = 0]
  /\ Forget(e)
  /\ Goto(e, "check")
  /\ UNCHANGED <<created, rows, cancelVars, todo, cur, nonce, drawn>>

StartWrite(e) ==
  /\ pc[e] = "start"
  /\ cur[e] \notin Empty
  /\ Write(cur[e], [copy[e] EXCEPT !.status = "running", !.completed = 0])
  /\ completed' = [completed EXCEPT ![e] = 0]
  /\ Forget(e)
  /\ Goto(e, "check")
  /\ UNCHANGED <<created, rows, cancelVars, todo, cur, nonce, drawn>>

(* Variants: the loop misses the empty queue, or the last work item. *)
CheckUnbounded(e) ==
  /\ pc[e] = "check"
  /\ Goto(e, IF file[cur[e]].status = "cancelled" THEN "final" ELSE "liveRead")
  /\ UNCHANGED <<queueVars, cancelVars, todo, cur, copy, nonce, completed, drawn>>

CheckShort(e) ==
  LET stop == file[cur[e]].status = "cancelled" \/ completed[e] + 1 >= Total IN
  /\ pc[e] = "check"
  /\ Goto(e, IF stop THEN "final" ELSE "liveRead")
  /\ UNCHANGED <<queueVars, cancelVars, todo, cur, copy, nonce, completed, drawn>>

(* The worker loop stops on a cancelled file or on an empty queue. *)
Check(e) ==
  LET stop == file[cur[e]].status = "cancelled" \/ completed[e] = Total IN
  /\ pc[e] = "check"
  /\ Goto(e, IF stop THEN "final" ELSE "liveRead")
  /\ UNCHANGED <<queueVars, cancelVars, todo, cur, copy, nonce, completed, drawn>>

(* Every `readRunRequest(file) ?? request` of the execution. *)
Reread(e) ==
  /\ pc[e] \in DOMAIN WriteAfter
  /\ Remember(e)
  /\ Goto(e, WriteAfter[pc[e]])
  /\ UNCHANGED <<queueVars, cancelVars, todo, cur, nonce, completed, drawn>>

(* A variant that counts the work item when it starts it. *)
LiveWriteCounting(e) ==
  /\ pc[e] = "liveWrite"
  /\ Write(cur[e], [copy[e] EXCEPT !.live = TRUE, !.completed = completed[e] + 1])
  /\ Forget(e)
  /\ Goto(e, "rollout")
  /\ UNCHANGED <<created, rows, cancelVars, todo, cur, nonce, completed, drawn>>

LiveWrite(e) ==
  /\ pc[e] = "liveWrite"
  /\ Write(cur[e], [copy[e] EXCEPT !.live = TRUE])
  /\ Forget(e)
  /\ Goto(e, "rollout")
  /\ UNCHANGED <<created, rows, cancelVars, todo, cur, nonce, completed, drawn>>

(* A variant of persistProgress that writes the request in memory, running  *)
(* since StartWrite, instead of reading the file again.                    *)
RolloutWithoutReread(e) ==
  /\ pc[e] = "rollout"
  /\ rows' = [rows EXCEPT ![cur[e]][e] = @ + 1]
  /\ completed' = [completed EXCEPT ![e] = @ + 1]
  /\ copy' = [copy EXCEPT ![e] = [file[cur[e]] EXCEPT !.status = "running"]]
  /\ Goto(e, "progressWrite")
  /\ UNCHANGED <<created, file, cancelVars, todo, cur, nonce, drawn>>

(* The rollout settles, times out or errors: each way appends one row. *)
Rollout(e) ==
  /\ pc[e] = "rollout"
  /\ rows' = [rows EXCEPT ![cur[e]][e] = @ + 1]
  /\ completed' = [completed EXCEPT ![e] = @ + 1]
  /\ Goto(e, "progressRead")
  /\ UNCHANGED <<created, file, cancelVars, todo, cur, copy, nonce, drawn>>

ProgressWrite(e) ==
  /\ pc[e] = "progressWrite"
  /\ Write(cur[e], [copy[e] EXCEPT !.completed = completed[e]])
  /\ Forget(e)
  /\ Goto(e, "check")
  /\ UNCHANGED <<created, rows, cancelVars, todo, cur, nonce, completed, drawn>>

(* A variant without the last look at the file. *)
FinalCheckSkipped(e) ==
  /\ pc[e] = "final"
  /\ Goto(e, "doneRead")
  /\ UNCHANGED <<queueVars, cancelVars, todo, cur, copy, nonce, completed, drawn>>

FinalCheck(e) ==
  /\ pc[e] = "final"
  /\ Goto(e, IF file[cur[e]].status = "cancelled" THEN "cancelledRead" ELSE "doneRead")
  /\ UNCHANGED <<queueVars, cancelVars, todo, cur, copy, nonce, completed, drawn>>

(* An exception out of the arm loop (a failed append, a server that does    *)
(* not stop) is caught and recorded.                                       *)
Fault(e) ==
  /\ pc[e] \in {"check", "rollout", "progressRead"}
  /\ Goto(e, "failRead")
  /\ UNCHANGED <<queueVars, cancelVars, todo, cur, copy, nonce, completed, drawn>>

Settled(e, rec, status) ==
  [rec EXCEPT !.status = status, !.completed = completed[e], !.live = FALSE]

FinishWrite(e) ==
  /\ \/ /\ pc[e] = "doneWrite"
        /\ Write(cur[e], Settled(e, copy[e], "done"))
     \/ /\ pc[e] = "cancelledWrite"
        /\ Write(cur[e], Settled(e, copy[e], copy[e].status))
     \/ /\ pc[e] = "failWrite"
        /\ Write(cur[e], Settled(e, copy[e], "failed"))
  /\ Forget(e)
  /\ completed' = [completed EXCEPT ![e] = 0]
  /\ Goto(e, "list")
  /\ UNCHANGED <<created, rows, cancelVars, todo, cur, nonce, drawn>>

(* SIGKILL, a reboot, an out-of-memory kill. *)
Kill(e) ==
  /\ Alive(e)
  /\ Goto(e, "killed")
  /\ Forget(e)
  /\ todo' = [todo EXCEPT ![e] = {}]
  /\ nonce' = [nonce EXCEPT ![e] = None]
  /\ completed' = [completed EXCEPT ![e] = 0]
  /\ UNCHANGED <<queueVars, cancelVars, cur, drawn>>

-----------------------------------------------------------------------------
Step(e) ==
  \/ Poll(e) \/ PickNext(e) \/ InitialRead(e) \/ NoteWrite(e)
  \/ ClaimRead(e) \/ ClaimWrite(e) \/ ClaimVerify(e)
  \/ FailEmpty(e) \/ StartWrite(e) \/ Check(e) \/ Reread(e) \/ LiveWrite(e)
  \/ Rollout(e) \/ ProgressWrite(e) \/ FinalCheck(e) \/ FinishWrite(e)

Next ==
  \/ Create
  \/ \E c \in Cancellers, r \in Requests : CancelRead(c, r)
  \/ \E c \in Cancellers : CancelWrite(c)
  \/ \E e \in Executors : Launch(e) \/ Step(e) \/ PrepareThrows(e) \/ Fault(e) \/ Kill(e)

Spec == Init /\ [][Next]_vars

(* A live executor is a running event loop: it takes its next step.  Nobody *)
(* owes a launch, a creation, a cancellation, a fault or a kill.           *)
FairSpec == Spec /\ \A e \in Executors : WF_vars(Step(e))
-----------------------------------------------------------------------------
(* Properties. *)

TypeOK ==
  /\ created \in 0..NumRequests
  /\ file \in [Requests -> Records]
  /\ rows \in [Requests -> [Executors -> Nat]]
  /\ pc \in [Executors -> Labels]
  /\ todo \in [Executors -> SUBSET Requests]
  /\ cur \in [Executors -> Requests \cup {0}]
  /\ \A e \in Executors : pc[e] \notin {"off", "idle", "list", "killed"} => cur[e] # 0
  /\ copy \in [Executors -> Records]
  /\ nonce \in [Executors -> Nonces \cup {None}]
  /\ completed \in [Executors -> 0..Total]
  /\ drawn \subseteq Nonces
  /\ cpc \in [Cancellers -> {"idle", "write", "over"}]
  /\ ccur \in [Cancellers -> Requests \cup {0}]
  /\ \A c \in Cancellers : cpc[c] # "idle" => ccur[c] # 0
  /\ ccopy \in [Cancellers -> Records]
  /\ landed \subseteq Requests

(* A rollout in flight is for a work item not counted yet. *)
CountInRange ==
  \A e \in Executors :
    pc[e] \in {"liveRead", "liveWrite", "rollout"} => completed[e] < Total

(* The progress on a request file is backed by rows: some executor appended *)
(* at least that many.  Stale copies are written back over newer content by *)
(* claims, notes, cancellations and progress writes, and a killed executor  *)
(* leaves its last write: in none of these does the hub show work that is   *)
(* not in the rows file.                                                    *)
BackedBy(rec, r) == \E e \in Executors : rec.completed <= rows[r][e]
ProgressBacked == \A r \in Requests : BackedBy(file[r], r)

(* The strengthening of ProgressBacked: so is every copy that may still be   *)
(* written, and so is the count of an executor.                            *)
CopiesBacked ==
  /\ \A r \in Requests : BackedBy(file[r], r)
  /\ \A e \in Executors : pc[e] \in Writing => BackedBy(copy[e], cur[e])
  /\ \A e \in Executors : pc[e] \in Executing => completed[e] <= rows[cur[e]][e]
  /\ \A c \in Cancellers : cpc[c] = "write" => BackedBy(ccopy[c], ccur[c])

(* A file that says running names the executor process that claimed it,     *)
(* whichever stale copies were written back over it.                        *)
RunningIsClaimed ==
  \A r \in Requests : file[r].status = "running" => file[r].claim.pid # None

(* The strengthening of RunningIsClaimed, over the same copies. *)
ClaimedIfRunning(rec) == rec.status = "running" => rec.claim.pid # None
CopiesClaimed ==
  /\ \A r \in Requests : ClaimedIfRunning(file[r])
  /\ \A e \in Executors : pc[e] \in Writing => ClaimedIfRunning(copy[e])
  /\ \A e \in Executors : pc[e] = "start" => copy[e].claim.pid # None
  /\ \A e \in Executors : pc[e] = "claimVerify" => nonce[e] # None
  /\ \A c \in Cancellers : cpc[c] = "write" => ClaimedIfRunning(ccopy[c])

(* A run reported done has a row for every work item, cancellations and     *)
(* restarts of the watcher notwithstanding.                                 *)
DoneMeansComplete ==
  \A r \in Requests :
    file[r].status = "done" =>
      file[r].completed = Total /\ \E e \in Executors : rows[r][e] = Total

(* A cancellation that lands while the executor is rolling out, or before   *)
(* it reads the file again, is kept: the run ends cancelled, or failed if   *)
(* the arm fails too, and never running or done.  Each status write of the  *)
(* executor is a chance to undo it.                                         *)
FlipHonoured ==
  \A r \in landed : file[r].status \in {"cancelled", "failed"}

(* An executor leaves the worker loop before the last work item only for a  *)
(* cancellation, and that cancellation is still on the file when it looks   *)
(* again to choose between cancelled and done.                              *)
StopsOnlyForCancel ==
  \A e \in Executors :
    pc[e] = "final" /\ completed[e] < Total => file[cur[e]].status = "cancelled"

(* The two reads of the status, of the worker loop and of the end, agree on    *)
(* whether the run was cancelled or done.                                   *)
ReadsAgree == DoneMeansComplete /\ StopsOnlyForCancel

(* A watcher that is killed and started again never runs a request that the *)
(* previous process had begun: no work item gets rows from both.            *)
NotRunTwice ==
  \A r \in Requests, e, f \in Executors :
    rows[r][e] > 0 /\ rows[r][f] > 0 => e = f

(* The statement of the comment on claimRunRequest: of two racing executors *)
(* only the one whose claim survived proceeds.                              *)
OneExecutorPerRun ==
  \A e, f \in Executors :
    pc[e] \in Executing /\ pc[f] \in Executing /\ cur[e] = cur[f] => e = f

(* The statement of persistProgress: publishing progress never writes over  *)
(* a cancellation, because the file is read again first.                    *)
ProgressKeepsCancel ==
  [][\A e \in Executors :
       pc[e] = "progressWrite" /\ file[cur[e]].status = "cancelled"
         => file'[cur[e]].status = "cancelled"]_vars

(* A run that says running and whose executor is gone: nobody takes it over. *)
Abandoned(r) ==
  /\ file[r].status = "running"
  /\ \E e \in Executors : file[r].claim.pid = e /\ ~Alive(e)

(* While some executor lives, a request that it can honour reaches a          *)
(* terminal status, whoever was killed before, but for the run that an        *)
(* executor was killed or thrown out of.                                   *)
Settles ==
  \A r \in Requests :
    Created(r) ~> \/ file[r].status \in Terminal
                  \/ Abandoned(r)
                  \/ \A e \in Executors : ~Alive(e) \/ <<e, r>> \in Unsupported

(* With one watcher at a time, killed and restarted as it may be, the files   *)
(* of the requests that nobody has begun to cancel implement the advertised *)
(* state machine.                                                           *)
Asked(r) == \E c \in Cancellers : ccur[c] = r
Phase(r) ==
  IF ~Created(r) THEN "absent" ELSE IF Asked(r) THEN "withdrawn" ELSE file[r].status
Shown(r) == IF Asked(r) THEN 0 ELSE file[r].completed
Lifecycle == INSTANCE RunLifecycle WITH
  phase <- [r \in Requests |-> Phase(r)], reported <- [r \in Requests |-> Shown(r)]
Implements == Lifecycle!Spec
=============================================================================
