------------------------------ MODULE ArmPool ------------------------------
(***************************************************************************)
(* The inside of executeRunRequest (src/src/run-executor.ts) once a run is *)
(* running: its arms one after the other, the local model server of an arm, *)
(* the pool of workers that share the arm's work items, the spend          *)
(* stop-loss, timeouts, and the exception path out of the pool.            *)
(*                                                                         *)
(* The workers are promises of one event loop, which runs one of them, or   *)
(* executeRunRequest itself, from one await to the next: a worker at        *)
(* "check" has the loop.  A cancellation comes from another process at any *)
(* time.  Here a read of the request file and the write that follows it    *)
(* are one step; what comes between the two is in RunQueue.                *)
(***************************************************************************)
EXTENDS Integers, FiniteSets

CONSTANTS
  NumArms,     \* arms of the run, executed in order
  ItemsOf,     \* ItemsOf[a]: work items of arm a
  Workers,     \* --concurrency, as a set of worker slots
  LocalArms,   \* arms that are served by a local artifact
  ReusedArms,  \* those that point at a server that is already running
  StopLoss,    \* the posture's allow_spend_usd_per_run, or None
  MaxCost,     \* bound: the recorded cost of one rollout
  CanThrow,    \* writes of rows, events or the request may fail
  None

Arms == 1..NumArms
Work == UNION {{a} \X (1..ItemsOf[a]) : a \in Arms}

ASSUME ArmPoolAssumption ==
  /\ NumArms \in Nat
  /\ ItemsOf \in [Arms -> Nat]
  /\ IsFiniteSet(Workers) /\ Workers # {}
  /\ LocalArms \subseteq Arms
  /\ ReusedArms \subseteq LocalArms
  /\ MaxCost \in Nat
  /\ CanThrow \in BOOLEAN
  /\ StopLoss \in (Nat \ {0}) \cup {None}
  /\ None \notin Nat

VARIABLES
  status,        \* of the request file
  published,     \* progress.completed of the request file
  stage,         \* where executeRunRequest itself is
  arm,           \* the arm of the loop
  failing,       \* Promise.all has rejected
  fallback,      \* local arms that run on the gateway instead
  up,            \* arms whose local server runs
  queue,         \* work items of the arm that no worker has taken
  at,            \* at[w]: where worker w is
  hand,          \* hand[w]: the work item of worker w
  armCancelled, spendStopped,
  spent,         \* recorded cost
  completed,
  rows           \* rows[<<a, i>>]: rows in the rows file of arm a for item i

fileVars == <<status, published>>
loopVars == <<stage, arm, failing, fallback, up>>
poolVars == <<queue, at, hand, armCancelled>>
countVars == <<spendStopped, spent, completed, rows>>
vars == <<fileVars, loopVars, poolVars, countVars>>

Places == {"none", "check", "rollout", "finished", "thrown"}

Init ==
  /\ status = "running" /\ published = 0
  /\ stage = "head" /\ arm = 1 /\ failing = FALSE /\ fallback = {}
  /\ up = {}
  /\ queue = {} /\ armCancelled = FALSE
  /\ at = [w \in Workers |-> "none"]
  /\ hand = [w \in Workers |-> 0]
  /\ spendStopped = FALSE /\ spent = 0 /\ completed = 0
  /\ rows = [k \in Work |-> 0]

(* A hub or a CLI cancels the run; only a running one can be. *)
Cancel ==
  /\ status = "running"
  /\ status' = "cancelled"
  /\ UNCHANGED <<published, loopVars, poolVars, countVars>>

-----------------------------------------------------------------------------
(* The arm loop. *)

(* The queue of the arm and min(concurrency, work items) workers. *)
OpenPool ==
  /\ stage' = "pool"
  /\ queue' = 1..ItemsOf[arm]
  /\ armCancelled' = FALSE
  /\ \E started \in SUBSET Workers :
       /\ \/ Cardinality(started) = ItemsOf[arm]
          \/ started = Workers /\ Cardinality(Workers) < ItemsOf[arm]
       /\ at' = [w \in Workers |-> IF w \in started THEN "check" ELSE "finished"]
  /\ UNCHANGED <<fileVars, arm, failing, hand, countVars>>

LeaveLoop ==
  /\ stage = "head"
  /\ arm > NumArms \/ status = "cancelled"
  /\ stage' = "ended"
  /\ UNCHANGED <<fileVars, arm, failing, fallback, up, poolVars, countVars>>

GatewayArm ==
  /\ stage = "head" /\ arm <= NumArms /\ status # "cancelled"
  /\ arm \notin LocalArms
  /\ OpenPool
  /\ UNCHANGED <<fallback, up>>

(* predictLocalFit says that the artifact does not fit in memory; it is not *)
(* asked for a server that already runs.                                   *)
PredictedOom ==
  /\ stage = "head" /\ arm <= NumArms /\ status # "cancelled"
  /\ arm \in LocalArms \ ReusedArms
  /\ fallback' = fallback \cup {arm}
  /\ OpenPool
  /\ UNCHANGED up

Serve ==
  /\ stage = "head" /\ arm <= NumArms /\ status # "cancelled"
  /\ arm \in LocalArms
  /\ stage' = "serving"
  /\ UNCHANGED <<fileVars, arm, failing, fallback, up, poolVars, countVars>>

Served ==
  /\ stage = "serving"
  /\ up' = up \cup {arm}
  /\ OpenPool
  /\ UNCHANGED fallback

(* It exits, or is not ready in time: it is killed, the gateway serves. *)
ServeFailed ==
  /\ stage = "serving"
  /\ fallback' = fallback \cup {arm}
  /\ OpenPool
  /\ UNCHANGED up

(* The serve command cannot be spawned: the error event of the child has no *)
(* listener, which ends the process.                                       *)
SpawnError ==
  /\ stage = "serving"
  /\ arm \notin ReusedArms
  /\ stage' = "crashed"
  /\ UNCHANGED <<fileVars, arm, failing, fallback, up, poolVars, countVars>>

(* An event or a directory that cannot be written, between two arms. *)
LoopThrows ==
  /\ CanThrow
  /\ stage = "head" /\ arm <= NumArms /\ status # "cancelled"
  /\ stage' = "failed"
  /\ failing' = TRUE
  /\ UNCHANGED <<fileVars, arm, fallback, up, poolVars, countVars>>

(* Whether the loop has to go to its catch: a worker has thrown, or the     *)
(* event that closes the arm does.                                         *)
Outcomes == {\E w \in Workers : at[w] = "thrown"} \cup {t \in {TRUE} : CanThrow}

(* Promise.all: every worker is done, or the first one has thrown. *)
PoolOver ==
  /\ stage = "pool"
  /\ \/ \A w \in Workers : at[w] = "finished"
     \/ \E w \in Workers : at[w] = "thrown"
  /\ failing' \in Outcomes
  /\ stage' = "closing"
  /\ UNCHANGED <<fileVars, arm, fallback, up, poolVars, countVars>>

(* A variant that counts the arm before it looks at the failure. *)
AfterArmEager ==
  /\ arm' = arm + 1
  /\ stage' = IF failing THEN "failed"
              ELSE IF armCancelled \/ spendStopped THEN "ended" ELSE "head"

AfterArm ==
  IF failing THEN stage' = "failed" /\ UNCHANGED arm
  ELSE IF armCancelled \/ spendStopped THEN stage' = "ended" /\ UNCHANGED arm
  ELSE stage' = "head" /\ arm' = arm + 1

(* A variant that stops the server of an arm only if the arm succeeds. *)
CloseOnSuccess ==
  /\ stage = "closing"
  /\ up' = IF arm \in ReusedArms \/ failing THEN up ELSE up \ {arm}
  /\ AfterArm
  /\ UNCHANGED <<fileVars, failing, fallback, poolVars, countVars>>

(* The finally block stops a server that the rig started. *)
Close ==
  /\ stage = "closing"
  /\ up' = IF arm \in ReusedArms THEN up ELSE up \ {arm}
  /\ AfterArm
  /\ UNCHANGED <<fileVars, failing, fallback, poolVars, countVars>>

EndFailed ==
  /\ stage = "failed"
  /\ stage' = "over"
  /\ status' = "failed"
  /\ published' = completed
  /\ UNCHANGED <<arm, failing, fallback, up, poolVars, countVars>>

EndCancelled ==
  /\ stage = "ended" /\ status = "cancelled"
  /\ stage' = "over"
  /\ published' = completed
  /\ UNCHANGED <<status, arm, failing, fallback, up, poolVars, countVars>>

EndDone ==
  /\ stage = "ended" /\ status # "cancelled"
  /\ stage' = "over"
  /\ status' = "done"
  /\ published' = completed
  /\ UNCHANGED <<arm, failing, fallback, up, poolVars, countVars>>

-----------------------------------------------------------------------------
(* The workers of the current arm. *)

MustStop == armCancelled \/ spendStopped \/ status = "cancelled"

StopWorker(w) ==
  /\ at[w] = "check"
  /\ MustStop
  /\ armCancelled' = TRUE
  /\ at' = [at EXCEPT ![w] = "finished"]
  /\ UNCHANGED <<fileVars, loopVars, queue, hand, countVars>>

QueueEmpty(w) ==
  /\ at[w] = "check"
  /\ ~MustStop
  /\ queue = {}
  /\ at' = [at EXCEPT ![w] = "finished"]
  /\ UNCHANGED <<fileVars, loopVars, queue, hand, armCancelled, countVars>>

(* Variants: the item stays in the queue; the spend stop is for arms only. *)
TakePeek(w) ==
  /\ at[w] = "check"
  /\ ~MustStop
  /\ \E i \in queue :
       /\ \A j \in queue : i <= j
       /\ hand' = [hand EXCEPT ![w] = i]
       /\ queue' = IF \E v \in Workers : at[v] = "rollout" THEN queue ELSE queue \ {i}
  /\ at' = [at EXCEPT ![w] = "rollout"]
  /\ UNCHANGED <<fileVars, loopVars, armCancelled, countVars>>

TakeDespiteSpend(w) ==
  /\ at[w] = "check"
  /\ ~(armCancelled \/ status = "cancelled")
  /\ \E i \in queue :
       /\ \A j \in queue : i <= j
       /\ queue' = queue \ {i}
       /\ hand' = [hand EXCEPT ![w] = i]
  /\ at' = [at EXCEPT ![w] = "rollout"]
  /\ UNCHANGED <<fileVars, loopVars, armCancelled, countVars>>

(* Dequeue, advertise the item on the request file, start the rollout. *)
Take(w) ==
  /\ at[w] = "check"
  /\ ~MustStop
  /\ \E i \in queue :
       /\ \A j \in queue : i <= j
       /\ queue' = queue \ {i}
       /\ hand' = [hand EXCEPT ![w] = i]
  /\ at' = [at EXCEPT ![w] = "rollout"]
  /\ UNCHANGED <<fileVars, loopVars, armCancelled, countVars>>

(* recordSpend: the run stops at twice the stop-loss.  The warning at once  *)
(* the stop-loss is an event only.                                         *)
RecordSpend(cost) ==
  /\ spent' = spent + cost
  /\ spendStopped' = \/ spendStopped
                     \/ (StopLoss # None /\ cost > 0 /\ spent' >= 2 * StopLoss)

AppendRow(w) == rows' = [rows EXCEPT ![<<arm, hand[w]>>] = @ + 1]

(* A variant in which a failed append is not noticed. *)
RecordUnwritten(w, cost) ==
  /\ at[w] = "rollout"
  /\ AppendRow(w) \/ (CanThrow /\ UNCHANGED rows)
  /\ RecordSpend(cost)
  /\ completed' = completed + 1
  /\ published' = completed'
  /\ at' = [at EXCEPT ![w] = "check"]
  /\ hand' = [hand EXCEPT ![w] = 0]
  /\ UNCHANGED <<status, loopVars, queue, armCancelled>>

(* The row, the spend, the count, the progress on the request file. *)
Record(w, cost) ==
  /\ at[w] = "rollout"
  /\ AppendRow(w)
  /\ RecordSpend(cost)
  /\ completed' = completed + 1
  /\ published' = completed'
  /\ at' = [at EXCEPT ![w] = "check"]
  /\ hand' = [hand EXCEPT ![w] = 0]
  /\ UNCHANGED <<status, loopVars, queue, armCancelled>>

(* The runner's promise settles; only a recorded cost counts. *)
Settle(w) == \E cost \in 0..MaxCost : Record(w, cost)

(* A variant that awaits the runner without a race. *)
TimeoutUnset(w) == FALSE

(* The timer wins the race, or the runner throws: a row without a cost. *)
Timeout(w) == Record(w, 0)

(* An append or a write throws: on the way to the rollout, before the row,  *)
(* or after it.                                                            *)
TakeThrows(w) ==
  /\ CanThrow
  /\ at[w] = "check"
  /\ ~MustStop
  /\ \E i \in queue : (\A j \in queue : i <= j) /\ queue' = queue \ {i}
  /\ at' = [at EXCEPT ![w] = "thrown"]
  /\ UNCHANGED <<fileVars, loopVars, hand, armCancelled, countVars>>

RecordThrows(w) ==
  /\ CanThrow
  /\ at[w] = "rollout"
  /\ at' = [at EXCEPT ![w] = "thrown"]
  /\ hand' = [hand EXCEPT ![w] = 0]
  /\ \/ UNCHANGED countVars
     \/ /\ AppendRow(w)
        /\ \E cost \in 0..MaxCost : RecordSpend(cost)
        /\ completed' \in {completed, completed + 1}
  /\ UNCHANGED <<fileVars, loopVars, queue, armCancelled>>

-----------------------------------------------------------------------------
LoopStep ==
  \/ LeaveLoop \/ GatewayArm \/ PredictedOom \/ Serve \/ Served \/ ServeFailed
  \/ SpawnError \/ LoopThrows \/ PoolOver \/ Close \/ EndFailed \/ EndCancelled \/ EndDone

LoopFree == \A w \in Workers : at[w] # "check"

Resumed(w) == Timeout(w) \/ Settle(w) \/ RecordThrows(w)

(* A crashed process takes its workers with it; one that has returned does  *)
(* not: the watch daemon goes on to the next request.                      *)
Process ==
  /\ stage # "crashed"
  /\ \/ LoopFree /\ LoopStep
     \/ \E w \in Workers :
          \/ StopWorker(w) \/ QueueEmpty(w) \/ Take(w) \/ TakeThrows(w)
          \/ LoopFree /\ Resumed(w)

Next == Cancel \/ Process

Spec == Init /\ [][Next]_vars

(* The event loop runs on; the start and the stop of a server have a        *)
(* deadline, and so has every rollout.  Nobody owes a runner that settles. *)
Running(w) == StopWorker(w) \/ QueueEmpty(w) \/ Take(w) \/ (LoopFree /\ Timeout(w))

FairSpec ==
  /\ Spec
  /\ WF_vars(LoopFree /\ LoopStep)
  /\ \A w \in Workers : WF_vars(stage # "crashed" /\ Running(w))
-----------------------------------------------------------------------------
(* Properties. *)

Active == \E w \in Workers : at[w] \in {"check", "rollout"}

TypeOK ==
  /\ status \in {"running", "cancelled", "failed", "done"}
  /\ published \in Nat
  /\ stage \in {"head", "serving", "pool", "closing", "failed", "ended", "over", "crashed"}
  /\ arm \in 1..(NumArms + 1)
  /\ stage \in {"pool", "closing"} => arm \in Arms
  /\ stage = "serving" => arm \in LocalArms
  /\ failing \in BOOLEAN
  /\ fallback \subseteq LocalArms
  /\ up \subseteq LocalArms
  /\ queue \subseteq Nat
  /\ Active => arm \in Arms /\ queue \subseteq 1..ItemsOf[arm]
  /\ at \in [Workers -> Places]
  /\ hand \in [Workers -> Nat]
  /\ \A w \in Workers : at[w] = "rollout" => <<arm, hand[w]>> \in Work
  /\ armCancelled \in BOOLEAN /\ spendStopped \in BOOLEAN
  /\ spent \in Nat /\ completed \in Nat
  /\ rows \in [Work -> Nat]

(* The strengthening of OneRowPerItem: an item that waits or is in a         *)
(* worker's hand has no row, nor has one of an arm to come, and the loop is *)
(* not at an arm while workers of another one are active.                   *)
Accounted ==
  /\ stage \in {"head", "serving"} => ~Active
  /\ stage = "closing" /\ ~failing => ~Active
  /\ \A k \in Work : rows[k] <= 1
  /\ \A k \in Work :
       k[1] > arm \/ (k[1] = arm /\ stage \in {"head", "serving"}) => rows[k] = 0
  /\ Active => \A i \in queue : rows[<<arm, i>>] = 0
  /\ \A w \in Workers :
       at[w] = "rollout" => hand[w] \notin queue /\ rows[<<arm, hand[w]>>] = 0
  /\ \A v, w \in Workers :
       at[v] = "rollout" /\ at[w] = "rollout" /\ hand[v] = hand[w] => v = w

(* No work item is evaluated twice, however the workers of an arm take turns *)
(* and whether or not one of them throws.                                   *)
OneRowPerItem == \A k \in Work : rows[k] <= 1

(* A run that is reported done has a row for every work item of every arm,  *)
(* unless the spend stop-loss ended it.                                     *)
DoneIsCompleteOrStopped ==
  status = "done" => spendStopped \/ \A k \in Work : rows[k] = 1

(* The strengthening of DoneIsCompleteOrStopped: the arms behind the loop    *)
(* are complete; an item of the arm at hand waits, is in a worker's hand or *)
(* has its row, unless a worker has thrown; and workers that leave items in *)
(* the queue have seen a reason to stop, which the run keeps.               *)
AThrow == \E w \in Workers : at[w] = "thrown"
InHand(i) == \E w \in Workers : at[w] = "rollout" /\ hand[w] = i
Completing ==
  /\ stage # "over" => status \in {"running", "cancelled"}
  /\ armCancelled => spendStopped \/ status \in {"cancelled", "failed"}
  /\ \A k \in Work : k[1] < arm => rows[k] = 1
  /\ stage \in {"pool", "closing"} =>
       /\ \A i \in 1..ItemsOf[arm] : i \in queue \/ InHand(i) \/ rows[<<arm, i>>] = 1 \/ AThrow
       /\ queue = {} \/ armCancelled \/ \E w \in Workers : at[w] # "finished"
  /\ stage = "closing" /\ ~failing => \A w \in Workers : at[w] = "finished"
  /\ stage = "ended" => arm > NumArms \/ armCancelled \/ spendStopped \/ status = "cancelled"
  /\ status = "done" => arm > NumArms \/ spendStopped

(* The progress that the request advertises never runs ahead of the rows that *)
(* are written, and when the run is reported done it is their number: no      *)
(* interleaving of workers that append, count and publish loses a count.     *)
Rowed == {k \in Work : rows[k] = 1}
ProgressCountsRows ==
  /\ published <= Cardinality(Rowed)
  /\ status = "done" => published = Cardinality(Rowed)

(* Both: what a run says of itself, it has rows for. *)
ReportHonest == DoneIsCompleteOrStopped /\ ProgressCountsRows

(* The strengthening of ProgressCountsRows: a count is only lost to a worker   *)
(* that throws, and then the run is not reported done.                      *)
Counting ==
  /\ IsFiniteSet(Rowed)
  /\ published <= completed /\ completed <= Cardinality(Rowed)
  /\ ~AThrow => completed = Cardinality(Rowed)
  /\ stage \in {"head", "serving", "ended"} => ~Active /\ ~AThrow
  /\ status = "done" => published = completed /\ stage = "over" /\ ~Active /\ ~AThrow

(* Workers that were rolling out when the spend reached twice the stop-loss  *)
(* finish, and nobody else starts: the recorded spend of a run stays within  *)
(* one rollout per worker of the limit, also after a worker has thrown and   *)
(* the others go on.                                                        *)
SpendBounded ==
  StopLoss # None => spent < 2 * StopLoss + Cardinality(Workers) * MaxCost

(* The strengthening of SpendBounded: what is recorded and what the rollouts *)
(* in flight can still add.                                                 *)
Rolling == {w \in Workers : at[w] = "rollout"}
SpendInFlight ==
  StopLoss # None =>
    /\ ~spendStopped => spent < 2 * StopLoss
    /\ spent + Cardinality(Rolling) * MaxCost
         < 2 * StopLoss + Cardinality(Workers) * MaxCost

(* The server that an arm was given runs whenever a rollout of the arm does, *)
(* as long as no worker has thrown.                                         *)
NeedsServer(w) == at[w] = "rollout" /\ arm \in LocalArms \ fallback
ServedUnlessThrown ==
  (\A w \in Workers : at[w] # "thrown") =>
    \A w \in Workers : NeedsServer(w) => arm \in up

(* Two local models are never resident at once, and no server that the rig   *)
(* started outlives the run, whichever way the run ends.                    *)
ServersStopped ==
  /\ Cardinality(up \ ReusedArms) <= 1
  /\ stage = "over" => up \subseteq ReusedArms

(* A local server lives as long as its arm, on every way out of the arm that   *)
(* stopModelServer is on.                                                   *)
ServerLifetime == ServedUnlessThrown /\ ServersStopped

(* The strengthening of ServerLifetime: only the arm at hand can have a server *)
(* of its own, and only workers that a throw left behind are active outside  *)
(* the pool.                                                                *)
Serving ==
  /\ up \ ReusedArms \subseteq {arm}
  /\ stage \notin {"pool", "closing"} => up \subseteq ReusedArms
  /\ stage = "pool" /\ arm \in LocalArms \ fallback => arm \in up
  /\ Active => stage = "pool" \/ AThrow

(* Every execution ends, also when a runner never settles, and leaves no    *)
(* worker behind for ever.                                                 *)
Ends ==
  <>(\/ stage = "crashed"
     \/ stage = "over" /\ \A w \in Workers : at[w] \in {"none", "finished", "thrown"})

=============================================================================
