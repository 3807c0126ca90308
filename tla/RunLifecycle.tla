---------------------------- MODULE RunLifecycle ----------------------------
(***************************************************************************)
(* What a benchmark run promises to whoever queued it: the state machine   *)
(* that the comment on executeRunRequest states (src/src/run-executor.ts), *)
(*     queued -> running -> done | failed | cancelled,                     *)
(* with cancellation offered for a queued or a running request only, and a *)
(* run reported done only when every work item it selected has its row.    *)
(* From the moment when somebody asks for a cancellation nothing is        *)
(* promised here: the canceller writes an older file over a newer one, and *)
(* an executor may do the same to it.  RunQueue is the protocol on files   *)
(* that is to implement it.                                                *)
(***************************************************************************)
EXTENDS Integers

CONSTANTS
  Requests,   \* run ids
  Total       \* work items of one run

VARIABLES
  phase,      \* phase[r]: "absent", the status of the request, or "withdrawn"
  reported    \* reported[r]: the progress that the request advertises, until
              \* it is withdrawn

vars == <<phase, reported>>

Init ==
  /\ phase = [r \in Requests |-> "absent"]
  /\ reported = [r \in Requests |-> 0]

Become(r, p) == phase' = [phase EXCEPT ![r] = p]

Queue(r) ==
  /\ phase[r] = "absent"
  /\ Become(r, "queued")
  /\ UNCHANGED reported

Start(r) ==
  /\ phase[r] = "queued"
  /\ Become(r, "running")
  /\ UNCHANGED reported

(* Progress advances one work item at a time, and only while running. *)
Advance(r) ==
  /\ phase[r] = "running"
  /\ reported[r] < Total
  /\ reported' = [reported EXCEPT ![r] = @ + 1]
  /\ UNCHANGED phase

Finish(r) ==
  /\ phase[r] = "running"
  /\ reported[r] = Total
  /\ Become(r, "done")
  /\ UNCHANGED reported

(* A failing run publishes the work items it had finished, at most one of   *)
(* which it had not published yet.                                         *)
Fail(r) ==
  /\ phase[r] \in {"queued", "running"}
  /\ Become(r, "failed")
  /\ \/ UNCHANGED reported
     \/ reported[r] < Total /\ reported' = [reported EXCEPT ![r] = @ + 1]

Withdraw(r) ==
  /\ phase[r] \in {"queued", "running"}
  /\ Become(r, "withdrawn")
  /\ reported' = [reported EXCEPT ![r] = 0]

Next ==
  \E r \in Requests :
    Queue(r) \/ Start(r) \/ Advance(r) \/ Finish(r) \/ Fail(r) \/ Withdraw(r)

Spec == Init /\ [][Next]_vars
=============================================================================
