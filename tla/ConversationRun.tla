-------------------------- MODULE ConversationRun --------------------------
(***************************************************************************)
(* One POST /v1/runs of the conversation sidecar, from the dispatch to the   *)
(* end of its response (src/src/runtime/conversation/sidecar.ts), whichever  *)
(* runtime it is for.  A runtime that throws is reported by the sidecar.    *)
(***************************************************************************)
EXTENDS PiRun, SupervisedRun, VercelRun

CONSTANT Backends   \* runtimes a request may ask for

Starts == [pi |-> "piCreate", supervised |-> "supervisedOpen", vercel |-> "vercelOpen"]

ASSUME BackendAssumption == Backends \subseteq DOMAIN Starts

VARIABLE backend   \* the runtime of this run

vars == <<backend, at, signal, streamVars, adapterVars, sessionVars,
          piVars, supervisedVars, vercelVars>>

Places == PiPlaces \cup SupervisedPlaces \cup VercelPlaces \cup {"returned", "thrown", "done"}

Init ==
  /\ backend \in Backends
  /\ at = Starts[backend]
  /\ SessionInit /\ PiInit /\ SupervisedInit /\ VercelInit

PiStep == PiNext /\ UNCHANGED <<backend, supervisedVars, vercelVars>>
SupervisedStep == SupervisedNext /\ UNCHANGED <<backend, piVars, vercelVars>>
SupervisorStep == Supervisor /\ UNCHANGED <<backend, piVars, vercelVars>>
VercelStep == VercelNext /\ UNCHANGED <<backend, piVars, supervisedVars>>

ChainStep ==
  /\ Drain
  /\ UNCHANGED <<backend, at, signal, open, said, stop, sessionVars, piVars, supervisedVars,
                 vercelVars>>

(* The request does not parse, or its target is not allowed. *)
Refuse ==
  /\ BadRequests
  /\ at = Starts[backend]
  /\ at' = "thrown"
  /\ UNCHANGED <<backend, signal, streamVars, adapterVars, sessionVars, piVars, supervisedVars,
                 vercelVars>>

(* The catch block of the handler, and the end of the response. *)
Finish ==
  /\ at \in {"returned", "thrown"}
  /\ at' = "done"
  /\ out' = IF at = "thrown" THEN Put(out, Fatal) ELSE out
  /\ UNCHANGED <<backend, signal, open, adapterVars, sessionVars, piVars, supervisedVars,
                 vercelVars>>

(* A run that returns or throws gets to its end without an I/O in between. *)
Ongoing == at \notin {"returned", "thrown", "done"}

(* DELETE /v1/runs/<id> and the shutdown of the sidecar. *)
Cancel ==
  /\ Ongoing /\ ~signal
  /\ Abort
  /\ UNCHANGED <<backend, at, open, piVars, supervisedVars, vercelVars>>

(* The response closes before it was ended. *)
Disconnect ==
  /\ Ongoing /\ open
  /\ open' = FALSE
  /\ Abort
  /\ UNCHANGED <<backend, at, piVars, supervisedVars, vercelVars>>

Next ==
  \/ PiStep \/ SupervisedStep \/ SupervisorStep \/ VercelStep
  \/ ChainStep \/ Refuse \/ Finish \/ Cancel \/ Disconnect

Spec == Init /\ [][Next]_vars

(* The model's and the library's part of a run go on; a supervisor need not *)
(* answer.                                                                 *)
FairSpec ==
  /\ Spec
  /\ WF_vars(PiStep) /\ WF_vars(SupervisedStep) /\ WF_vars(VercelStep)
  /\ WF_vars(ChainStep) /\ WF_vars(Finish)

-----------------------------------------------------------------------------
TypeOK ==
  /\ backend \in Backends
  /\ at \in Places
  /\ signal \in BOOLEAN /\ open \in BOOLEAN /\ said \in BOOLEAN
  /\ listening \in BOOLEAN /\ aborting \in BOOLEAN
  /\ out.seen.faults \subseteq Faults
  /\ out.student \in Nat /\ out.nudges \in 0..MaxNudges
  /\ stop \in {"none", "stop", "length", "toolUse", "error", "aborted"}
  /\ session.phase \in {"none", "streaming", "tools", "ended", "resolved", "rejected"}
  /\ session.running \subseteq session.used /\ session.used \subseteq SessionCalls
  /\ continuations \in 0..MaxContinuations
  /\ run.nudges \in 0..MaxNudges /\ run.markers \in Nat
  /\ segment.checked \in 0..segment.partial
  /\ segment.judging \in {NoCheck} \cup 0..(run.boundaries - 1)
  /\ segment.decision \in Verdicts \cup {"none"}
  /\ tools.resolved \subseteq tools.emitted \cup tools.inputs

(* A Vercel trace passes validateRuntimeTrace as a whole, whatever way the   *)
(* stream ended, but for calls that arrived without an announced input:     *)
(* flushPendingToolFailures does not know those.                           *)
VercelTraceValid ==
  backend = "vercel" =>
    /\ out.seen.faults = {}
    /\ at = "done" /\ open => out.seen.pending \subseteq {CallId(c) : c \in Unannounced}

(* A Pi trace, supervised or not, may at worst go on after a terminal event: *)
(* each tool result answers a call, an interruption names a verdict that was *)
(* written before, a continuation names an interruption.                   *)
PiTraceCited == backend # "vercel" => out.seen.faults \subseteq {"follows_terminal"}

(* What validateRuntimeTrace asks of each runtime, as far as the runtime grants *)
(* it on every way its streams can end.                                    *)
TracesAccepted == VercelTraceValid /\ PiTraceCited

(* Every verdict has a marker of its own, over all segments and both phases  *)
(* of judging (supervisorDecisionMarker).                                  *)
MarkersStable == ~out.relabelled

(* What the teacher is given as the partial answer is what the client saw    *)
(* of the student: nothing of it is still queued, and nothing is added.     *)
TeacherSeesAnswer ==
  at \in {"teacherCreate", "teacher", "teacherFlush"} /\ open => run.total = out.student

(* A student run that was stopped by the user, or failed with nobody having  *)
(* judged it, tells the client so.                                         *)
StudentEndReported ==
  /\ backend = "supervised" /\ at = "done" /\ open
  /\ out.seen.interrupted = {}
  /\ signal \/ (segment.failed /\ segment.decision = "none")
  => out.seen.terminal

(* A Pi answer that is cut at the output limit is never passed off as whole:  *)
(* also when a continuation fails, or was aborted, an error says so.        *)
TruncationReported ==
  backend = "pi" /\ at = "done" /\ open /\ Truncated => out.seen.terminal \/ out.excused

(* How a run ended is never hidden from its client, by either Pi runtime. *)
EndReported == StudentEndReported /\ TruncationReported

(* A run that is cancelled comes to its end, though its supervisor may never *)
(* answer.                                                                 *)
CancelledRunEnds == signal ~> (at = "done")

(* contract.ts: "events cannot follow a terminal cancellation/error". *)
NothingFollowsTerminal == "follows_terminal" \notin out.seen.faults
=============================================================================
