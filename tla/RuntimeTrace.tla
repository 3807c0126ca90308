---------------------------- MODULE RuntimeTrace ----------------------------
(***************************************************************************)
(* The ordered event contract of the conversation runtimes                 *)
(* (src/src/runtime/conversation/contract.ts): the events a runtime writes *)
(* and the state of a reader that validates them one after the other, as   *)
(* validateRuntimeTrace does.  The validator throws at the first fault; a  *)
(* reader here collects every fault it meets, so that properties can tell  *)
(* one from another.                                                       *)
(*                                                                         *)
(* Sequence numbers and event ids are left out: RuntimeEventWriter counts   *)
(* them, and an event is written in the step that counts it.               *)
(***************************************************************************)
EXTENDS Naturals, FiniteSets

(* An event: its name, what the validator or a property looks at, and the   *)
(* call id or marker id it carries.                                        *)
Event(name, what, id) == [name |-> name, what |-> what, id |-> id]

NoId == <<"none", 0>>
CallId(c) == <<"call", c>>
(* supervisorDecisionMarker: interventions count one series of markers,    *)
(* every other verdict takes the ordinal of its boundary.                  *)
InterventionMarker(n) == <<"intervention", n>>
VerdictMarker(n) == <<"verdict", n>>

Interventions == {"interrupt", "nudge"}
Verdicts == Interventions \cup {"continue", "stop"}

Message == Event("message", "user", NoId)
Delta(role) == Event("delta", role, NoId)
Usage(role) == Event("usage", role, NoId)
ToolCall(c) == Event("tool_call", "call", CallId(c))
ToolResult(c) == Event("tool_result", "result", CallId(c))
Verdict(v, marker) == Event("supervisor_verdict", v, marker)
Interruption(marker) == Event("student_interruption", "student", marker)
Continuation(marker) == Event("teacher_continuation", "teacher", marker)
Compaction == Event("compaction_boundary", "session", NoId)
Cancellation == Event("cancellation", "cancelled", NoId)
Fatal == Event("error", "fatal", NoId)
Recoverable == Event("error", "recoverable", NoId)

Faults == {"follows_terminal", "duplicate_call", "orphaned_result",
           "uncited_interruption", "uncited_continuation"}

(* pending: calls without a result; marked and interrupted: markers of      *)
(* interventions and of interruptions; terminal: nothing may follow.       *)
NewReader ==
  [pending |-> {}, marked |-> {}, interrupted |-> {}, terminal |-> FALSE, faults |-> {}]

FaultsOf(reader, e) ==
  {f \in Faults :
     \/ f = "follows_terminal" /\ reader.terminal
     \/ f = "duplicate_call" /\ e.name = "tool_call" /\ e.id \in reader.pending
     \/ f = "orphaned_result" /\ e.name = "tool_result" /\ e.id \notin reader.pending
     \/ /\ f = "uncited_interruption"
        /\ e.name = "student_interruption" /\ e.id \notin reader.marked
     \/ /\ f = "uncited_continuation"
        /\ e.name = "teacher_continuation" /\ e.id \notin reader.interrupted}

Read(reader, e) ==
  [pending |-> CASE e.name = "tool_call" -> reader.pending \cup {e.id}
                 [] e.name = "tool_result" -> reader.pending \ {e.id}
                 [] OTHER -> reader.pending,
   marked |-> IF e.name = "supervisor_verdict" /\ e.what \in Interventions
              THEN reader.marked \cup {e.id} ELSE reader.marked,
   interrupted |-> IF e.name = "student_interruption"
                   THEN reader.interrupted \cup {e.id} ELSE reader.interrupted,
   terminal |-> \/ e.name = "cancellation"
                \/ e.name = "error" /\ e.what = "fatal"
                \/ reader.terminal /\ e.name # "error",
   faults |-> reader.faults \cup FaultsOf(reader, e)]

(* What validateRuntimeTrace accepts as a whole. *)
Valid(reader) == reader.faults = {} /\ reader.pending = {}
=============================================================================
