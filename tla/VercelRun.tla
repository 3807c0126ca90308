----------------------------- MODULE VercelRun -----------------------------
(***************************************************************************)
(* runVercelConversation (src/src/runtime/conversation/vercel-runtime.ts):   *)
(* the parts of a model stream become events one by one, each written       *)
(* before the next part is read.  Three collections track tool calls:       *)
(* inputs that started to stream, calls that were written, and calls that   *)
(* were answered; on the way out by an abort, an error or an exception the  *)
(* ones left open are answered as failed.                                  *)
(*                                                                         *)
(* The stream is the AI SDK's.  A call has a result or an error only after  *)
(* it was made, and the stream finishes only when every call is answered.   *)
(* A provider announces the input of a call before the call, except for     *)
(* those in Unannounced.                                                   *)
(***************************************************************************)
EXTENDS PiSession

CONSTANTS
  StreamCalls,   \* tool calls of a Vercel stream
  Unannounced    \* those that arrive without a tool-input-start

ASSUME VercelAssumption == IsFiniteSet(StreamCalls) /\ Unannounced \subseteq StreamCalls

VARIABLE tools   \* pendingInputs, emittedCalls and resolvedCalls
VARIABLE parts   \* bound: text deltas so far

vercelVars == <<tools, parts>>

VercelPlaces == {"vercelOpen", "vercelStream", "vercelFails", "vercelAborts"}

NoTools == [inputs |-> {}, emitted |-> {}, resolved |-> {}]

VercelInit == tools = NoTools /\ parts = 0

Keep == UNCHANGED <<signal, open, adapterVars, sessionVars>>

VercelOpen ==
  /\ at = "vercelOpen"
  /\ at' = "vercelStream"
  /\ out' = Put(out, Message)
  /\ UNCHANGED vercelVars
  /\ Keep

TextPart ==
  /\ at = "vercelStream" /\ parts < MaxParts
  /\ parts' = parts + 1
  /\ out' = Put(out, Delta("assistant"))
  /\ UNCHANGED <<at, tools>>
  /\ Keep

InputPart(c) ==
  /\ at = "vercelStream"
  /\ c \notin Unannounced \cup tools.inputs
  /\ tools' = [tools EXCEPT !.inputs = @ \cup {c}]
  /\ UNCHANGED <<at, out, parts>>
  /\ Keep

CallPart(c) ==
  /\ at = "vercelStream"
  /\ c \in tools.inputs \cup Unannounced
  /\ c \notin tools.emitted
  /\ tools' = [tools EXCEPT !.emitted = @ \cup {c}]
  /\ out' = Put(out, ToolCall(c))
  /\ UNCHANGED <<at, parts>>
  /\ Keep

(* tool-result and tool-error. *)
ResultPart(c) ==
  /\ at = "vercelStream"
  /\ c \in tools.emitted \ tools.resolved
  /\ tools' = [tools EXCEPT !.resolved = @ \cup {c}]
  /\ out' = Put(out, ToolResult(c))
  /\ UNCHANGED <<at, parts>>
  /\ Keep

FinishPart ==
  /\ at = "vercelStream"
  /\ tools.emitted \subseteq tools.resolved
  /\ out' = Put(out, Usage("assistant"))
  /\ at' = "returned"
  /\ UNCHANGED vercelVars
  /\ Keep

(* The stream ends with an abort part, with an error part, or it throws. *)
StreamFails ==
  /\ at = "vercelStream"
  /\ \/ at' = "vercelFails"
     \/ signal /\ at' = "vercelAborts"
  /\ UNCHANGED <<out, vercelVars>>
  /\ Keep

(* flushPendingToolFailures: one input after the other that has no answer is *)
(* written as a call, unless it was, and answered; then the end is reported.  *)
Flushing == at \in {"vercelFails", "vercelAborts"}
UnansweredAll == tools.inputs
Unanswered == tools.inputs \ tools.resolved
Failing(o, c) ==
  Put(IF c \in tools.emitted THEN o ELSE Put(o, ToolCall(c)), ToolResult(c))

FlushInput(c) ==
  /\ Flushing /\ c \in Unanswered
  /\ out' = Failing(out, c)
  /\ tools' = [tools EXCEPT !.emitted = @ \cup {c}, !.resolved = @ \cup {c}]
  /\ UNCHANGED <<at, parts>>
  /\ Keep

StreamEnds ==
  /\ Flushing /\ Unanswered = {}
  /\ out' = Put(out, IF at = "vercelAborts" THEN Cancellation ELSE Fatal)
  /\ at' = "returned"
  /\ UNCHANGED vercelVars
  /\ Keep

VercelNext ==
  \/ VercelOpen \/ TextPart \/ FinishPart \/ StreamFails \/ StreamEnds
  \/ \E c \in StreamCalls : InputPart(c) \/ CallPart(c) \/ ResultPart(c) \/ FlushInput(c)
=============================================================================
