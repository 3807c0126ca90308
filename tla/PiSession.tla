----------------------------- MODULE PiSession -----------------------------
(***************************************************************************)
(* One run of a conversation as its runtime sees it: the client's stream,   *)
(* the abort signal, and attachCanonicalAdapter                            *)
(* (src/src/runtime/conversation/pi-runtime.ts), which turns the callbacks  *)
(* of a Pi agent session into events.  A callback does not write its event; *)
(* it appends it to a promise chain that drains by itself (queue), while    *)
(* the runtimes also write to the stream directly.                         *)
(*                                                                         *)
(* The agent session is a library.  Its part here is what the adapter       *)
(* relies on: a prompt streams a message, may run tools and stream another  *)
(* one, and settles; a tool that starts also ends; a message ends as        *)
(* aborted only if the session was told to abort.                          *)
(***************************************************************************)
EXTENDS RuntimeTrace, Sequences

CONSTANTS
  SessionCalls,  \* tool calls a Pi session may make
  MaxParts,      \* bound: text deltas, tool turns and compactions of a prompt
  MaxBacklog,    \* bound: queued events at which callbacks wait for the chain
  BadRequests    \* requests may fail to parse, name a forbidden target, ...

ASSUME SessionAssumption ==
  /\ IsFiniteSet(SessionCalls)
  /\ MaxParts \in Nat
  /\ MaxBacklog \in Nat
  /\ BadRequests \in BOOLEAN

VARIABLES
  at,         \* where the runtime is
  signal,     \* the run's AbortController has aborted
  open,       \* the client still reads
  out,        \* what was written to it
  queue,      \* the adapter's chain of events
  said,       \* its terminalEmitted
  stop,       \* its lastAssistantStopReason
  session,    \* the agent session
  listening,  \* an abort of the signal aborts the session
  aborting    \* session.abort() was called during this prompt

streamVars == <<open, out>>
adapterVars == <<queue, said, stop>>
sessionVars == <<session, listening, aborting>>

(* What the client has got: the state of a validating reader, the number of *)
(* student deltas and of nudges, the markers of verdicts, whether one came  *)
(* twice, and whether a recoverable error was reported.                    *)
NothingOut ==
  [seen |-> NewReader, student |-> 0, nudges |-> 0, labels |-> {}, relabelled |-> FALSE,
   excused |-> FALSE]

Written(o, e) ==
  LET verdict == e.name = "supervisor_verdict"
  IN [seen |-> Read(o.seen, e),
      student |-> IF e = Delta("student") THEN o.student + 1 ELSE o.student,
      nudges |-> IF verdict /\ e.what = "nudge" THEN o.nudges + 1 ELSE o.nudges,
      labels |-> IF verdict THEN o.labels \cup {e.id} ELSE o.labels,
      relabelled |-> o.relabelled \/ (verdict /\ e.id \in o.labels),
      excused |-> o.excused \/ e = Recoverable]

(* response.write, unless the client is gone. *)
Put(o, e) == IF open THEN Written(o, e) ELSE o

NoSession == [phase |-> "none", parts |-> 0, running |-> {}, used |-> {}]
Prompt(used) == [phase |-> "streaming", parts |-> 0, running |-> {}, used |-> used]
Settled == session.phase \in {"resolved", "rejected"}

SessionInit ==
  /\ signal = FALSE /\ open = TRUE /\ out = NothingOut
  /\ queue = <<>> /\ said = FALSE /\ stop = "none"
  /\ session = NoSession /\ listening = FALSE /\ aborting = FALSE

(* The chain writes its next event. *)
Drain ==
  /\ queue # <<>>
  /\ out' = Put(out, Head(queue))
  /\ queue' = Tail(queue)

(* A new session with its adapter, its abort listener and its first prompt. *)
OpenSession ==
  /\ session' = Prompt({})
  /\ listening' = TRUE /\ aborting' = FALSE
  /\ queue' = <<>> /\ said' = FALSE /\ stop' = "none"

CloseSession == session' = NoSession /\ listening' = FALSE /\ aborting' = FALSE

-----------------------------------------------------------------------------
(* The callbacks of a prompt and what the adapter does with them. *)

Room == Len(queue) <= MaxBacklog

OnDelta(role) ==
  /\ Room
  /\ session.phase = "streaming" /\ session.parts < MaxParts
  /\ session' = [session EXCEPT !.parts = @ + 1]
  /\ queue' = Append(queue, Delta(role))
  /\ UNCHANGED <<said, stop, listening, aborting>>

(* message_end of an assistant message.  A context overflow is an error     *)
(* that Pi answers with a compaction, so it is not reported.               *)
OnMessageEnd(role, plannedAbort) ==
  /\ Room
  /\ session.phase = "streaming"
  /\ \E reason \in {"stop", "length", "toolUse", "error", "overflow", "aborted"} :
       LET cancelled == reason = "aborted" /\ ~plannedAbort
           broken == reason = "error"
       IN /\ reason = "aborted" => aborting
          /\ reason = "toolUse" => SessionCalls \ session.used # {} /\ session.parts < MaxParts
          /\ stop' = IF reason = "overflow" THEN "error" ELSE reason
          /\ said' = (said \/ cancelled \/ broken)
          /\ queue' = queue \o (CASE cancelled -> <<Usage(role), Cancellation>>
                                 [] broken -> <<Usage(role), Fatal>>
                                 [] OTHER -> <<Usage(role)>>)
          /\ session' = IF reason = "toolUse"
                        THEN [session EXCEPT !.phase = "tools", !.parts = @ + 1]
                        ELSE [session EXCEPT !.phase = "ended"]
  /\ UNCHANGED <<listening, aborting>>

OnToolStart(c) ==
  /\ Room
  /\ session.phase = "tools" /\ c \notin session.used
  /\ session' = [session EXCEPT !.running = @ \cup {c}, !.used = @ \cup {c}]
  /\ queue' = Append(queue, ToolCall(c))
  /\ UNCHANGED <<said, stop, listening, aborting>>

OnToolEnd(c) ==
  /\ Room
  /\ c \in session.running
  /\ session' = [session EXCEPT !.running = @ \ {c}]
  /\ queue' = Append(queue, ToolResult(c))
  /\ UNCHANGED <<said, stop, listening, aborting>>

(* The library streams the next message of the turn. *)
NextMessage ==
  /\ session.phase = "tools" /\ session.running = {}
  /\ session' = [session EXCEPT !.phase = "streaming"]
  /\ UNCHANGED <<adapterVars, listening, aborting>>

(* compaction_end, unless the message failed; after an overflow Pi may try    *)
(* the message again.                                                      *)
OnCompaction ==
  /\ Room
  /\ session.phase = "ended" /\ ~said /\ session.parts < MaxParts
  /\ queue' = Append(queue, Compaction)
  /\ \E phase \in IF stop = "error" THEN {"ended", "streaming"} ELSE {"ended"} :
       session' = [session EXCEPT !.parts = @ + 1, !.phase = phase]
  /\ UNCHANGED <<said, stop, listening, aborting>>

(* session.prompt resolves, or rejects. *)
PromptSettles ==
  /\ \/ /\ session.phase = "ended"
        /\ session' = [session EXCEPT !.phase = "resolved"]
     \/ /\ session.phase \in {"streaming", "ended"}
        /\ session' = [session EXCEPT !.phase = "rejected"]
  /\ UNCHANGED <<adapterVars, listening, aborting>>

Callback(role, plannedAbort) ==
  \/ OnMessageEnd(role, plannedAbort)
  \/ \E c \in SessionCalls : OnToolStart(c) \/ OnToolEnd(c)
  \/ NextMessage
  \/ OnCompaction
  \/ PromptSettles

(* DELETE, a client that hangs up, or a runtime that stops: the controller   *)
(* aborts, and with it the session if its listener is there.               *)
Abort ==
  /\ signal' = TRUE
  /\ aborting' = (aborting \/ (listening /\ session.phase \in {"streaming", "tools", "ended"}))
  /\ UNCHANGED <<out, adapterVars, session, listening>>
=============================================================================
