------------------------------- MODULE PiRun -------------------------------
(***************************************************************************)
(* runPiConversation without supervision                                   *)
(* (src/src/runtime/conversation/pi-runtime.ts): one persistent session, a   *)
(* compaction before the prompt when the history is long, and up to         *)
(* MaxContinuations further prompts when the model stops at its output      *)
(* limit.                                                                  *)
(***************************************************************************)
EXTENDS PiSession

CONSTANT MaxContinuations   \* MAX_LENGTH_CONTINUATIONS

ASSUME PiRunAssumption == MaxContinuations \in Nat

VARIABLE continuations   \* prompts that asked the model to continue

piVars == <<continuations>>

PiPlaces == {"piCreate", "piCompact", "piPrompt", "piFlush"}

PiInit == continuations = 0

(* createPiRuntimeSession awaits files and the library; the input is written *)
(* and the abort listener added after it.                                  *)
PiCreate ==
  /\ at = "piCreate"
  /\ OpenSession
  /\ out' = Put(out, Message)
  /\ \E next \in {"piCompact", "piPrompt"} : at' = next
  /\ UNCHANGED <<signal, open, continuations>>

PiCreateThrows ==
  /\ at = "piCreate"
  /\ at' = "thrown"
  /\ UNCHANGED <<signal, streamVars, adapterVars, sessionVars, continuations>>

(* The catch block: it writes to the stream directly, and not to the chain. *)
PiFails ==
  /\ out' = IF said THEN out ELSE Put(out, IF signal THEN Cancellation ELSE Fatal)
  /\ at' = "piFlush"

(* session.compact before the prompt. *)
PiCompacts ==
  /\ at = "piCompact"
  /\ \/ /\ queue' = Append(queue, Compaction)
        /\ at' = "piPrompt"
        /\ session' = Prompt({}) /\ aborting' = FALSE
        /\ UNCHANGED out
     \/ /\ PiFails
        /\ UNCHANGED <<queue, session, aborting>>
  /\ UNCHANGED <<signal, open, said, stop, listening, continuations>>

PiCallback ==
  /\ at = "piPrompt"
  /\ OnDelta("assistant") \/ Callback("assistant", FALSE)
  /\ UNCHANGED <<at, signal, streamVars, continuations>>

(* The prompt stopped at the output limit and may be continued. *)
Truncated == stop = "length"
MayContinueForEver == ~signal /\ Truncated
MayContinue == ~signal /\ Truncated /\ continuations < MaxContinuations

PiContinue ==
  /\ at = "piPrompt" /\ Settled /\ MayContinue
  /\ continuations' = continuations + 1
  /\ session' = Prompt(session.used) /\ aborting' = FALSE
  /\ UNCHANGED <<at, signal, streamVars, adapterVars, listening>>

PiPromptedQuietly ==
  /\ at = "piPrompt" /\ Settled /\ ~MayContinue
  /\ \/ /\ session.phase = "rejected" /\ ~said /\ ~Truncated
        /\ PiFails
        /\ UNCHANGED <<queue, said>>
     \/ /\ session.phase = "rejected" /\ Truncated /\ ~said
        /\ queue' = Append(queue, Recoverable) /\ said' = TRUE
        /\ at' = "piFlush"
        /\ UNCHANGED out
     \/ /\ said \/ session.phase = "resolved"
        /\ at' = "piFlush"
        /\ UNCHANGED <<out, queue, said>>
  /\ UNCHANGED <<signal, open, stop, sessionVars, continuations>>

(* The end of the last prompt.  What is still queued when the catch block   *)
(* writes comes after it.                                                  *)
PiPrompted ==
  /\ at = "piPrompt" /\ Settled /\ ~MayContinue
  /\ \/ /\ session.phase = "rejected" /\ ~said /\ ~Truncated
        /\ PiFails
        /\ UNCHANGED <<queue, said>>
     \/ /\ Truncated /\ ~said
        /\ queue' = Append(queue, Recoverable) /\ said' = TRUE
        /\ at' = "piFlush"
        /\ UNCHANGED out
     \/ /\ said \/ (session.phase = "resolved" /\ ~Truncated)
        /\ at' = "piFlush"
        /\ UNCHANGED <<out, queue, said>>
  /\ UNCHANGED <<signal, open, stop, sessionVars, continuations>>

PiFlushed ==
  /\ at = "piFlush" /\ queue = <<>>
  /\ at' = "returned"
  /\ CloseSession
  /\ UNCHANGED <<signal, streamVars, adapterVars, continuations>>

PiNext ==
  \/ PiCreate \/ PiCreateThrows \/ PiCompacts \/ PiCallback
  \/ PiContinue \/ PiPrompted \/ PiFlushed
=============================================================================
