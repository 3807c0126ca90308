-------------------------- MODULE ConversationProofs --------------------------
(***************************************************************************)
(* Theorems about ConversationRun, for any number of tool calls, deltas,     *)
(* nudges, continuations and queued events: its types, and what its runs     *)
(* check of traces, markers, the teacher's input and the ends of runs.      *)
(* Each needs an invariant of its own, stated first, of what is written to   *)
(* the client or still in the chain.                                       *)
(***************************************************************************)
EXTENDS ConversationRun, SequenceTheorems, FiniteSetTheorems, TLAPS

(* Types, with those of the chain of events, which TypeOK need not mention. *)
Roles == {"assistant", "student", "teacher"}
MarkerIds == {InterventionMarker(n) : n \in Nat} \cup {VerdictMarker(n) : n \in Nat}
Chained ==
  {Delta(r) : r \in Roles} \cup {Usage(r) : r \in Roles \cup {"supervisor"}}
  \cup {ToolCall(c) : c \in SessionCalls} \cup {ToolResult(c) : c \in SessionCalls}
  \cup {Compaction, Cancellation, Fatal, Recoverable}
  \cup {Verdict(v, m) : v \in Verdicts, m \in MarkerIds}

SessionType ==
  [phase : {"none", "streaming", "tools", "ended", "resolved", "rejected"}, parts : Nat,
   running : SUBSET SessionCalls, used : SUBSET SessionCalls]
SegmentType ==
  [partial : Nat, checked : Nat, asked : BOOLEAN, judging : Nat \cup {NoCheck},
   decision : Verdicts \cup {"none"}, marker : MarkerIds \cup {NoId},
   planned : BOOLEAN, failed : BOOLEAN, completed : BOOLEAN]
RunType == [total : Nat, markers : Nat, boundaries : Nat, nudges : 0..MaxNudges]
ToolsType == [inputs : SUBSET StreamCalls, emitted : SUBSET StreamCalls, resolved : SUBSET StreamCalls]

Typed ==
  /\ backend \in Backends /\ at \in Places
  /\ signal \in BOOLEAN /\ open \in BOOLEAN /\ said \in BOOLEAN
  /\ listening \in BOOLEAN /\ aborting \in BOOLEAN
  /\ stop \in {"none", "stop", "length", "toolUse", "error", "aborted"}
  /\ queue \in Seq(Chained)
  /\ session \in SessionType /\ segment \in SegmentType /\ run \in RunType /\ tools \in ToolsType
  /\ continuations \in 0..MaxContinuations
  /\ parts \in Nat

(* What is known at each place: a runtime stays at its own places, only some   *)
(* of them have a session and a chain, no tool runs when a prompt has settled. *)
WithSession ==
  {"piCompact", "piPrompt", "piFlush", "student", "studentSettled", "finalCheck",
   "teacher", "teacherFlush"}
AtPlace ==
  /\ backend = "pi" => at \in PiPlaces \cup {"returned", "thrown", "done"}
  /\ backend = "supervised" => at \in SupervisedPlaces \cup {"returned", "thrown", "done"}
  /\ backend = "vercel" => at \in VercelPlaces \cup {"returned", "thrown", "done"}
  /\ at \notin WithSession => session = NoSession /\ queue = <<>>
  /\ session.running \subseteq session.used
  /\ session.phase # "tools" => session.running = {}
  /\ at \in {"piCompact", "piFlush", "studentSettled", "finalCheck", "teacherFlush"} =>
       session.running = {}
  /\ at \in {"piCreate", "piCompact"} => stop = "none"
  /\ at = "piCompact" => session.used = {} /\ ~said
  /\ segment.checked <= segment.partial
  /\ Judging => /\ at \in {"student", "studentSettled"} /\ segment.decision = "none"
                /\ segment.judging < run.boundaries
  /\ at = "finalCheck" => segment.decision = "none" /\ ~segment.failed /\ queue = <<>>
  /\ at \in {"student", "studentSettled"} /\ segment.decision = "nudge" => run.nudges < MaxNudges
  /\ tools.resolved \subseteq tools.emitted \cup tools.inputs

BaseInv == Typed /\ AtPlace

Slots == 1..Len(queue)
Queued(e) == \E i \in Slots : queue[i] = e
NotVercel == backend # "vercel"

(* Tool calls of a Pi session: a call and its result are written or queued    *)
(* once, the call first; one without a queued result runs.                 *)
CallsQueued ==
  \A c \in SessionCalls, i \in Slots : queue[i] = ToolCall(c) =>
    /\ c \in session.used /\ CallId(c) \notin out.seen.pending
    /\ c \in session.running \/ Queued(ToolResult(c))
ResultsQueued ==
  \A c \in SessionCalls, i \in Slots : queue[i] = ToolResult(c) =>
    /\ c \in session.used \ session.running
    /\ CallId(c) \in out.seen.pending \/ \E j \in Slots : j < i /\ queue[j] = ToolCall(c)
QueuedOnce ==
  \A c \in SessionCalls, i, j \in Slots :
    /\ queue[i] = ToolCall(c) /\ queue[j] = ToolCall(c) => i = j
    /\ queue[i] = ToolResult(c) /\ queue[j] = ToolResult(c) => i = j
    /\ queue[i] = ToolCall(c) /\ queue[j] = ToolResult(c) => i < j
CallsPending ==
  /\ out.seen.pending \subseteq {CallId(c) : c \in SessionCalls}
  /\ \A c \in SessionCalls :
       CallId(c) \in out.seen.pending => c \in session.running \/ Queued(ToolResult(c))
CallsRunning ==
  \A c \in session.running : CallId(c) \in out.seen.pending \/ Queued(ToolCall(c))
CallsCited ==
  NotVercel /\ open =>
    CallsQueued /\ ResultsQueued /\ QueuedOnce /\ CallsPending /\ CallsRunning

(* The verdict that a segment was stopped for is written or queued. *)
IsVerdict(e) == e.name = "supervisor_verdict"
Cites(e, m) == IsVerdict(e) /\ e.what \in Interventions /\ e.id = m
MarkerCited ==
  open /\ at \in {"student", "studentSettled"} /\ segment.decision \in Interventions =>
    segment.marker \in out.seen.marked \/ \E i \in Slots : Cites(queue[i], segment.marker)

FaultsKnown == NotVercel => out.seen.faults \subseteq {"follows_terminal"}

(* The calls of a Vercel stream. *)
StreamCited ==
  backend = "vercel" =>
    /\ out.seen.faults = {}
    /\ tools.emitted \subseteq tools.inputs \cup Unannounced
    /\ tools.resolved \subseteq tools.emitted
    /\ out.seen.terminal => at \in {"returned", "done"}
    /\ open => out.seen.pending = {CallId(c) : c \in tools.emitted \ tools.resolved}
    /\ at \in {"vercelOpen", "thrown"} => tools = NoTools
    /\ at \in {"returned", "done"} => tools.emitted \ tools.resolved \subseteq Unannounced

(* Markers: what was written or queued carries numbers that were given out.   *)
Unmarked ==
  \/ at \in {"supervisedOpen", "studentCreate"}
  \/ at \in {"student", "studentSettled", "finalCheck"} /\ segment.decision \notin Interventions
Given(m) ==
  \/ \E n \in 0..(run.boundaries - 1) : m = VerdictMarker(n) /\ n # segment.judging
  \/ \E n \in 0..run.markers : m = InterventionMarker(n) /\ (Unmarked => n < run.markers)
MarkersInv ==
  /\ ~out.relabelled
  /\ \A m \in out.labels : Given(m)
  /\ \A i \in Slots : IsVerdict(queue[i]) => Given(queue[i].id) /\ queue[i].id \notin out.labels
  /\ \A i, j \in Slots : IsVerdict(queue[i]) /\ IsVerdict(queue[j]) /\ queue[i].id = queue[j].id => i = j

(* The nudges that the client sees stay within the budget. *)
IsNudge(e) == IsVerdict(e) /\ e.what = "nudge"
NudgesInv ==
  /\ out.nudges \in Nat
  /\ \A i, j \in Slots : IsNudge(queue[i]) /\ IsNudge(queue[j]) => i = j
  /\ \A i \in Slots : IsNudge(queue[i]) =>
       at \in {"student", "studentSettled"} /\ segment.decision = "nudge" /\ out.nudges <= run.nudges
  /\ at \in {"supervisedOpen", "studentCreate", "finalCheck"} => out.nudges <= run.nudges
  /\ at \in {"student", "studentSettled"} =>
       out.nudges <= run.nudges + (IF segment.decision = "nudge" THEN 1 ELSE 0)
  /\ out.nudges <= MaxNudges

(* The student's answer, written or still queued, is what the run counts. *)
AnswerSlots == {i \in Slots : queue[i] = Delta("student")}
Partial == IF at \in {"student", "studentSettled", "finalCheck"} THEN segment.partial ELSE 0
AnswerInv ==
  /\ out.student \in Nat
  /\ backend = "supervised" /\ open /\ at \in SupervisedPlaces =>
       out.student + Cardinality(AnswerSlots) = run.total + Partial
  /\ at \in {"teacherCreate", "teacher", "teacherFlush"} => AnswerSlots = {}

(* What the adapter said is written or queued, and how a run ended with it. *)
Ending(e) == e \in {Cancellation, Fatal, Recoverable}
Told == out.seen.terminal \/ out.excused
SaidTold == NotVercel /\ open /\ said => Told \/ \E i \in Slots : Ending(queue[i])
NeverExcused == backend = "supervised" => ~out.excused /\ \A i \in Slots : queue[i] # Recoverable
HandedOver ==
  backend = "supervised" /\ open /\ at \in {"teacherCreate", "teacher", "teacherFlush"} =>
    out.seen.interrupted # {}
StudentTold ==
  /\ backend = "supervised" /\ open /\ at \in {"returned", "done"} /\ out.seen.interrupted = {}
  /\ signal \/ (segment.failed /\ segment.decision = "none")
  => out.seen.terminal
CutSaid == backend = "pi" /\ at = "piFlush" /\ Truncated => said
CutTold == backend = "pi" /\ open /\ at \in {"returned", "done"} /\ Truncated => Told
EndInv == SaidTold /\ NeverExcused /\ HandedOver /\ StudentTold /\ CutSaid /\ CutTold

-----------------------------------------------------------------------------
(* Lemmas about events and the chain. *)

LEMMA InitBase == Init => BaseInv
<1> SUFFICES ASSUME Init PROVE BaseInv OBVIOUS
<1> USE DEF Init, SessionInit, PiInit, SupervisedInit, VercelInit
<1>1. backend \in {"pi", "supervised", "vercel"} /\ at = Starts[backend]
  BY BackendAssumption DEF Starts
<1>2. /\ backend = "pi" => at = "piCreate"
      /\ backend = "supervised" => at = "supervisedOpen"
      /\ backend = "vercel" => at = "vercelOpen"
  BY <1>1 DEF Starts
<1>3. queue \in Seq(Chained) BY EmptySeq
<1>4. session \in SessionType /\ tools \in ToolsType
  BY DEF SessionType, ToolsType, NoSession, NoTools
<1>5. segment \in SegmentType /\ run \in RunType
  BY SupervisedAssumption DEF SegmentType, RunType, NewSegment, NewRun, NoCheck
<1>6. at \in Places BY <1>1, <1>2 DEF Places, PiPlaces, SupervisedPlaces, VercelPlaces
<1>7. Typed
  <2>1. continuations \in 0..MaxContinuations BY PiRunAssumption
  <2>2. parts \in Nat /\ signal \in BOOLEAN /\ open \in BOOLEAN /\ said \in BOOLEAN
        /\ listening \in BOOLEAN /\ aborting \in BOOLEAN
    OBVIOUS
  <2> QED BY <1>1, <1>3, <1>4, <1>5, <1>6, <2>1, <2>2 DEF Typed
<1>8. AtPlace
  BY <1>1, <1>2
    DEF AtPlace, PiPlaces, SupervisedPlaces, VercelPlaces, WithSession, NoSession, NewSegment,
      NewRun, NoTools, Judging, NoCheck
<1> QED BY <1>7, <1>8 DEF BaseInv

LEMMA ChainedEvents ==
  /\ \A r \in Roles : Delta(r) \in Chained /\ Usage(r) \in Chained
  /\ \A c \in SessionCalls : ToolCall(c) \in Chained /\ ToolResult(c) \in Chained
  /\ Usage("supervisor") \in Chained
  /\ Compaction \in Chained /\ Cancellation \in Chained /\ Fatal \in Chained /\ Recoverable \in Chained
  /\ \A v \in Verdicts, m \in MarkerIds : Verdict(v, m) \in Chained
BY DEF Chained

(* What the chain is after a step: as it was, longer, shorter, or empty. *)
Longer(new) == queue' = queue \o new
LEMMA Lengthened ==
  ASSUME Typed, NEW new \in Seq(Chained), Longer(new)
  PROVE  /\ queue' \in Seq(Chained) /\ Len(queue') = Len(queue) + Len(new)
         /\ \A i \in 1..Len(queue) : queue'[i] = queue[i]
         /\ \A i \in 1..Len(new) : queue'[Len(queue) + i] = new[i]
         /\ \A i \in 1..Len(queue') : i \in 1..Len(queue) \/ i - Len(queue) \in 1..Len(new)
BY ConcatProperties DEF Typed, Longer

LEMMA Appended ==
  ASSUME Typed, NEW e \in Chained, queue' = Append(queue, e)
  PROVE  <<e>> \in Seq(Chained) /\ Longer(<<e>>)
BY AppendIsConcat DEF Typed, Longer

LEMMA Shortened ==
  ASSUME Typed, queue # <<>>, queue' = Tail(queue)
  PROVE  /\ queue' \in Seq(Chained) /\ Len(queue') = Len(queue) - 1 /\ Len(queue) >= 1
         /\ Head(queue) = queue[1] /\ queue[1] \in Chained
         /\ \A i \in 1..Len(queue') : queue'[i] = queue[i + 1]
BY HeadTailProperties, ElementOfSeq, LenProperties, EmptySeq DEF Typed

LEMMA SessionFields ==
  ASSUME Typed
  PROVE  /\ session = [phase |-> session.phase, parts |-> session.parts, running |-> session.running,
                      used |-> session.used]
         /\ session.parts \in Nat /\ session.parts + 1 \in Nat
BY DEF Typed, SessionType

LEMMA SessionIs ==
  ASSUME Typed, NEW p \in {"none", "streaming", "tools", "ended", "resolved", "rejected"},
         NEW n \in Nat, NEW R \in SUBSET SessionCalls, NEW U \in SUBSET SessionCalls,
         session' = [phase |-> p, parts |-> n, running |-> R, used |-> U]
  PROVE  session' \in SessionType /\ session'.running = R /\ session'.used = U /\ session'.phase = p
BY DEF SessionType

LEMMA Pairs ==
  ASSUME NEW a \in Chained, NEW b \in Chained
  PROVE  /\ <<a>> \in Seq(Chained) /\ Len(<<a>>) = 1 /\ <<a>>[1] = a
         /\ <<a, b>> \in Seq(Chained) /\ Len(<<a, b>>) = 2 /\ <<a, b>>[1] = a /\ <<a, b>>[2] = b
OBVIOUS

(* The callbacks of a prompt: what they queue and what becomes of the session. *)
Reports(role) == {Usage(role), Cancellation, Fatal, Compaction}
SessionKept == UNCHANGED <<session.running, session.used>> /\ session' \in SessionType
Reported(role) ==
  \E new \in Seq(Chained) :
    /\ Longer(new)
    /\ \A i \in 1..Len(new) : new[i] \in Reports(role)
    /\ said' \in BOOLEAN
    /\ said' => said \/ \E i \in 1..Len(new) : Ending(new[i])
LEMMA ReportedPair ==
  ASSUME NEW role, NEW a \in Chained, NEW b \in Chained,
         a \in Reports(role), b \in Reports(role), Ending(b), Longer(<<a, b>>), said', said' \in BOOLEAN
  PROVE  Reported(role)
<1>1. \A i \in 1..Len(<<a, b>>) : <<a, b>>[i] \in Reports(role) OBVIOUS
<1>2. 2 \in 1..Len(<<a, b>>) /\ Ending(<<a, b>>[2]) BY Pairs
<1>3. \E i \in 1..Len(<<a, b>>) : Ending(<<a, b>>[i]) BY <1>2
<1>4. said' \in BOOLEAN /\ (said' => said \/ \E i \in 1..Len(<<a, b>>) : Ending(<<a, b>>[i])) BY <1>3
<1>5. <<a, b>> \in Seq(Chained) OBVIOUS
<1> QED BY <1>1, <1>4, <1>5, Zenon DEF Reported
CalledTool(c) ==
  /\ queue' = Append(queue, ToolCall(c)) /\ c \notin session.used /\ said' = said
  /\ session' \in SessionType
  /\ session'.running = session.running \cup {c} /\ session'.used = session.used \cup {c}
EndedTool(c) ==
  /\ queue' = Append(queue, ToolResult(c)) /\ c \in session.running /\ said' = said
  /\ session' \in SessionType
  /\ session'.running = session.running \ {c} /\ session'.used = session.used

LEMMA DeltaEffect ==
  ASSUME Typed, NEW role \in Roles, OnDelta(role)
  PROVE  /\ queue' = Append(queue, Delta(role)) /\ UNCHANGED <<said, stop, listening, aborting>>
         /\ SessionKept /\ session'.phase = session.phase
<1>1. session' = [session EXCEPT !.parts = @ + 1] BY DEF OnDelta
<1>2. session' = [phase |-> session.phase, parts |-> session.parts + 1, running |-> session.running,
                  used |-> session.used]
  BY <1>1, SessionFields
<1> QED BY <1>2, SessionFields, SessionIs DEF OnDelta, SessionKept, Typed, SessionType

LEMMA MessageEndEffect ==
  ASSUME Typed, NEW role \in Roles, NEW planned \in BOOLEAN, OnMessageEnd(role, planned)
  PROVE  /\ Reported(role) /\ SessionKept /\ session.phase = "streaming"
         /\ session'.phase \in {"tools", "ended"}
         /\ stop' \in {"none", "stop", "length", "toolUse", "error", "aborted"}
         /\ UNCHANGED <<listening, aborting>>
<1>1. PICK reason \in {"stop", "length", "toolUse", "error", "overflow", "aborted"} :
        LET cancelled == reason = "aborted" /\ ~planned
            broken == reason = "error"
        IN /\ stop' = IF reason = "overflow" THEN "error" ELSE reason
           /\ said' = (said \/ cancelled \/ broken)
           /\ queue' = queue \o (CASE cancelled -> <<Usage(role), Cancellation>>
                                  [] broken -> <<Usage(role), Fatal>>
                                  [] OTHER -> <<Usage(role)>>)
           /\ session' = IF reason = "toolUse"
                         THEN [session EXCEPT !.phase = "tools", !.parts = @ + 1]
                         ELSE [session EXCEPT !.phase = "ended"]
  BY DEF OnMessageEnd
<1>2. Reported(role)
  <2>0. Usage(role) \in Chained /\ Cancellation \in Chained /\ Fatal \in Chained BY ChainedEvents
  <2>1. CASE reason = "aborted" /\ ~planned
    <3>1. Longer(<<Usage(role), Cancellation>>) BY <2>1, <1>1 DEF Longer
    <3>2. said' BY <2>1, <1>1
    <3>3. said' \in BOOLEAN BY <1>1 DEF Typed
    <3>4. Usage(role) \in Reports(role) /\ Cancellation \in Reports(role) BY DEF Reports
    <3>5. Ending(Cancellation) BY DEF Ending
    <3> QED BY <3>1, <3>2, <3>3, <3>4, <3>5, <2>0, ReportedPair
  <2>2. CASE reason = "error"
    <3>1. Longer(<<Usage(role), Fatal>>) BY <2>2, <1>1 DEF Longer
    <3>2. said' BY <2>2, <1>1
    <3>3. said' \in BOOLEAN BY <1>1 DEF Typed
    <3>4. Usage(role) \in Reports(role) /\ Fatal \in Reports(role) BY DEF Reports
    <3>5. Ending(Fatal) BY DEF Ending
    <3> QED BY <3>1, <3>2, <3>3, <3>4, <3>5, <2>0, ReportedPair
  <2>3. CASE ~(reason = "aborted" /\ ~planned) /\ reason # "error"
    <3>1. Longer(<<Usage(role)>>) BY <2>3, <1>1 DEF Longer
    <3>2. said' = said BY <2>3, <1>1 DEF Typed
    <3>3. said' \in BOOLEAN BY <1>1 DEF Typed
    <3>4. \A i \in 1..1 : <<Usage(role)>>[i] \in Reports(role) BY DEF Reports
    <3> QED BY <3>1, <3>2, <3>3, <3>4, <2>0, Pairs DEF Reported
  <2> QED BY <2>1, <2>2, <2>3
<1>3. SessionKept /\ session'.phase \in {"tools", "ended"}
  <2>1. CASE session' = [session EXCEPT !.phase = "tools", !.parts = @ + 1]
    <3>1. session' = [phase |-> "tools", parts |-> session.parts + 1, running |-> session.running,
                      used |-> session.used]
      BY <2>1, SessionFields
    <3> QED BY <3>1, SessionFields, SessionIs DEF SessionKept, Typed, SessionType
  <2>2. CASE session' = [session EXCEPT !.phase = "ended"]
    <3>1. session' = [phase |-> "ended", parts |-> session.parts, running |-> session.running,
                      used |-> session.used]
      BY <2>2, SessionFields
    <3> QED BY <3>1, SessionFields, SessionIs DEF SessionKept, Typed, SessionType
  <2> QED BY <1>1, <2>1, <2>2
<1>4. stop' \in {"none", "stop", "length", "toolUse", "error", "aborted"} BY <1>1
<1> QED BY <1>2, <1>3, <1>4 DEF OnMessageEnd

LEMMA ToolEffect ==
  ASSUME Typed, NEW c \in SessionCalls, OnToolStart(c) \/ OnToolEnd(c)
  PROVE  /\ CalledTool(c) \/ EndedTool(c)
         /\ session'.phase = session.phase /\ UNCHANGED <<stop, listening, aborting>>
         /\ CalledTool(c) => session.phase = "tools"
<1>1. CASE OnToolStart(c)
  <2>1. session' = [phase |-> session.phase, parts |-> session.parts,
                    running |-> session.running \cup {c}, used |-> session.used \cup {c}]
    BY <1>1, SessionFields DEF OnToolStart
  <2> QED BY <1>1, <2>1, SessionFields, SessionIs DEF OnToolStart, CalledTool, Typed, SessionType
<1>2. CASE OnToolEnd(c)
  <2>1. session' = [phase |-> session.phase, parts |-> session.parts,
                    running |-> session.running \ {c}, used |-> session.used]
    BY <1>2, SessionFields DEF OnToolEnd
  <2>2. EndedTool(c) /\ session'.phase = session.phase
    BY <1>2, <2>1, SessionFields, SessionIs DEF OnToolEnd, EndedTool, Typed, SessionType
  <2>3. ~CalledTool(c)
    BY <1>2, <2>1 DEF CalledTool, OnToolEnd
  <2> QED BY <1>2, <2>2, <2>3 DEF OnToolEnd
<1> QED BY <1>1, <1>2

LEMMA NothingReported ==
  ASSUME Typed, NEW role, queue' = queue, said' = said
  PROVE  Reported(role)
<1>1. <<>> \in Seq(Chained) /\ Len(<<>>) = 0 BY EmptySeq
<1>2. Longer(<<>>) BY ConcatProperties DEF Typed, Longer
<1>3. \A i \in 1..Len(<<>>) : <<>>[i] \in Reports(role) BY <1>1
<1>4. said' \in BOOLEAN /\ (said' => said) BY DEF Typed
<1> QED BY <1>1, <1>2, <1>3, <1>4, Zenon DEF Reported

LEMMA ReportedOne ==
  ASSUME Typed, NEW role, NEW e \in Chained, e \in Reports(role), queue' = Append(queue, e), said' = said
  PROVE  Reported(role)
<1>1. <<e>> \in Seq(Chained) /\ Longer(<<e>>) BY Appended
<1>2. \A i \in 1..Len(<<e>>) : <<e>>[i] \in Reports(role) OBVIOUS
<1>3. said' \in BOOLEAN /\ (said' => said) BY DEF Typed
<1> QED BY <1>1, <1>2, <1>3, Zenon DEF Reported

LEMMA PhaseEffect ==
  ASSUME Typed, NEW p \in {"none", "streaming", "tools", "ended", "resolved", "rejected"},
         session' = [session EXCEPT !.phase = p]
  PROVE  SessionKept /\ session'.phase = p
<1>1. session' = [phase |-> p, parts |-> session.parts, running |-> session.running,
                  used |-> session.used]
  BY SessionFields
<1> QED BY <1>1, SessionFields, SessionIs DEF SessionKept, Typed, SessionType

LEMMA QuietEffect ==
  ASSUME Typed, NEW role \in Roles, NextMessage \/ PromptSettles
  PROVE  /\ Reported(role) /\ SessionKept /\ UNCHANGED <<queue, said, stop, listening, aborting>>
         /\ session'.phase # "tools"
         /\ session.phase = "tools" => session.running = {}
<1>1. UNCHANGED <<queue, said, stop, listening, aborting>>
  BY DEF NextMessage, PromptSettles, adapterVars
<1>2. Reported(role) BY <1>1, NothingReported
<1>3. PICK p \in {"streaming", "resolved", "rejected"} :
        /\ session' = [session EXCEPT !.phase = p]
        /\ session.phase = "tools" => session.running = {}
  BY DEF NextMessage, PromptSettles
<1>4. SessionKept /\ session'.phase = p BY <1>3, PhaseEffect
<1> QED BY <1>1, <1>2, <1>3, <1>4

LEMMA CompactionEffect ==
  ASSUME Typed, NEW role \in Roles, OnCompaction
  PROVE  /\ Reported(role) /\ SessionKept /\ UNCHANGED <<said, stop, listening, aborting>>
         /\ session'.phase # "tools" /\ session.phase = "ended"
<1>1. Compaction \in Chained /\ Compaction \in Reports(role) BY ChainedEvents DEF Reports
<1>2. Reported(role) BY <1>1, ReportedOne DEF OnCompaction
<1>3. PICK p \in {"ended", "streaming"} : session' = [session EXCEPT !.parts = @ + 1, !.phase = p]
  BY DEF OnCompaction
<1>4. session' = [phase |-> p, parts |-> session.parts + 1, running |-> session.running,
                  used |-> session.used]
  BY <1>3, SessionFields
<1>5. SessionKept /\ session'.phase = p
  BY <1>4, SessionFields, SessionIs DEF SessionKept, Typed, SessionType
<1> QED BY <1>2, <1>5 DEF OnCompaction

(* All callbacks but deltas. *)
Phased(s) == s.phase # "tools" => s.running = {}
LEMMA CallbackEffect ==
  ASSUME BaseInv, NEW role \in Roles, NEW planned \in BOOLEAN, Callback(role, planned)
  PROVE  /\ \/ Reported(role) /\ SessionKept
            \/ \E c \in SessionCalls : CalledTool(c) \/ EndedTool(c)
         /\ stop' \in {"none", "stop", "length", "toolUse", "error", "aborted"}
         /\ UNCHANGED <<listening, aborting>>
         /\ Phased(session')
<1>0. Typed /\ Phased(session) BY DEF BaseInv, AtPlace, Phased
<1>1. CASE OnMessageEnd(role, planned)
  <2>1. /\ Reported(role) /\ SessionKept /\ session.phase = "streaming"
        /\ session'.phase \in {"tools", "ended"}
        /\ stop' \in {"none", "stop", "length", "toolUse", "error", "aborted"}
        /\ UNCHANGED <<listening, aborting>>
    BY <1>0, <1>1, MessageEndEffect
  <2> QED BY <1>0, <2>1 DEF SessionKept, Phased
<1>2. ASSUME NEW c \in SessionCalls, OnToolStart(c) \/ OnToolEnd(c)
      PROVE  /\ CalledTool(c) \/ EndedTool(c)
             /\ UNCHANGED <<stop, listening, aborting>>
             /\ Phased(session')
  <2>1. /\ CalledTool(c) \/ EndedTool(c)
        /\ session'.phase = session.phase /\ UNCHANGED <<stop, listening, aborting>>
        /\ CalledTool(c) => session.phase = "tools"
    BY <1>0, <1>2, ToolEffect
  <2>2. EndedTool(c) => session'.running \subseteq session.running BY DEF EndedTool
  <2> QED BY <1>0, <2>1, <2>2 DEF Phased
<1>3. CASE NextMessage \/ PromptSettles
  <2>1. /\ Reported(role) /\ SessionKept /\ UNCHANGED <<queue, said, stop, listening, aborting>>
        /\ session'.phase # "tools"
        /\ session.phase = "tools" => session.running = {}
    BY <1>0, <1>3, QuietEffect
  <2> QED BY <1>0, <2>1 DEF SessionKept, Phased, Typed
<1>4. CASE OnCompaction
  <2>1. /\ Reported(role) /\ SessionKept /\ UNCHANGED <<said, stop, listening, aborting>>
        /\ session'.phase # "tools" /\ session.phase = "ended"
    BY <1>0, <1>4, CompactionEffect
  <2> QED BY <1>0, <2>1 DEF SessionKept, Phased, Typed
<1>5. CASE \E c \in SessionCalls : OnToolStart(c) \/ OnToolEnd(c)
  <2>1. PICK c \in SessionCalls : OnToolStart(c) \/ OnToolEnd(c) BY <1>5
  <2>2. /\ CalledTool(c) \/ EndedTool(c)
        /\ UNCHANGED <<stop, listening, aborting>> /\ Phased(session')
    BY <1>2, <2>1
  <2> QED BY <1>0, <2>2 DEF Typed
<1> QED BY <1>1, <1>3, <1>4, <1>5 DEF Callback

LEMMA Grown ==
  ASSUME Typed, NEW role,
         Reported(role) \/ \E c \in SessionCalls : CalledTool(c) \/ EndedTool(c)
  PROVE  queue' \in Seq(Chained) /\ said' \in BOOLEAN
<1>1. CASE Reported(role)
  <2>1. PICK new \in Seq(Chained) : Longer(new) /\ said' \in BOOLEAN BY <1>1 DEF Reported
  <2> QED BY <2>1, Lengthened
<1>2. ASSUME NEW c \in SessionCalls, CalledTool(c) \/ EndedTool(c) PROVE queue' \in Seq(Chained) /\ said' \in BOOLEAN
  <2>1. ToolCall(c) \in Chained /\ ToolResult(c) \in Chained BY ChainedEvents
  <2>2. PICK e \in Chained : queue' = Append(queue, e) BY <1>2, <2>1 DEF CalledTool, EndedTool
  <2>3. queue' \in Seq(Chained) BY <2>2, AppendProperties DEF Typed
  <2> QED BY <1>2, <2>3 DEF CalledTool, EndedTool, Typed
<1> QED BY <1>1, <1>2

(* A session as it is between two callbacks. *)
SessionOK(s) == s \in SessionType /\ s.running \subseteq s.used /\ Phased(s)
AdapterOK ==
  /\ queue \in Seq(Chained) /\ said \in BOOLEAN
  /\ stop \in {"none", "stop", "length", "toolUse", "error", "aborted"}
  /\ SessionOK(session) /\ listening \in BOOLEAN /\ aborting \in BOOLEAN

LEMMA CallbackBase ==
  ASSUME BaseInv, NEW role \in Roles, NEW planned \in BOOLEAN, Callback(role, planned) \/ OnDelta(role)
  PROVE  AdapterOK'
<1>0. Typed /\ SessionOK(session) BY DEF BaseInv, AtPlace, Phased, SessionOK, Typed
<1>1. CASE Callback(role, planned)
  <2>1. /\ \/ Reported(role) /\ SessionKept
           \/ \E c \in SessionCalls : CalledTool(c) \/ EndedTool(c)
        /\ stop' \in {"none", "stop", "length", "toolUse", "error", "aborted"}
        /\ UNCHANGED <<listening, aborting>>
        /\ Phased(session')
    BY <1>1, CallbackEffect
  <2>2. queue' \in Seq(Chained) /\ said' \in BOOLEAN BY <1>0, <2>1, Grown
  <2>3. SessionOK(session')
    <3>1. CASE SessionKept BY <1>0, <2>1, <3>1 DEF SessionKept, SessionOK
    <3>2. ASSUME NEW c \in SessionCalls, CalledTool(c) \/ EndedTool(c) PROVE SessionOK(session')
      BY <1>0, <2>1, <3>2 DEF CalledTool, EndedTool, SessionOK
    <3> QED BY <2>1, <3>1, <3>2
  <2> QED BY <1>0, <2>1, <2>2, <2>3 DEF AdapterOK, Typed
<1>2. CASE OnDelta(role)
  <2>1. /\ queue' = Append(queue, Delta(role)) /\ UNCHANGED <<said, stop, listening, aborting>>
        /\ SessionKept /\ session'.phase = session.phase
    BY <1>0, <1>2, DeltaEffect
  <2>2. Delta(role) \in Chained BY ChainedEvents
  <2>3. queue' \in Seq(Chained) BY <1>0, <2>1, <2>2, AppendProperties DEF Typed
  <2> QED BY <1>0, <2>1, <2>3 DEF AdapterOK, SessionKept, SessionOK, Phased, Typed
<1> QED BY <1>1, <1>2

LEMMA FreshSession ==
  ASSUME NEW used \in SUBSET SessionCalls
  PROVE  SessionOK(Prompt(used)) /\ SessionOK(NoSession) /\ Prompt(used).used = used
         /\ Prompt(used).running = {} /\ NoSession.running = {}
BY DEF SessionOK, Prompt, NoSession, Phased, SessionType

(* The part of BaseInv that a step of one runtime leaves alone. *)
LEMMA SameBase ==
  ASSUME BaseInv
  PROVE  AdapterOK /\ Typed /\ AtPlace
BY DEF BaseInv, AdapterOK, SessionOK, Phased, Typed, AtPlace

LEMMA Where ==
  ASSUME BaseInv
  PROVE  /\ backend \in {"pi", "supervised", "vercel"}
         /\ at \in PiPlaces => backend = "pi"
         /\ at \in SupervisedPlaces => backend = "supervised"
         /\ at \in VercelPlaces => backend = "vercel"
BY BackendAssumption
  DEF BaseInv, Typed, AtPlace, Starts, PiPlaces, SupervisedPlaces, VercelPlaces

PiKeeps ==
  /\ AdapterOK' /\ continuations' \in 0..MaxContinuations
  /\ UNCHANGED <<signal, open>>
  /\ at \in PiPlaces
  /\ at' \in PiPlaces \cup {"returned", "thrown"}
  /\ at' \notin WithSession => session' = NoSession /\ queue' = <<>>
  /\ at' \in {"piCompact", "piFlush"} => session'.running = {}
  /\ at' = "piCompact" => session'.used = {} /\ ~said'
  /\ at' \in {"piCreate", "piCompact"} => stop' = "none"

LEMMA PiFrame ==
  ASSUME BaseInv, PiKeeps,
         UNCHANGED <<backend, run, segment, tools, parts>>
  PROVE  BaseInv'
<1>1. Typed /\ AtPlace /\ backend = "pi"
  BY Where DEF BaseInv, PiKeeps
<1>2. Typed'
  <2>1. at' \in Places BY DEF PiKeeps, Places
  <2> QED BY <1>1, <2>1 DEF Typed, PiKeeps, AdapterOK, SessionOK
<1>3. ~Judging /\ ~Judging'
  BY <1>1 DEF AtPlace, Judging, PiKeeps, PiPlaces
<1>4. AtPlace'
  BY <1>1, <1>3
    DEF AtPlace, PiKeeps, AdapterOK, SessionOK, Phased, PiPlaces, WithSession
<1> QED BY <1>2, <1>4 DEF BaseInv

LEMMA PiBase == BaseInv /\ PiStep => BaseInv'
<1> SUFFICES ASSUME BaseInv, PiStep PROVE BaseInv' OBVIOUS
<1>0. AdapterOK /\ Typed /\ AtPlace BY SameBase
<1>1. backend' = backend /\ run' = run /\ segment' = segment /\ tools' = tools /\ parts' = parts
  BY DEF PiStep, supervisedVars, vercelVars
<1>2. SUFFICES PiKeeps BY <1>1, PiFrame
<1> USE DEF streamVars, adapterVars, sessionVars, PiPlaces, WithSession
<1>3. CASE PiCreate
  <2>1. SessionOK(session') /\ session'.used = {} /\ session'.running = {}
    BY <1>3, FreshSession DEF PiCreate, OpenSession, Prompt
  <2>2. AdapterOK' BY <1>3, <2>1, EmptySeq DEF PiCreate, OpenSession, AdapterOK
  <2> QED BY <1>0, <1>3, <2>1, <2>2 DEF PiCreate, OpenSession, PiKeeps, Typed
<1>4. CASE PiCreateThrows
  BY <1>0, <1>4 DEF PiCreateThrows, PiKeeps, Typed, AtPlace, AdapterOK
<1>5. CASE PiCompacts
  <2>1. Compaction \in Chained BY ChainedEvents
  <2>2. queue' \in Seq(Chained)
    BY <1>0, <1>5, <2>1, AppendProperties DEF PiCompacts, Typed
  <2>a. (session' = Prompt({}) /\ aborting' = FALSE) \/ (session' = session /\ aborting' = aborting)
    BY <1>5 DEF PiCompacts
  <2>b. session.running = {} BY <1>0, <1>5 DEF AtPlace, PiCompacts
  <2>3. SessionOK(session') /\ aborting' \in BOOLEAN /\ session'.running = {}
    BY <1>0, <2>a, <2>b, FreshSession DEF AdapterOK
  <2>4. AdapterOK'
    <3>1. UNCHANGED <<said, stop, listening>> BY <1>5 DEF PiCompacts
    <3> QED BY <1>0, <2>2, <2>3, <3>1 DEF AdapterOK
  <2>5. at' \in {"piPrompt", "piFlush"} BY <1>5 DEF PiCompacts, PiFails
  <2> QED BY <1>0, <1>5, <2>3, <2>4, <2>5 DEF PiCompacts, PiKeeps, Typed
<1>6. CASE PiCallback
  <2>1. AdapterOK'
    BY <1>6, CallbackBase DEF PiCallback, Roles
  <2> QED BY <1>0, <1>6, <2>1 DEF PiCallback, PiKeeps, Typed
<1>7. CASE PiContinue
  <2>1. session.used \in SUBSET SessionCalls BY <1>0 DEF Typed, SessionType
  <2>2. AdapterOK'
    BY <1>0, <1>7, <2>1, FreshSession DEF PiContinue, AdapterOK
  <2>3. continuations' \in 0..MaxContinuations
    BY <1>0, <1>7, PiRunAssumption DEF PiContinue, MayContinue, Typed
  <2> QED BY <1>0, <1>7, <2>2, <2>3 DEF PiContinue, PiKeeps
<1>8. CASE PiPrompted
  <2>1. Recoverable \in Chained BY ChainedEvents
  <2>a. \/ queue' = queue /\ said' = said
        \/ queue' = Append(queue, Recoverable) /\ said' = TRUE
    BY <1>8 DEF PiPrompted
  <2>b. queue' \in Seq(Chained) BY <1>0, <2>1, <2>a, AppendProperties DEF Typed
  <2>c. said' \in BOOLEAN BY <1>0, <2>a DEF Typed
  <2>2. queue' \in Seq(Chained) /\ said' \in BOOLEAN BY <2>b, <2>c
  <2>3. AdapterOK' BY <1>0, <1>8, <2>2 DEF PiPrompted, AdapterOK
  <2>4. at' = "piFlush" BY <1>8 DEF PiPrompted, PiFails
  <2>5. session'.running = {} BY <1>0, <1>8 DEF PiPrompted, Settled, AtPlace
  <2> QED BY <1>0, <1>8, <2>3, <2>4, <2>5 DEF PiPrompted, PiKeeps, Typed
<1>9. CASE PiFlushed
  <2>1. AdapterOK' BY <1>0, <1>9, FreshSession DEF PiFlushed, CloseSession, AdapterOK
  <2> QED BY <1>0, <1>9, <2>1 DEF PiFlushed, CloseSession, PiKeeps, Typed
<1> QED BY <1>3, <1>4, <1>5, <1>6, <1>7, <1>8, <1>9 DEF PiStep, PiNext

-----------------------------------------------------------------------------
LEMMA VercelBase == BaseInv /\ VercelStep => BaseInv'
<1> SUFFICES ASSUME BaseInv, VercelStep PROVE BaseInv' OBVIOUS
<1>0. Typed /\ AtPlace BY SameBase
<1>1. /\ UNCHANGED <<backend, continuations, run, segment, signal, open, queue, said, stop, session,
                     listening, aborting>>
      /\ at \in VercelPlaces /\ at' \in VercelPlaces \cup {"returned"}
  BY DEF VercelStep, VercelNext, piVars, supervisedVars, Keep, adapterVars, sessionVars, VercelPlaces,
    VercelOpen, TextPart, FinishPart, StreamFails, StreamEnds, InputPart, CallPart, ResultPart,
    FlushInput, Flushing
<1>2. tools' \in ToolsType /\ tools'.resolved \subseteq tools'.emitted \cup tools'.inputs
  <2>0. /\ tools = [inputs |-> tools.inputs, emitted |-> tools.emitted, resolved |-> tools.resolved]
        /\ tools \in ToolsType /\ tools.resolved \subseteq tools.emitted \cup tools.inputs
    BY <1>0 DEF Typed, AtPlace, ToolsType
  <2>1. CASE tools' = tools BY <2>0, <2>1
  <2>2. ASSUME NEW c \in StreamCalls, InputPart(c) \/ CallPart(c) \/ ResultPart(c) \/ FlushInput(c)
        PROVE  tools' \in ToolsType /\ tools'.resolved \subseteq tools'.emitted \cup tools'.inputs
    <3>1. CASE InputPart(c)
      <4>1. tools' = [inputs |-> tools.inputs \cup {c}, emitted |-> tools.emitted,
                      resolved |-> tools.resolved]
        BY <2>0, <3>1 DEF InputPart
      <4> QED BY <2>0, <4>1 DEF ToolsType
    <3>2. CASE CallPart(c)
      <4>1. tools' = [inputs |-> tools.inputs, emitted |-> tools.emitted \cup {c},
                      resolved |-> tools.resolved]
        BY <2>0, <3>2 DEF CallPart
      <4> QED BY <2>0, <4>1 DEF ToolsType
    <3>3. CASE ResultPart(c)
      <4>1. tools' = [inputs |-> tools.inputs, emitted |-> tools.emitted,
                      resolved |-> tools.resolved \cup {c}]
        BY <2>0, <3>3 DEF ResultPart
      <4> QED BY <2>0, <3>3, <4>1 DEF ToolsType, ResultPart
    <3>4. CASE FlushInput(c)
      <4>1. tools' = [inputs |-> tools.inputs, emitted |-> tools.emitted \cup {c},
                      resolved |-> tools.resolved \cup {c}]
        BY <2>0, <3>4 DEF FlushInput
      <4> QED BY <2>0, <4>1 DEF ToolsType
    <3> QED BY <2>2, <3>1, <3>2, <3>3, <3>4
  <2> QED BY <2>1, <2>2 DEF VercelStep, VercelNext, VercelOpen, TextPart, FinishPart, StreamFails,
      StreamEnds, vercelVars
<1>3. parts' \in Nat
  <2>1. parts' = parts \/ parts' = parts + 1
    BY DEF VercelStep, VercelNext, VercelOpen, TextPart, FinishPart, StreamFails,
      StreamEnds, vercelVars, InputPart, CallPart, ResultPart, FlushInput
  <2>2. parts \in Nat BY <1>0 DEF Typed
  <2> QED BY <2>1, <2>2
<1>4. Typed'
  <2>1. at' \in Places BY <1>1 DEF Places
  <2> QED BY <1>0, <1>1, <1>2, <1>3, <2>1 DEF Typed
<1>5. AtPlace'
  <2>1. backend = "vercel" BY <1>1, Where
  <2> QED BY <1>0, <1>1, <1>2, <2>1 DEF AtPlace, Judging, VercelPlaces, WithSession
<1> QED BY <1>4, <1>5 DEF BaseInv

SupervisedKeeps ==
  /\ AdapterOK' /\ segment' \in SegmentType /\ run' \in RunType
  /\ UNCHANGED <<signal, open>>
  /\ at \in SupervisedPlaces
  /\ at' \in SupervisedPlaces \cup {"returned", "thrown"}
  /\ at' \notin WithSession => session' = NoSession /\ queue' = <<>>
  /\ at' \in {"studentSettled", "finalCheck", "teacherFlush"} => session'.running = {}
  /\ segment'.checked <= segment'.partial
  /\ Judging' => /\ at' \in {"student", "studentSettled"} /\ segment'.decision = "none"
                 /\ segment'.judging < run'.boundaries
  /\ at' = "finalCheck" => segment'.decision = "none" /\ ~segment'.failed /\ queue' = <<>>
  /\ at' \in {"student", "studentSettled"} /\ segment'.decision = "nudge" => run'.nudges < MaxNudges

LEMMA SupervisedFrame ==
  ASSUME BaseInv, SupervisedKeeps, UNCHANGED <<backend, continuations, tools, parts>>
  PROVE  BaseInv'
<1>1. Typed /\ AtPlace /\ backend = "supervised"
  BY Where DEF BaseInv, SupervisedKeeps
<1>2. Typed'
  <2>1. at' \in Places BY DEF SupervisedKeeps, Places
  <2> QED BY <1>1, <2>1 DEF Typed, SupervisedKeeps, AdapterOK, SessionOK
<1>4. AtPlace'
  BY <1>1
    DEF AtPlace, SupervisedKeeps, AdapterOK, SessionOK, Phased, SupervisedPlaces, WithSession, Judging
<1> QED BY <1>2, <1>4 DEF BaseInv

(* Steps that leave the session, the segment and the run alone. *)
LEMMA SupervisedPasses ==
  ASSUME BaseInv, at \in SupervisedPlaces,
         at' \in SupervisedPlaces \cup {"returned", "thrown"},
         UNCHANGED <<signal, open, queue, said, stop, session, listening, aborting, run, segment>>,
         at' \notin WithSession => at \notin WithSession,
         at' \in {"student", "studentSettled"} => FALSE,
         at' \in {"finalCheck", "teacherFlush"} => Settled,
         at' = "finalCheck" => segment.decision = "none" /\ ~segment.failed /\ queue = <<>>,
         ~Judging
  PROVE  SupervisedKeeps
<1>0. AdapterOK /\ Typed /\ AtPlace BY SameBase
<1>1. AdapterOK' BY <1>0 DEF AdapterOK
<1> QED BY <1>0, <1>1 DEF SupervisedKeeps, Typed, AtPlace, Settled, Judging

(* The locals of a segment, field by field. *)
LEMMA SegmentFields ==
  ASSUME Typed
  PROVE  /\ segment = [partial |-> segment.partial, checked |-> segment.checked,
                      asked |-> segment.asked, judging |-> segment.judging,
                      decision |-> segment.decision, marker |-> segment.marker,
                      planned |-> segment.planned, failed |-> segment.failed,
                      completed |-> segment.completed]
         /\ segment.partial \in Nat /\ segment.checked \in Nat /\ segment.asked \in BOOLEAN
         /\ segment.judging \in Nat \cup {NoCheck} /\ segment.decision \in Verdicts \cup {"none"}
         /\ segment.marker \in MarkerIds \cup {NoId} /\ segment.planned \in BOOLEAN
         /\ segment.failed \in BOOLEAN /\ segment.completed \in BOOLEAN
BY DEF Typed, SegmentType

LEMMA RunFields ==
  ASSUME Typed
  PROVE  /\ run = [total |-> run.total, markers |-> run.markers, boundaries |-> run.boundaries,
                  nudges |-> run.nudges]
         /\ run.total \in Nat /\ run.markers \in Nat /\ run.boundaries \in Nat
         /\ run.nudges \in 0..MaxNudges
BY DEF Typed, RunType

LEMMA DeltaBase == BaseInv /\ StudentDelta /\ UNCHANGED <<backend, continuations, tools, parts>> => BaseInv'
<1> SUFFICES ASSUME BaseInv, StudentDelta, UNCHANGED <<backend, continuations, tools, parts>>
             PROVE  BaseInv'
  OBVIOUS
<1>0. AdapterOK /\ Typed /\ AtPlace BY SameBase
<1>1. AdapterOK' BY CallbackBase DEF StudentDelta, Roles
<1>2. at = "student" /\ at' = "student" /\ UNCHANGED <<signal, open>>
  BY DEF StudentDelta, streamVars
<1>3. segment.checked \in Nat /\ segment.partial \in Nat /\ segment.checked <= segment.partial
      /\ run.boundaries \in Nat
  BY <1>0, SegmentFields, RunFields DEF AtPlace
<1>4. CASE segment' = [segment EXCEPT !.partial = @ + 1] /\ UNCHANGED run
  <2>1. segment' = [partial |-> segment.partial + 1, checked |-> segment.checked,
                    asked |-> segment.asked, judging |-> segment.judging,
                    decision |-> segment.decision, marker |-> segment.marker,
                    planned |-> segment.planned, failed |-> segment.failed,
                    completed |-> segment.completed]
    BY <1>0, <1>4, SegmentFields
  <2>2. segment' \in SegmentType BY <1>0, <2>1, SegmentFields DEF SegmentType
  <2>3. SupervisedKeeps
    BY <1>0, <1>1, <1>2, <1>3, <1>4, <2>1, <2>2
      DEF SupervisedKeeps, SupervisedPlaces, WithSession, AtPlace, Judging, Typed
  <2> QED BY <2>3, SupervisedFrame
<1>5. CASE /\ segment.decision = "none" /\ ~Judging
           /\ segment' = [[segment EXCEPT !.partial = @ + 1] EXCEPT
                            !.checked = [segment EXCEPT !.partial = @ + 1].partial,
                            !.asked = TRUE, !.judging = run.boundaries]
           /\ run' = [run EXCEPT !.boundaries = @ + 1]
  <2>1. segment' = [partial |-> segment.partial + 1, checked |-> segment.partial + 1,
                    asked |-> TRUE, judging |-> run.boundaries,
                    decision |-> segment.decision, marker |-> segment.marker,
                    planned |-> segment.planned, failed |-> segment.failed,
                    completed |-> segment.completed]
    BY <1>0, <1>5, SegmentFields
  <2>2. run' = [total |-> run.total, markers |-> run.markers, boundaries |-> run.boundaries + 1,
                nudges |-> run.nudges]
    BY <1>0, <1>5, RunFields
  <2>3. segment' \in SegmentType /\ run' \in RunType
    BY <1>0, <2>1, <2>2, SegmentFields, RunFields DEF SegmentType, RunType
  <2>4. SupervisedKeeps
    BY <1>0, <1>1, <1>2, <1>3, <1>5, <2>1, <2>2, <2>3
      DEF SupervisedKeeps, SupervisedPlaces, WithSession, AtPlace, Judging
  <2> QED BY <2>4, SupervisedFrame
<1> QED BY <1>4, <1>5 DEF StudentDelta

LEMMA Allowed ==
  ASSUME Typed, NEW answer \in Verdicts, NEW boundary \in Nat
  PROVE  /\ Degraded(answer) \in Verdicts
         /\ Degraded(answer) = "nudge" => run.nudges < MaxNudges
         /\ answer = "continue" => Degraded(answer) = "continue"
         /\ \A v \in Verdicts : MarkerOf(v, boundary) \in MarkerIds
<1>1. run.markers \in Nat BY RunFields
<1>2. \A v \in Verdicts : MarkerOf(v, boundary) \in MarkerIds BY <1>1 DEF MarkerOf, MarkerIds
<1> QED BY <1>2 DEF Degraded, AllowNudge, Verdicts, Interventions

(* A check that resolves: v is the verdict and m its marker. *)
Judged(v, m) ==
  /\ m = MarkerOf(v, segment.judging) /\ m \in MarkerIds
  /\ v = "nudge" => run.nudges < MaxNudges
  /\ queue' = queue \o <<Verdict(v, m), Usage("supervisor")>>
  /\ segment' \in SegmentType /\ segment'.judging = NoCheck
  /\ segment'.partial = segment.partial /\ segment'.checked = segment.checked
  /\ segment'.failed = segment.failed
  /\ v # "continue" => segment'.decision = v /\ segment'.marker = m
  /\ v = "continue" => segment'.decision \in {"none", "continue"}

LEMMA CheckEffect ==
  ASSUME Typed, AtPlace, CheckResolves
  PROVE  /\ \E v \in Verdicts, m \in MarkerIds : Judged(v, m)
         /\ aborting' \in BOOLEAN
<1>0. segment.judging \in Nat /\ segment.decision = "none"
  BY SegmentFields DEF CheckResolves, Judging, AtPlace
<1>1. PICK answer \in Verdicts, unavailable \in BOOLEAN :
        LET v == Degraded(answer)
            marker == MarkerOf(v, segment.judging)
            decided == v # "continue"
        IN /\ unavailable => answer = "continue"
           /\ queue' = queue \o <<Verdict(v, marker), Usage("supervisor")>>
           /\ segment' = [segment EXCEPT
                            !.judging = NoCheck,
                            !.decision = IF decided \/ unavailable THEN v ELSE @,
                            !.marker = IF decided THEN marker ELSE @,
                            !.planned = @ \/ decided]
           /\ aborting' = (aborting \/ (decided /\ session.phase \in {"streaming", "tools", "ended"}))
  BY DEF CheckResolves
<1> DEFINE v == Degraded(answer)
           m == MarkerOf(v, segment.judging)
<1>2. v \in Verdicts /\ (v = "nudge" => run.nudges < MaxNudges) /\ m \in MarkerIds
      /\ (unavailable => v = "continue")
  BY <1>0, <1>1, Allowed
<1>3. segment' = [partial |-> segment.partial, checked |-> segment.checked, asked |-> segment.asked,
                  judging |-> NoCheck,
                  decision |-> IF v # "continue" \/ unavailable THEN v ELSE segment.decision,
                  marker |-> IF v # "continue" THEN m ELSE segment.marker,
                  planned |-> segment.planned \/ v # "continue", failed |-> segment.failed,
                  completed |-> segment.completed]
  BY <1>1, SegmentFields
<1> HIDE DEF v, m
<1>4. segment' \in SegmentType BY <1>2, <1>3, SegmentFields DEF SegmentType
<1>5. Judged(v, m)
  <2>1. m = MarkerOf(v, segment.judging) BY DEF m
  <2>2. queue' = queue \o <<Verdict(v, m), Usage("supervisor")>> BY <1>1 DEF m, v
  <2>3. v = "continue" => segment'.decision \in {"none", "continue"} BY <1>0, <1>3
  <2> QED BY <1>2, <1>3, <1>4, <2>1, <2>2, <2>3 DEF Judged
<1>6. aborting' \in BOOLEAN BY <1>1
<1> QED BY <1>2, <1>5, <1>6

(* The three ways a segment ends. *)
Ended(o, r, decision, marker, terminal) ==
  /\ session' = NoSession /\ listening' = FALSE /\ aborting' = FALSE
  /\ run' \in RunType
  /\ run'.total = r.total + segment.partial /\ run'.boundaries = r.boundaries
  /\ \/ /\ at' = "returned"
        /\ terminal \/ decision \notin Interventions
        /\ out' = o /\ run'.markers = r.markers /\ run'.nudges = r.nudges
     \/ /\ at' = "studentCreate" /\ ~terminal /\ decision = "nudge"
        /\ out' = o /\ run'.markers = r.markers + 1 /\ run'.nudges = r.nudges + 1
     \/ /\ at' = "teacherCreate" /\ ~terminal /\ decision \in Interventions
        /\ out' = HandOver(o, marker) /\ run'.markers = r.markers /\ run'.nudges = r.nudges

LEMMA NextSegmentIs ==
  ASSUME NEW r \in RunType, r.nudges < MaxNudges
  PROVE  /\ NextSegment(r) \in RunType
         /\ NextSegment(r).total = r.total /\ NextSegment(r).boundaries = r.boundaries
         /\ NextSegment(r).markers = r.markers + 1 /\ NextSegment(r).nudges = r.nudges + 1
<1>0. r = [total |-> r.total, markers |-> r.markers, boundaries |-> r.boundaries,
           nudges |-> r.nudges]
  BY DEF RunType
<1>a. NextSegment(r) = [r EXCEPT !.markers = @ + 1, !.nudges = @ + 1] BY DEF NextSegment
<1>1. NextSegment(r) = [total |-> r.total, markers |-> r.markers + 1, boundaries |-> r.boundaries,
                        nudges |-> r.nudges + 1]
  BY <1>a, <1>0 DEF RunType
<1>2. r.nudges + 1 \in 0..MaxNudges BY SupervisedAssumption DEF RunType
<1> QED BY <1>1, <1>2 DEF RunType

LEMMA EndEffect ==
  ASSUME Typed, NEW o, NEW r \in RunType, NEW decision, NEW marker, NEW terminal \in BOOLEAN,
         decision = "nudge" => r.nudges < MaxNudges,
         EndSegment(o, r, decision, marker, terminal)
  PROVE  Ended(o, r, decision, marker, terminal)
<1>0. segment.partial \in Nat /\ MaxNudges \in Nat BY SegmentFields, SupervisedAssumption
<1>1. session' = NoSession /\ listening' = FALSE /\ aborting' = FALSE
  BY DEF EndSegment, CloseSession
<1> DEFINE longer == [r EXCEPT !.total = @ + segment.partial]
<1>2. longer = [total |-> r.total + segment.partial, markers |-> r.markers,
                boundaries |-> r.boundaries, nudges |-> r.nudges]
      /\ longer \in RunType /\ r.nudges \in 0..MaxNudges
  BY <1>0 DEF RunType
<1>3. \/ /\ terminal \/ decision \notin Interventions
         /\ at' = "returned" /\ run' = longer /\ out' = o
      \/ /\ ~terminal /\ decision = "nudge" /\ ~segment.completed
         /\ at' = "studentCreate" /\ run' = NextSegment(longer) /\ out' = o
      \/ /\ ~terminal /\ decision \in Interventions
         /\ at' = "teacherCreate" /\ run' = longer /\ out' = HandOver(o, marker)
  BY DEF EndSegment
<1> HIDE DEF longer
<1>4. decision = "nudge" =>
        /\ NextSegment(longer) \in RunType
        /\ NextSegment(longer).total = r.total + segment.partial
        /\ NextSegment(longer).boundaries = r.boundaries
        /\ NextSegment(longer).markers = r.markers + 1 /\ NextSegment(longer).nudges = r.nudges + 1
  BY <1>2, NextSegmentIs
<1>5. CASE /\ ~terminal /\ decision = "nudge" /\ ~segment.completed
           /\ at' = "studentCreate" /\ run' = NextSegment(longer) /\ out' = o
  BY <1>1, <1>4, <1>5 DEF Ended
<1>6. CASE \/ /\ terminal \/ decision \notin Interventions
              /\ at' = "returned" /\ run' = longer /\ out' = o
           \/ /\ ~terminal /\ decision \in Interventions
              /\ at' = "teacherCreate" /\ run' = longer /\ out' = HandOver(o, marker)
  <2>1. run' \in RunType /\ run'.total = r.total + segment.partial /\ run'.boundaries = r.boundaries
        /\ run'.markers = r.markers /\ run'.nudges = r.nudges
    BY <1>2, <1>6
  <2> QED BY <1>1, <1>6, <2>1 DEF Ended
<1> QED BY <1>3, <1>5, <1>6

LEMMA EndKeeps ==
  ASSUME BaseInv, at \in {"studentSettled", "finalCheck"}, queue = <<>>, ~Judging,
         UNCHANGED <<signal, open, queue, said, stop, segment>>,
         NEW o, NEW r, NEW decision, NEW marker, NEW terminal,
         Ended(o, r, decision, marker, terminal)
  PROVE  SupervisedKeeps
<1>0. AdapterOK /\ Typed /\ AtPlace BY SameBase
<1>1. at' \in {"returned", "studentCreate", "teacherCreate"} BY DEF Ended
<1>2. session' = NoSession /\ run' \in RunType /\ listening' = FALSE /\ aborting' = FALSE
  BY DEF Ended
<1>3. AdapterOK' BY <1>0, <1>2, FreshSession DEF AdapterOK
<1>4. ~Judging' BY DEF Judging
<1> QED BY <1>0, <1>1, <1>2, <1>3, <1>4
    DEF SupervisedKeeps, SupervisedPlaces, WithSession, Typed, AtPlace

LEMMA SupervisedBase == BaseInv /\ (SupervisedStep \/ SupervisorStep) => BaseInv'
<1> SUFFICES ASSUME BaseInv, SupervisedStep \/ SupervisorStep PROVE BaseInv' OBVIOUS
<1>0. AdapterOK /\ Typed /\ AtPlace BY SameBase
<1>1. UNCHANGED <<backend, continuations, tools, parts>>
  BY DEF SupervisedStep, SupervisorStep, piVars, vercelVars
<1>2. SupervisedKeeps => BaseInv' BY <1>1, SupervisedFrame
<1> USE DEF streamVars, adapterVars, sessionVars, supervisedVars
<1>3. CASE SupervisedOpen \/ CreateThrows
  BY <1>0, <1>2, <1>3, SupervisedPasses
    DEF SupervisedOpen, CreateThrows, SupervisedPlaces, WithSession, AtPlace
<1>4. CASE StudentCreate
  <2>1. SessionOK(session') BY <1>4, FreshSession DEF StudentCreate, OpenSession
  <2>2. AdapterOK' BY <1>4, <2>1, EmptySeq DEF StudentCreate, OpenSession, AdapterOK
  <2>3. segment' \in SegmentType BY <1>4 DEF StudentCreate, NewSegment, SegmentType, NoCheck
  <2>4. SupervisedKeeps
    BY <1>0, <1>4, <2>2, <2>3
      DEF SupervisedKeeps, StudentCreate, SupervisedPlaces, WithSession, NewSegment, Judging, Typed
  <2> QED BY <1>2, <2>4
<1>5. CASE StudentDelta BY <1>1, <1>5, DeltaBase
<1>6. CASE StudentCallback
  <2>1. segment.planned \in BOOLEAN BY <1>0, SegmentFields
  <2>2. AdapterOK' BY <1>6, <2>1, CallbackBase DEF StudentCallback, Roles
  <2>3. SupervisedKeeps
    BY <1>0, <1>6, <2>2
      DEF SupervisedKeeps, StudentCallback, SupervisedPlaces, WithSession, Judging, Typed, AtPlace
  <2> QED BY <1>2, <2>3
<1>7. CASE CheckAborted
  <2>1. segment' = [partial |-> segment.partial, checked |-> segment.checked, asked |-> segment.asked,
                    judging |-> NoCheck, decision |-> segment.decision, marker |-> segment.marker,
                    planned |-> segment.planned, failed |-> segment.failed,
                    completed |-> segment.completed]
    BY <1>0, <1>7, SegmentFields DEF CheckAborted
  <2>2. segment' \in SegmentType BY <1>0, <2>1, SegmentFields DEF SegmentType
  <2>3. AdapterOK' BY <1>0, <1>7 DEF AdapterOK, CheckAborted
  <2>4. SupervisedKeeps
    BY <1>0, <1>7, <2>1, <2>2, <2>3
      DEF SupervisedKeeps, CheckAborted, SupervisedPlaces, WithSession, Judging, Typed, AtPlace
  <2> QED BY <1>2, <2>4
<1>8. CASE StudentSettles
  <2>1. segment' = [partial |-> segment.partial, checked |-> segment.checked, asked |-> segment.asked,
                    judging |-> segment.judging, decision |-> segment.decision,
                    marker |-> segment.marker, planned |-> segment.planned,
                    failed |-> (session.phase = "rejected"),
                    completed |-> (session.phase = "resolved" /\ ~segment.planned)]
    BY <1>0, <1>8, SegmentFields DEF StudentSettles
  <2>2. segment' \in SegmentType BY <1>0, <2>1, SegmentFields DEF SegmentType
  <2>3. AdapterOK' BY <1>0, <1>8 DEF AdapterOK, StudentSettles
  <2>4. SupervisedKeeps
    BY <1>0, <1>8, <2>1, <2>2, <2>3
      DEF SupervisedKeeps, StudentSettles, SupervisedPlaces, WithSession, Judging, Typed, AtPlace,
        Settled
  <2> QED BY <1>2, <2>4
<1>9. CASE StudentEnds
  <2>1. PICK o : EndSegment(o, run, segment.decision, segment.marker,
                            signal \/ said \/ (segment.decision = "none" /\ segment.failed))
    BY <1>9 DEF StudentEnds
  <2>2. run \in RunType /\ (segment.decision = "nudge" => run.nudges < MaxNudges)
    BY <1>0, <1>9 DEF Typed, AtPlace, StudentEnds, Flushed
  <2>3. Ended(o, run, segment.decision, segment.marker,
              signal \/ said \/ (segment.decision = "none" /\ segment.failed))
    BY <1>0, <2>1, <2>2, EndEffect
  <2>4. SupervisedKeeps BY <1>9, <2>3, EndKeeps DEF StudentEnds, Flushed
  <2> QED BY <1>2, <2>4
<1>10. CASE AskOnceMore
  BY <1>0, <1>2, <1>10, SupervisedPasses
    DEF AskOnceMore, Flushed, FinalCheckDue, SupervisedPlaces, WithSession, AtPlace, SupervisedKeeps,
      AdapterOK, Typed, Judging
<1>11. CASE FinalAborted
  <2>1. AdapterOK' BY <1>0, <1>11, FreshSession DEF AdapterOK, FinalAborted, CloseSession
  <2>2. SupervisedKeeps
    BY <1>0, <1>11, <2>1
      DEF SupervisedKeeps, FinalAborted, CloseSession, SupervisedPlaces, WithSession, Judging, Typed,
        AtPlace
  <2> QED BY <1>2, <2>2
<1>12. CASE TeacherCreate
  <2>1. SessionOK(session') BY <1>12, FreshSession DEF TeacherCreate, OpenSession
  <2>2. AdapterOK' BY <1>12, <2>1, EmptySeq DEF TeacherCreate, OpenSession, AdapterOK
  <2>3. SupervisedKeeps
    BY <1>0, <1>12, <2>2
      DEF SupervisedKeeps, TeacherCreate, SupervisedPlaces, WithSession, Judging, Typed, AtPlace
  <2> QED BY <1>2, <2>3
<1>13. CASE TeacherCallback
  <2>2. AdapterOK' BY <1>13, CallbackBase DEF TeacherCallback, Roles
  <2>3. SupervisedKeeps
    BY <1>0, <1>13, <2>2
      DEF SupervisedKeeps, TeacherCallback, SupervisedPlaces, WithSession, Judging, Typed, AtPlace
  <2> QED BY <1>2, <2>3
<1>14. CASE TeacherSettles
  <2>1. AdapterOK' BY <1>0, <1>14 DEF AdapterOK, TeacherSettles
  <2>2. SupervisedKeeps
    BY <1>0, <1>14, <2>1
      DEF SupervisedKeeps, TeacherSettles, SupervisedPlaces, WithSession, Judging, Typed, AtPlace,
        Settled
  <2> QED BY <1>2, <2>2
<1>15. CASE TeacherFlushed
  <2>1. AdapterOK' BY <1>0, <1>15, FreshSession DEF AdapterOK, TeacherFlushed, CloseSession
  <2>2. SupervisedKeeps
    BY <1>0, <1>15, <2>1
      DEF SupervisedKeeps, TeacherFlushed, CloseSession, SupervisedPlaces, WithSession, Judging,
        Typed, AtPlace
  <2> QED BY <1>2, <2>2
<1>16. CASE CheckResolves
  <2>1. PICK v \in Verdicts, m \in MarkerIds : Judged(v, m)
    BY <1>0, <1>16, CheckEffect
  <2>2. aborting' \in BOOLEAN BY <1>0, <1>16, CheckEffect
  <2>3. Verdict(v, m) \in Chained /\ Usage("supervisor") \in Chained BY ChainedEvents
  <2>4. queue' \in Seq(Chained)
    <3>1. <<Verdict(v, m), Usage("supervisor")>> \in Seq(Chained) BY <2>3, Pairs
    <3> QED BY <1>0, <2>1, <3>1, ConcatProperties DEF Judged, Typed
  <2>5. AdapterOK' BY <1>0, <1>16, <2>2, <2>4 DEF AdapterOK, CheckResolves
  <2>6. segment'.decision = "nudge" => run'.nudges < MaxNudges
    BY <1>16, <2>1 DEF Judged, CheckResolves
  <2>7. at \in {"student", "studentSettled"} BY <1>0, <1>16 DEF CheckResolves, AtPlace
  <2>8. SupervisedKeeps
    BY <1>0, <1>16, <2>1, <2>5, <2>6, <2>7
      DEF SupervisedKeeps, CheckResolves, Judged, SupervisedPlaces, WithSession, Judging, Typed,
        AtPlace
  <2> QED BY <1>2, <2>8
<1>17. CASE FinalResolves
  <2>a. PICK answer \in Verdicts :
          \E o, marker : EndSegment(o, [run EXCEPT !.boundaries = @ + 1], Degraded(answer), marker, said)
    BY <1>17 DEF FinalResolves
  <2>1. PICK o, marker : EndSegment(o, [run EXCEPT !.boundaries = @ + 1], Degraded(answer), marker, said)
    BY <2>a
  <2> DEFINE r == [run EXCEPT !.boundaries = @ + 1]
  <2>2. r \in RunType /\ r.nudges = run.nudges BY <1>0, RunFields DEF RunType
  <2>3. Degraded(answer) = "nudge" => r.nudges < MaxNudges
    <3>1. Degraded(answer) = "nudge" => run.nudges < MaxNudges
      BY <1>0, Allowed, 0 \in Nat
    <3> QED BY <2>2, <3>1
  <2>4. Ended(o, r, Degraded(answer), marker, said)
    BY <1>0, <2>1, <2>2, <2>3, EndEffect DEF Typed
  <2> HIDE DEF r
  <2>5. SupervisedKeeps BY <1>0, <1>17, <2>4, EndKeeps DEF FinalResolves, AtPlace
  <2> QED BY <1>2, <2>5
<1> QED BY <1>3, <1>4, <1>5, <1>6, <1>7, <1>8, <1>9, <1>10, <1>11, <1>12, <1>13, <1>14, <1>15, <1>16,
    <1>17 DEF SupervisedStep, SupervisorStep, SupervisedNext, Supervisor

-----------------------------------------------------------------------------
CommonStep == ChainStep \/ Refuse \/ Finish \/ Cancel \/ Disconnect

LEMMA CommonBase == BaseInv /\ CommonStep => BaseInv'
<1> SUFFICES ASSUME BaseInv, CommonStep PROVE BaseInv' OBVIOUS
<1>0. Typed /\ AtPlace BY SameBase
<1>1. UNCHANGED <<backend, said, stop, session, listening, continuations, run, segment, tools, parts>>
  BY DEF CommonStep, ChainStep, Refuse, Finish, Cancel, Disconnect, Abort, adapterVars, sessionVars,
    piVars, supervisedVars, vercelVars
<1>2. /\ queue' \in Seq(Chained) /\ (queue = <<>> => queue' = <<>>)
      /\ signal' \in BOOLEAN /\ open' \in BOOLEAN /\ aborting' \in BOOLEAN
  <2>1. CASE ChainStep
    <3>1. queue # <<>> /\ queue' = Tail(queue) /\ UNCHANGED <<signal, open, aborting>>
      BY <2>1 DEF ChainStep, Drain, sessionVars
    <3> QED BY <1>0, <3>1, Shortened DEF Typed
  <2>2. CASE Refuse \/ Finish
    BY <1>0, <2>2 DEF Refuse, Finish, streamVars, adapterVars, sessionVars, Typed
  <2>3. CASE Cancel \/ Disconnect
    BY <1>0, <2>3 DEF Cancel, Disconnect, Abort, adapterVars, Typed
  <2> QED BY <2>1, <2>2, <2>3 DEF CommonStep
<1>3. CASE at' = at
  <2>1. Typed' BY <1>0, <1>1, <1>2, <1>3 DEF Typed
  <2>2. AtPlace' BY <1>0, <1>1, <1>2, <1>3 DEF AtPlace, Judging
  <2> QED BY <2>1, <2>2 DEF BaseInv
<1>4. CASE at' \in {"thrown", "done"}
      /\ at \in {"piCreate", "supervisedOpen", "vercelOpen", "returned", "thrown"}
  <2>1. Typed' BY <1>0, <1>1, <1>2, <1>4 DEF Typed, Places
  <2>2. AtPlace' BY <1>0, <1>1, <1>2, <1>4 DEF AtPlace, Judging, WithSession
  <2> QED BY <2>1, <2>2 DEF BaseInv
<1>5. Starts[backend] \in {"piCreate", "supervisedOpen", "vercelOpen"}
  BY Where DEF Starts
<1> QED BY <1>3, <1>4, <1>5
    DEF CommonStep, ChainStep, Refuse, Finish, Cancel, Disconnect

LEMMA StutterBase == BaseInv /\ UNCHANGED vars => BaseInv'
BY DEF BaseInv, Typed, AtPlace, Judging, vars, streamVars, adapterVars, sessionVars, piVars,
  supervisedVars, vercelVars

LEMMA StepBase == BaseInv /\ [Next]_vars => BaseInv'
BY PiBase, SupervisedBase, VercelBase, CommonBase, StutterBase DEF Next, CommonStep

(* The types and what is known at each place. *)
LEMMA BaseHolds == Spec => []BaseInv
BY InitBase, StepBase, PTL DEF Spec

-----------------------------------------------------------------------------
(* What the client knows after another event. *)

Quiet(e) ==
  /\ e.name \notin {"tool_call", "tool_result", "supervisor_verdict", "student_interruption",
                    "teacher_continuation"}
  /\ e # Delta("student")

LEMMA QuietEvents ==
  /\ Quiet(Message) /\ Quiet(Delta("assistant")) /\ Quiet(Delta("teacher")) /\ Quiet(Compaction)
  /\ Quiet(Cancellation) /\ Quiet(Fatal) /\ Quiet(Recoverable)
  /\ \A r \in Roles \cup {"supervisor"} : Quiet(Usage(r))
BY DEF Quiet, Message, Delta, Compaction, Cancellation, Fatal, Recoverable, Usage, Event, NoId

(* q tells nothing else of the supervision than o, or of calls. *)
SameVerdicts(o, q) ==
  /\ q.student = o.student /\ q.nudges = o.nudges /\ q.labels = o.labels
  /\ q.relabelled => o.relabelled
  /\ q.seen.marked = o.seen.marked /\ q.seen.interrupted = o.seen.interrupted
SameCalls(o, q) ==
  q.seen.pending = o.seen.pending /\ q.seen.faults \subseteq o.seen.faults \cup {"follows_terminal"}
SameTold(o, q) ==
  (o.seen.terminal \/ o.excused => q.seen.terminal \/ q.excused) /\ (q.excused => o.excused)

LEMMA SameRefl == \A o : SameVerdicts(o, o) /\ SameCalls(o, o) /\ SameTold(o, o)
BY DEF SameVerdicts, SameCalls, SameTold

LEMMA WrittenFields ==
  ASSUME NEW o, NEW e
  PROVE  /\ Written(o, e).seen = Read(o.seen, e)
         /\ Written(o, e).student = IF e = Delta("student") THEN o.student + 1 ELSE o.student
         /\ Written(o, e).nudges =
              IF e.name = "supervisor_verdict" /\ e.what = "nudge" THEN o.nudges + 1 ELSE o.nudges
         /\ Written(o, e).labels =
              IF e.name = "supervisor_verdict" THEN o.labels \cup {e.id} ELSE o.labels
         /\ Written(o, e).relabelled <=>
              o.relabelled \/ (e.name = "supervisor_verdict" /\ e.id \in o.labels)
         /\ Written(o, e).excused <=> o.excused \/ e = Recoverable
BY DEF Written

LEMMA ReadFields ==
  ASSUME NEW s, NEW e
  PROVE  /\ Read(s, e).pending =
              (IF e.name = "tool_call" THEN s.pending \cup {e.id}
               ELSE IF e.name = "tool_result" THEN s.pending \ {e.id} ELSE s.pending)
         /\ Read(s, e).marked =
              IF e.name = "supervisor_verdict" /\ e.what \in Interventions
              THEN s.marked \cup {e.id} ELSE s.marked
         /\ Read(s, e).interrupted =
              IF e.name = "student_interruption" THEN s.interrupted \cup {e.id} ELSE s.interrupted
         /\ Read(s, e).terminal <=>
              \/ e.name = "cancellation"
              \/ e.name = "error" /\ e.what = "fatal"
              \/ s.terminal /\ e.name # "error"
         /\ Read(s, e).faults = s.faults \cup FaultsOf(s, e)
BY DEF Read

(* The same of an event that is written while the client reads. *)
LEMMA PutFields ==
  ASSUME NEW o, NEW e, open
  PROVE  /\ Put(o, e) = Written(o, e) /\ Put(o, e).seen = Read(o.seen, e)
         /\ Put(o, e).seen.pending =
              (IF e.name = "tool_call" THEN o.seen.pending \cup {e.id}
               ELSE IF e.name = "tool_result" THEN o.seen.pending \ {e.id} ELSE o.seen.pending)
         /\ Put(o, e).seen.marked =
              IF e.name = "supervisor_verdict" /\ e.what \in Interventions
              THEN o.seen.marked \cup {e.id} ELSE o.seen.marked
         /\ Put(o, e).seen.faults = o.seen.faults \cup FaultsOf(o.seen, e)
<1>1. Put(o, e) = Written(o, e) BY DEF Put
<1>2. Written(o, e).seen = Read(o.seen, e) BY WrittenFields
<1>3. Put(o, e).seen = Read(o.seen, e) BY <1>1, <1>2
<1>4. Read(o.seen, e).pending =
        (IF e.name = "tool_call" THEN o.seen.pending \cup {e.id}
         ELSE IF e.name = "tool_result" THEN o.seen.pending \ {e.id} ELSE o.seen.pending)
  BY ReadFields
<1>5. Read(o.seen, e).marked =
        IF e.name = "supervisor_verdict" /\ e.what \in Interventions
        THEN o.seen.marked \cup {e.id} ELSE o.seen.marked
  BY ReadFields
<1>6. Read(o.seen, e).faults = o.seen.faults \cup FaultsOf(o.seen, e) BY ReadFields
<1> QED BY <1>1, <1>3, <1>4, <1>5, <1>6

LEMMA PutQuiet ==
  ASSUME NEW o, NEW e, Quiet(e)
  PROVE  SameVerdicts(o, Put(o, e)) /\ SameCalls(o, Put(o, e))
<1>1. CASE ~open BY <1>1, SameRefl DEF Put
<1>2. CASE open
  <2>1. Put(o, e) = Written(o, e) BY <1>2 DEF Put
  <2>2. FaultsOf(o.seen, e) \subseteq {"follows_terminal"} BY DEF Quiet, FaultsOf
  <2>3. SameVerdicts(o, Written(o, e))
    <3>1. Written(o, e).seen = Read(o.seen, e) BY WrittenFields
    <3>2. Read(o.seen, e).marked = o.seen.marked /\ Read(o.seen, e).interrupted = o.seen.interrupted
      BY ReadFields DEF Quiet
    <3> QED BY <3>1, <3>2, WrittenFields DEF Quiet, SameVerdicts
  <2>4. SameCalls(o, Written(o, e))
    <3>1. Written(o, e).seen = Read(o.seen, e) BY WrittenFields
    <3>2. Read(o.seen, e).pending = o.seen.pending
          /\ Read(o.seen, e).faults = o.seen.faults \cup FaultsOf(o.seen, e)
      BY ReadFields DEF Quiet
    <3> QED BY <2>2, <3>1, <3>2 DEF SameCalls
  <2> QED BY <2>1, <2>3, <2>4
<1> QED BY <1>1, <1>2

LEMMA PutTold ==
  ASSUME NEW o, NEW e,
         e.name = "error" => e = Fatal \/ e = Recoverable
  PROVE  /\ o.seen.terminal \/ o.excused => Put(o, e).seen.terminal \/ Put(o, e).excused
         /\ e # Recoverable => (Put(o, e).excused => o.excused)
         /\ open /\ Ending(e) => Put(o, e).seen.terminal \/ Put(o, e).excused
<1>1. CASE ~open BY <1>1 DEF Put
<1>2. CASE open
  <2>1. Put(o, e) = Written(o, e) BY <1>2 DEF Put
  <2>2. Fatal.name = "error" /\ Fatal.what = "fatal" /\ Cancellation.name = "cancellation"
        /\ Recoverable.name = "error"
    BY DEF Fatal, Cancellation, Recoverable, Event
  <2>3. /\ Written(o, e).seen.terminal <=>
              \/ e.name = "cancellation"
              \/ e.name = "error" /\ e.what = "fatal"
              \/ o.seen.terminal /\ e.name # "error"
        /\ Written(o, e).excused <=> o.excused \/ e = Recoverable
    <3>1. Written(o, e).seen = Read(o.seen, e) BY WrittenFields
    <3>2. Written(o, e).excused <=> o.excused \/ e = Recoverable BY WrittenFields
    <3>3. Read(o.seen, e).terminal <=>
              \/ e.name = "cancellation"
              \/ e.name = "error" /\ e.what = "fatal"
              \/ o.seen.terminal /\ e.name # "error"
      BY ReadFields, Zenon
    <3> QED BY <3>1, <3>2, <3>3
  <2>4. CASE e = Recoverable BY <1>2, <2>1, <2>3, <2>4
  <2>5. CASE e = Fatal BY <1>2, <2>1, <2>2, <2>3, <2>5
  <2>6. CASE e # Recoverable /\ e # Fatal
    <3>1. e.name # "error" BY <2>6
    <3>2. Ending(e) => e = Cancellation BY <2>6 DEF Ending
    <3> QED BY <1>2, <2>1, <2>2, <2>3, <2>6, <3>1, <3>2
  <2> QED BY <2>4, <2>5, <2>6
<1> QED BY <1>1, <1>2

-----------------------------------------------------------------------------
(* Steps that do not concern the supervision: most of them.                *)

Plain(e) == ~IsVerdict(e) /\ e # Delta("student")
Moves ==
  {<<"student", "studentSettled">>, <<"teacher", "teacherFlush">>, <<"teacherCreate", "teacher">>,
   <<"supervisedOpen", "studentCreate">>}
Moved ==
  \/ at' = at
  \/ at' \notin SupervisedPlaces /\ (at \notin {"student", "studentSettled"} \/ queue' = <<>>)
  \/ <<at, at'>> \in Moves
  \/ at = "studentSettled" /\ at' = "finalCheck" /\ segment.decision = "none" /\ queue' = <<>>
QueueKept ==
  \/ queue' = queue
  \/ \E new \in Seq(Chained) : Longer(new) /\ \A i \in 1..Len(new) : Plain(new[i])
Indifferent ==
  /\ Moved
  /\ backend' = backend /\ run' = run
  /\ UNCHANGED <<segment.partial, segment.decision, segment.marker>>
  /\ segment'.judging \in {segment.judging, NoCheck}
  /\ open' => open
  /\ SameVerdicts(out, out')
  /\ QueueKept

LEMMA SlotsKept ==
  ASSUME Typed, QueueKept
  PROVE  /\ \A i \in Slots' : (i \in Slots /\ queue'[i] = queue[i]) \/ Plain(queue'[i])
         /\ \A i \in Slots : i \in Slots' /\ queue'[i] = queue[i]
<1>1. CASE queue' = queue BY <1>1 DEF Slots
<1>2. ASSUME NEW new \in Seq(Chained), Longer(new), \A i \in 1..Len(new) : Plain(new[i])
      PROVE  /\ \A i \in Slots' : (i \in Slots /\ queue'[i] = queue[i]) \/ Plain(queue'[i])
             /\ \A i \in Slots : i \in Slots' /\ queue'[i] = queue[i]
  <2>1. /\ Len(queue') = Len(queue) + Len(new)
        /\ \A i \in 1..Len(queue) : queue'[i] = queue[i]
        /\ \A i \in 1..Len(new) : queue'[Len(queue) + i] = new[i]
        /\ \A i \in 1..Len(queue') : i \in 1..Len(queue) \/ i - Len(queue) \in 1..Len(new)
    BY <1>2, Lengthened
  <2>2. Len(queue) \in Nat /\ Len(new) \in Nat BY LenProperties DEF Typed
  <2>3. ASSUME NEW i \in Slots' PROVE (i \in Slots /\ queue'[i] = queue[i]) \/ Plain(queue'[i])
    <3>1. CASE i \in 1..Len(queue) BY <2>1, <3>1 DEF Slots
    <3>2. CASE i - Len(queue) \in 1..Len(new)
      <4>1. queue'[Len(queue) + (i - Len(queue))] = new[i - Len(queue)] BY <2>1, <3>2
      <4>2. Len(queue) + (i - Len(queue)) = i BY <2>2, <2>3 DEF Slots
      <4> QED BY <1>2, <3>2, <4>1, <4>2
    <3> QED BY <2>1, <2>3, <3>1, <3>2 DEF Slots
  <2> QED BY <2>1, <2>2, <2>3 DEF Slots
<1> QED BY <1>1, <1>2 DEF QueueKept

LEMMA MarkersIndifferent ==
  ASSUME Typed, MarkersInv, Indifferent
  PROVE  MarkersInv'
<1>1. Unmarked' => Unmarked
  BY DEF Unmarked, Indifferent, Moved, Moves, SupervisedPlaces, Interventions
<1>2. ASSUME NEW m, Given(m) PROVE Given(m)'
  <2>1. CASE \E n \in 0..(run.boundaries - 1) : m = VerdictMarker(n) /\ n # segment.judging
    <3>1. PICK n \in 0..(run.boundaries - 1) : m = VerdictMarker(n) /\ n # segment.judging BY <2>1
    <3>2. n # segment'.judging BY <3>1, RunFields DEF Indifferent, NoCheck
    <3> QED BY <3>1, <3>2 DEF Given, Indifferent
  <2>2. CASE \E n \in 0..run.markers : m = InterventionMarker(n) /\ (Unmarked => n < run.markers)
    BY <1>1, <2>2 DEF Given, Indifferent
  <2> QED BY <1>2, <2>1, <2>2 DEF Given
<1>3. /\ \A i \in Slots' : (i \in Slots /\ queue'[i] = queue[i]) \/ Plain(queue'[i])
      /\ \A i \in Slots : i \in Slots' /\ queue'[i] = queue[i]
  BY SlotsKept DEF Indifferent
<1>4. \A i \in Slots' : IsVerdict(queue'[i]) => i \in Slots /\ queue'[i] = queue[i]
  BY <1>3 DEF Plain
<1>5. out'.labels = out.labels /\ ~out'.relabelled BY DEF Indifferent, SameVerdicts, MarkersInv
<1> QED BY <1>2, <1>4, <1>5 DEF MarkersInv

LEMMA NudgesIndifferent ==
  ASSUME BaseInv, BaseInv', NudgesInv, Indifferent
  PROVE  NudgesInv'
<1>1. \A i \in Slots' : (i \in Slots /\ queue'[i] = queue[i]) \/ Plain(queue'[i])
  BY SlotsKept DEF Indifferent, BaseInv
<1>2. \A i \in Slots' : IsNudge(queue'[i]) => i \in Slots /\ queue'[i] = queue[i]
  BY <1>1 DEF Plain, IsNudge
<1>3. out'.nudges = out.nudges /\ run' = run /\ segment'.decision = segment.decision
  BY DEF Indifferent, SameVerdicts
<1>4. queue' = <<>> => Slots' = {} BY DEF Slots
<1>5. \A i \in Slots' : IsNudge(queue'[i]) =>
        at' \in {"student", "studentSettled"} /\ segment'.decision = "nudge" /\ out'.nudges <= run'.nudges
  BY <1>2, <1>3, <1>4 DEF NudgesInv, Indifferent, Moved, Moves, SupervisedPlaces
<1>6. run.nudges \in Nat BY RunFields, SupervisedAssumption DEF BaseInv
<1>7. /\ at' \in {"supervisedOpen", "studentCreate", "finalCheck"} => out'.nudges <= run'.nudges
      /\ at' \in {"student", "studentSettled"} =>
           out'.nudges <= run'.nudges + (IF segment'.decision = "nudge" THEN 1 ELSE 0)
  BY <1>3, <1>6 DEF NudgesInv, Indifferent, Moved, Moves, SupervisedPlaces
<1> QED BY <1>2, <1>3, <1>5, <1>7 DEF NudgesInv

LEMMA AnswerIndifferent ==
  ASSUME BaseInv, BaseInv', AnswerInv, Indifferent
  PROVE  AnswerInv'
<1>1. /\ \A i \in Slots' : (i \in Slots /\ queue'[i] = queue[i]) \/ Plain(queue'[i])
      /\ \A i \in Slots : i \in Slots' /\ queue'[i] = queue[i]
  BY SlotsKept DEF Indifferent, BaseInv
<1>2. AnswerSlots' = AnswerSlots BY <1>1 DEF AnswerSlots, Plain
<1>3. /\ out'.student = out.student /\ run' = run /\ segment'.partial = segment.partial
      /\ backend' = backend /\ (open' => open)
  BY DEF Indifferent, SameVerdicts
<1>4. at' \in SupervisedPlaces => Partial' = Partial /\ at \in SupervisedPlaces
  BY <1>3 DEF Partial, Indifferent, Moved, Moves, SupervisedPlaces
<1>5. at' \in {"teacherCreate", "teacher", "teacherFlush"} =>
        at \in {"teacherCreate", "teacher", "teacherFlush"}
  BY DEF Indifferent, Moved, Moves, SupervisedPlaces
<1> QED BY <1>2, <1>3, <1>4, <1>5 DEF AnswerInv

LEMMA MarkerIndifferent ==
  ASSUME BaseInv, BaseInv', MarkerCited, Indifferent
  PROVE  MarkerCited'
<1>1. \A i \in Slots : i \in Slots' /\ queue'[i] = queue[i]
  BY SlotsKept DEF Indifferent, BaseInv
<1>2. at' \in {"student", "studentSettled"} => at \in {"student", "studentSettled"}
  BY DEF Indifferent, Moved, Moves, SupervisedPlaces
<1>3. /\ out'.seen.marked = out.seen.marked /\ segment'.decision = segment.decision
      /\ segment'.marker = segment.marker /\ (open' => open)
  BY DEF Indifferent, SameVerdicts
<1> QED BY <1>1, <1>2, <1>3 DEF MarkerCited

LEMMA PutPlain ==
  ASSUME NEW o, NEW e, Plain(e), e.name # "student_interruption"
  PROVE  SameVerdicts(o, Put(o, e))
<1>1. CASE ~open BY <1>1, SameRefl DEF Put
<1>2. CASE open
  <2>1. Put(o, e) = Written(o, e) BY <1>2 DEF Put
  <2>2. Written(o, e).seen = Read(o.seen, e) BY WrittenFields
  <2>3. Read(o.seen, e).marked = o.seen.marked /\ Read(o.seen, e).interrupted = o.seen.interrupted
    BY ReadFields DEF Plain, IsVerdict
  <2>4. SameVerdicts(o, Written(o, e))
    BY <2>2, <2>3, WrittenFields DEF Plain, IsVerdict, SameVerdicts
  <2> QED BY <2>1, <2>4
<1> QED BY <1>1, <1>2

LEMMA PlainEvents ==
  /\ \A r \in Roles \cup {"supervisor"} : Plain(Usage(r))
  /\ Plain(Compaction) /\ Plain(Cancellation) /\ Plain(Fatal) /\ Plain(Recoverable) /\ Plain(Message)
  /\ Plain(Delta("assistant")) /\ Plain(Delta("teacher"))
  /\ \A c : /\ Plain(ToolCall(c)) /\ Plain(ToolResult(c))
            /\ ToolCall(c).name = "tool_call" /\ ToolResult(c).name = "tool_result"
BY DEF Plain, IsVerdict, Usage, Compaction, Cancellation, Fatal, Recoverable, Message, Delta, ToolCall,
  ToolResult, Event, NoId, CallId

LEMMA AppendedPlain ==
  ASSUME Typed, NEW e \in Chained, Plain(e), queue' = Append(queue, e)
  PROVE  QueueKept
<1>1. <<e>> \in Seq(Chained) /\ Longer(<<e>>) BY Appended
<1>2. \A i \in 1..Len(<<e>>) : Plain(<<e>>[i]) OBVIOUS
<1> QED BY <1>1, <1>2, Zenon DEF QueueKept

LEMMA CallbackKept ==
  ASSUME BaseInv, NEW role \in Roles, NEW planned \in BOOLEAN,
         Callback(role, planned) \/ (role # "student" /\ OnDelta(role))
  PROVE  QueueKept
<1>0. Typed BY DEF BaseInv
<1>1. ASSUME NEW c \in SessionCalls, CalledTool(c) \/ EndedTool(c) PROVE QueueKept
  <2>1. ToolCall(c) \in Chained /\ ToolResult(c) \in Chained BY ChainedEvents
  <2>2. Plain(ToolCall(c)) /\ Plain(ToolResult(c)) BY PlainEvents
  <2> QED BY <1>0, <1>1, <2>1, <2>2, AppendedPlain DEF CalledTool, EndedTool
<1>2. CASE Reported(role)
  <2>1. PICK new \in Seq(Chained) : Longer(new) /\ \A i \in 1..Len(new) : new[i] \in Reports(role)
    BY <1>2 DEF Reported
  <2>2. \A e \in Reports(role) : Plain(e) BY PlainEvents DEF Reports
  <2> QED BY <2>1, <2>2 DEF QueueKept
<1>3. CASE Callback(role, planned) BY <1>1, <1>2, <1>3, CallbackEffect
<1>4. CASE role # "student" /\ OnDelta(role)
  <2>1. Delta(role) \in Chained /\ Plain(Delta(role)) BY <1>4, ChainedEvents, PlainEvents DEF Roles
  <2>2. queue' = Append(queue, Delta(role)) BY <1>0, <1>4, DeltaEffect
  <2> QED BY <1>0, <2>1, <2>2, AppendedPlain
<1> QED BY <1>3, <1>4

LEMMA PiIndifferent == BaseInv /\ PiStep => Indifferent
<1> SUFFICES ASSUME BaseInv, PiStep PROVE Indifferent OBVIOUS
<1>0. AdapterOK /\ Typed /\ AtPlace BY SameBase
<1>1. UNCHANGED <<backend, run, segment, open>> /\ at \in PiPlaces
      /\ at' \in PiPlaces \cup {"returned", "thrown"}
  BY DEF PiStep, supervisedVars, PiNext, PiCreate, PiCreateThrows, PiCompacts, PiCallback, PiContinue,
    PiPrompted, PiFlushed, streamVars, PiPlaces, PiFails
<1>2. Moved BY <1>1 DEF Moved, PiPlaces, SupervisedPlaces
<1>3. SameVerdicts(out, out')
  <2>1. out' = out \/ \E e \in {Message, Cancellation, Fatal} : out' = Put(out, e)
    BY DEF PiStep, PiNext, PiCreate, PiCreateThrows, PiCompacts, PiCallback, PiContinue,
      PiPrompted, PiFlushed, streamVars, PiFails
  <2>2. \A e \in {Message, Cancellation, Fatal} : Quiet(e) BY QuietEvents
  <2> QED BY <2>1, <2>2, PutQuiet, SameRefl
<1>4. QueueKept
  <2>1. CASE PiCreate BY <1>0, <2>1 DEF PiCreate, OpenSession, AtPlace, WithSession, QueueKept
  <2>2. CASE PiCallback BY <2>2, CallbackKept DEF PiCallback, Roles
  <2>3. CASE PiCompacts \/ PiPrompted
    <3>1. queue' = queue \/ \E e \in {Compaction, Recoverable} : queue' = Append(queue, e)
      BY <2>3 DEF PiCompacts, PiPrompted
    <3>2. \A e \in {Compaction, Recoverable} : e \in Chained /\ Plain(e) BY ChainedEvents, PlainEvents
    <3> QED BY <1>0, <3>1, <3>2, AppendedPlain DEF QueueKept
  <2>4. CASE PiCreateThrows \/ PiContinue \/ PiFlushed
    BY <2>4 DEF PiCreateThrows, PiContinue, PiFlushed, adapterVars, QueueKept
  <2> QED BY <2>1, <2>2, <2>3, <2>4 DEF PiStep, PiNext
<1> QED BY <1>1, <1>2, <1>3, <1>4 DEF Indifferent

LEMMA VercelIndifferent == BaseInv /\ VercelStep => Indifferent
<1> SUFFICES ASSUME BaseInv, VercelStep PROVE Indifferent OBVIOUS
<1>1. UNCHANGED <<backend, run, segment, open, queue>> /\ at \in VercelPlaces
      /\ at' \in VercelPlaces \cup {"returned"}
  BY DEF VercelStep, VercelNext, supervisedVars, Keep, adapterVars, VercelPlaces,
    VercelOpen, TextPart, FinishPart, StreamFails, StreamEnds, InputPart, CallPart, ResultPart,
    FlushInput, Flushing
<1>2. Moved BY <1>1 DEF Moved, VercelPlaces, SupervisedPlaces
<1> DEFINE Es == {Message, Delta("assistant"), Usage("assistant"), Cancellation, Fatal}
                 \cup {ToolCall(c) : c \in StreamCalls} \cup {ToolResult(c) : c \in StreamCalls}
<1>3. \A o : \A e \in Es : SameVerdicts(o, Put(o, e))
  <2>1. ASSUME NEW e \in Es PROVE Plain(e) /\ e.name # "student_interruption"
    BY PlainEvents DEF Roles, Message, Delta, Usage, Cancellation, Fatal, Event
  <2> QED BY <2>1, PutPlain
<1>4. SameVerdicts(out, out')
  <2>1. ASSUME NEW c \in StreamCalls, FlushInput(c) PROVE SameVerdicts(out, out')
    <3>1. ToolCall(c) \in Es /\ ToolResult(c) \in Es OBVIOUS
    <3>2. \E o \in {out, Put(out, ToolCall(c))} : out' = Put(o, ToolResult(c))
      BY <2>1 DEF FlushInput, Failing
    <3> QED BY <1>3, <3>1, <3>2 DEF SameVerdicts
  <2>2. ASSUME NEW c \in StreamCalls, InputPart(c) \/ CallPart(c) \/ ResultPart(c)
        PROVE  SameVerdicts(out, out')
    <3>1. ToolCall(c) \in Es /\ ToolResult(c) \in Es OBVIOUS
    <3>2. out' = out \/ out' = Put(out, ToolCall(c)) \/ out' = Put(out, ToolResult(c))
      BY <2>2 DEF InputPart, CallPart, ResultPart
    <3> QED BY <1>3, <3>1, <3>2, SameRefl
  <2>3. CASE VercelOpen \/ TextPart \/ FinishPart \/ StreamFails \/ StreamEnds
    <3>1. out' = out \/ \E e \in Es : out' = Put(out, e)
      BY <2>3 DEF VercelOpen, TextPart, FinishPart, StreamFails, StreamEnds
    <3> QED BY <1>3, <3>1, SameRefl
  <2> QED BY <2>1, <2>2, <2>3 DEF VercelStep, VercelNext
<1> QED BY <1>1, <1>2, <1>4 DEF Indifferent, QueueKept

(* The steps of the supervised runtime and of the sidecar that do not concern  *)
(* the supervision.                                                        *)
SupervisedAside ==
  \/ SupervisedOpen \/ CreateThrows \/ StudentCallback \/ CheckAborted \/ StudentSettles
  \/ AskOnceMore \/ FinalAborted
  \/ TeacherCreate \/ TeacherCallback \/ TeacherSettles \/ TeacherFlushed
CommonAside == Refuse \/ Finish \/ Cancel \/ Disconnect \/ UNCHANGED vars

LEMMA SupervisedIndifferent == BaseInv /\ SupervisedStep /\ SupervisedAside => Indifferent
<1> SUFFICES ASSUME BaseInv, SupervisedStep, SupervisedAside PROVE Indifferent OBVIOUS
<1>0. AdapterOK /\ Typed /\ AtPlace BY SameBase
<1> USE DEF SupervisedAside, streamVars, adapterVars, supervisedVars
<1>1. UNCHANGED <<backend, run, segment.partial, segment.decision, segment.marker, open>>
      /\ segment'.judging \in {segment.judging, NoCheck}
  <2>1. CASE CheckAborted
    BY <1>0, <2>1, SegmentFields DEF CheckAborted, SupervisedStep
  <2>2. CASE StudentSettles
    BY <1>0, <2>2, SegmentFields DEF StudentSettles, SupervisedStep
  <2>3. CASE UNCHANGED <<segment, run>>
    BY <2>3 DEF SupervisedStep, SupervisedOpen, CreateThrows, StudentCallback, AskOnceMore,
      FinalAborted, TeacherCreate, TeacherCallback, TeacherSettles, TeacherFlushed, CheckAborted,
      StudentSettles
  <2> QED BY <2>1, <2>2, <2>3
      DEF SupervisedOpen, CreateThrows, StudentCallback, AskOnceMore, FinalAborted, TeacherCreate,
        TeacherCallback, TeacherSettles, TeacherFlushed
<1>2. Moved
  BY <1>0 DEF Moved, Moves, SupervisedPlaces, SupervisedOpen, CreateThrows, StudentCallback,
    CheckAborted, StudentSettles, AskOnceMore, Flushed, FinalCheckDue, FinalAborted, TeacherCreate,
    TeacherCallback, TeacherSettles, TeacherFlushed
<1>3. SameVerdicts(out, out')
  <2>1. out' = out \/ \E e \in {Message, Cancellation, Fatal} : out' = Put(out, e)
    BY DEF SupervisedOpen, CreateThrows, StudentCallback, CheckAborted, StudentSettles, AskOnceMore,
      FinalAborted, TeacherCreate, TeacherCallback, TeacherSettles, TeacherFlushed
  <2>2. \A e \in {Message, Cancellation, Fatal} : Quiet(e) BY QuietEvents
  <2> QED BY <2>1, <2>2, PutQuiet, SameRefl
<1>4. QueueKept
  <2>1. CASE StudentCallback
    BY <1>0, <2>1, CallbackKept, SegmentFields DEF StudentCallback, Roles
  <2>2. CASE TeacherCallback
    BY <2>2, CallbackKept DEF TeacherCallback, Roles
  <2>3. CASE TeacherCreate
    BY <1>0, <2>3 DEF TeacherCreate, OpenSession, AtPlace, WithSession, QueueKept
  <2>4. CASE queue' = queue BY <2>4 DEF QueueKept
  <2> QED BY <2>1, <2>2, <2>3, <2>4
      DEF SupervisedOpen, CreateThrows, CheckAborted, StudentSettles, AskOnceMore, FinalAborted,
        TeacherSettles, TeacherFlushed
<1> QED BY <1>1, <1>2, <1>3, <1>4 DEF Indifferent

LEMMA CommonIndifferent == BaseInv /\ CommonAside => Indifferent
<1> SUFFICES ASSUME BaseInv, CommonAside PROVE Indifferent OBVIOUS
<1>1. /\ UNCHANGED <<backend, run, segment, queue>>
      /\ open' => open
      /\ at' = at \/ (at' \in {"thrown", "done"} /\ at \notin {"student", "studentSettled"})
      /\ out' = out \/ out' = Put(out, Fatal)
  <2>1. backend \in {"pi", "supervised", "vercel"} BY Where
  <2>2. Starts[backend] \notin {"student", "studentSettled"} BY <2>1 DEF Starts
  <2>3. CASE Refuse BY <2>2, <2>3 DEF Refuse, streamVars, adapterVars, supervisedVars
  <2>4. CASE Finish BY <2>4 DEF Finish, adapterVars, supervisedVars
  <2>5. CASE Cancel \/ Disconnect BY <2>5 DEF Cancel, Disconnect, Abort, adapterVars, supervisedVars
  <2>6. CASE UNCHANGED vars BY <2>6 DEF vars, streamVars, adapterVars, supervisedVars
  <2> QED BY <2>3, <2>4, <2>5, <2>6 DEF CommonAside
<1>2. SameVerdicts(out, out') BY <1>1, QuietEvents, PutQuiet, SameRefl
<1> QED BY <1>1, <1>2 DEF Indifferent, Moved, SupervisedPlaces, QueueKept

(* The steps that remain for the supervision's invariants. *)
Concerned ==
  \/ StudentCreate \/ StudentDelta \/ StudentEnds \/ CheckResolves \/ FinalResolves \/ ChainStep
LEMMA StepKinds ==
  ASSUME BaseInv, [Next]_vars
  PROVE  Indifferent \/ (Concerned /\ UNCHANGED backend)
<1>1. CASE SupervisedStep
  BY <1>1, SupervisedIndifferent DEF SupervisedStep, SupervisedNext, SupervisedAside, Concerned
<1>2. CASE SupervisorStep BY <1>2 DEF SupervisorStep, Supervisor, Concerned
<1>3. CASE ChainStep BY <1>3 DEF ChainStep, Concerned
<1> QED BY <1>1, <1>2, <1>3, PiIndifferent, VercelIndifferent, CommonIndifferent DEF Next, CommonAside

-----------------------------------------------------------------------------
(* What the remaining steps do. *)

LEMMA PutVerdict ==
  ASSUME NEW o, NEW v \in Verdicts, NEW m
  PROVE  /\ ~open => Put(o, Verdict(v, m)) = o
         /\ open =>
              /\ Put(o, Verdict(v, m)).nudges = IF v = "nudge" THEN o.nudges + 1 ELSE o.nudges
              /\ Put(o, Verdict(v, m)).labels = o.labels \cup {m}
              /\ Put(o, Verdict(v, m)).relabelled <=> o.relabelled \/ m \in o.labels
              /\ Put(o, Verdict(v, m)).seen.marked =
                   IF v \in Interventions THEN o.seen.marked \cup {m} ELSE o.seen.marked
         /\ Put(o, Verdict(v, m)).student = o.student
         /\ Put(o, Verdict(v, m)).seen.interrupted = o.seen.interrupted
         /\ SameCalls(o, Put(o, Verdict(v, m))) /\ SameTold(o, Put(o, Verdict(v, m)))
<1> DEFINE e == Verdict(v, m)
<1>1. e.name = "supervisor_verdict" /\ e.what = v /\ e.id = m /\ e # Delta("student") /\ e # Recoverable
  BY DEF Verdict, Event, Delta, Recoverable
<1> HIDE DEF e
<1>2. CASE ~open BY <1>2, SameRefl DEF Put, e
<1>3. CASE open
  <2>1. Put(o, e) = Written(o, e) BY <1>3 DEF Put
  <2>2. Written(o, e).seen = Read(o.seen, e) BY WrittenFields
  <2>3. /\ Read(o.seen, e).pending = o.seen.pending
        /\ Read(o.seen, e).marked = IF v \in Interventions THEN o.seen.marked \cup {m} ELSE o.seen.marked
        /\ Read(o.seen, e).interrupted = o.seen.interrupted
        /\ Read(o.seen, e).faults = o.seen.faults \cup FaultsOf(o.seen, e)
        /\ o.seen.terminal => Read(o.seen, e).terminal
    BY <1>1, ReadFields
  <2>4. FaultsOf(o.seen, e) \subseteq {"follows_terminal"} BY <1>1 DEF FaultsOf
  <2>5. SameCalls(o, Written(o, e)) BY <2>2, <2>3, <2>4 DEF SameCalls
  <2>6. SameTold(o, Written(o, e))
    <3>1. Written(o, e).excused <=> o.excused BY <1>1, WrittenFields
    <3> QED BY <2>2, <2>3, <3>1 DEF SameTold
  <2>7. /\ Written(o, e).nudges = IF v = "nudge" THEN o.nudges + 1 ELSE o.nudges
        /\ Written(o, e).labels = o.labels \cup {m}
        /\ Written(o, e).relabelled <=> o.relabelled \/ m \in o.labels
        /\ Written(o, e).student = o.student
    BY <1>1, WrittenFields
  <2> QED BY <1>3, <2>1, <2>2, <2>3, <2>5, <2>6, <2>7 DEF e
<1> QED BY <1>2, <1>3

LEMMA VerdictSilent ==
  ASSUME NEW o, NEW v, NEW m
  PROVE  Put(o, Verdict(v, m)).student = o.student
<1>1. Verdict(v, m) # Delta("student") BY DEF Verdict, Event, Delta
<1>2. Written(o, Verdict(v, m)).student =
        IF Verdict(v, m) = Delta("student") THEN o.student + 1 ELSE o.student
  BY WrittenFields
<1> QED BY <1>1, <1>2 DEF Put

(* Only a student_interruption adds to the interruptions. *)
LEMMA PutUninterrupted ==
  ASSUME NEW o, NEW e, e.name # "student_interruption"
  PROVE  Put(o, e).seen.interrupted = o.seen.interrupted
<1>1. Read(o.seen, e).interrupted = o.seen.interrupted BY ReadFields
<1>2. Written(o, e).seen = Read(o.seen, e) BY WrittenFields
<1> QED BY <1>1, <1>2 DEF Put

(* An interruption and the continuation that cites it. *)
LEMMA PutHandOver ==
  ASSUME NEW o, NEW m
  PROVE  LET q == HandOver(o, m)
         IN /\ ~open => q = o
            /\ q.student = o.student /\ q.nudges = o.nudges /\ q.labels = o.labels
            /\ q.relabelled => o.relabelled
            /\ q.seen.marked = o.seen.marked /\ q.seen.pending = o.seen.pending
            /\ open => q.seen.interrupted = o.seen.interrupted \cup {m}
            /\ SameTold(o, q)
            /\ ~open \/ m \in o.seen.marked => SameCalls(o, q)
<1> DEFINE e == Interruption(m)
           d == Continuation(m)
<1>1. /\ e.name = "student_interruption" /\ e.id = m /\ e # Delta("student") /\ e # Recoverable
      /\ d.name = "teacher_continuation" /\ d.id = m /\ d # Delta("student") /\ d # Recoverable
  BY DEF Interruption, Continuation, Event, Delta, Recoverable
<1> HIDE DEF e, d
<1>2. CASE ~open
  <2>1. HandOver(o, m) = o BY <1>2 DEF HandOver, Put
  <2> QED BY <1>2, <2>1, SameRefl
<1>3. CASE open
  <2>1. HandOver(o, m) = Written(Written(o, e), d) BY <1>3 DEF HandOver, Put, e, d
  <2> DEFINE p == Written(o, e)
  <2>2. p.seen = Read(o.seen, e) /\ Written(p, d).seen = Read(p.seen, d) BY WrittenFields
  <2>a. /\ Read(o.seen, e).pending = o.seen.pending
        /\ Read(o.seen, e).marked = o.seen.marked
        /\ Read(o.seen, e).interrupted = o.seen.interrupted \cup {m}
        /\ Read(o.seen, e).faults = o.seen.faults \cup FaultsOf(o.seen, e)
    <3>1. Read(o.seen, e).pending = o.seen.pending BY <1>1, ReadFields
    <3>2. Read(o.seen, e).marked = o.seen.marked BY <1>1, ReadFields
    <3>a. Read(o.seen, e).interrupted =
            IF e.name = "student_interruption" THEN o.seen.interrupted \cup {e.id} ELSE o.seen.interrupted
      BY ReadFields
    <3>3. Read(o.seen, e).interrupted = o.seen.interrupted \cup {m} BY <1>1, <3>a
    <3>4. Read(o.seen, e).faults = o.seen.faults \cup FaultsOf(o.seen, e) BY ReadFields
    <3> QED BY <3>1, <3>2, <3>3, <3>4
  <2>c. o.seen.terminal => Read(o.seen, e).terminal
    BY <1>1, ReadFields
  <2>3. /\ p.seen.pending = o.seen.pending
        /\ p.seen.marked = o.seen.marked
        /\ p.seen.interrupted = o.seen.interrupted \cup {m}
        /\ p.seen.faults = o.seen.faults \cup FaultsOf(o.seen, e)
        /\ o.seen.terminal => p.seen.terminal
    BY <2>2, <2>a, <2>c
  <2>4. p.student = o.student /\ p.nudges = o.nudges /\ p.labels = o.labels
        /\ (p.relabelled => o.relabelled) /\ (p.excused <=> o.excused)
    BY <1>1, WrittenFields
  <2> HIDE DEF p
  <2>b. /\ Read(p.seen, d).pending = p.seen.pending
        /\ Read(p.seen, d).marked = p.seen.marked
        /\ Read(p.seen, d).interrupted = p.seen.interrupted
        /\ Read(p.seen, d).faults = p.seen.faults \cup FaultsOf(p.seen, d)
        /\ p.seen.terminal => Read(p.seen, d).terminal
    BY <1>1, ReadFields
  <2>5. /\ Written(p, d).seen.pending = p.seen.pending
        /\ Written(p, d).seen.marked = p.seen.marked
        /\ Written(p, d).seen.interrupted = p.seen.interrupted
        /\ Written(p, d).seen.faults = p.seen.faults \cup FaultsOf(p.seen, d)
        /\ p.seen.terminal => Written(p, d).seen.terminal
    BY <2>2, <2>b
  <2>6. Written(p, d).student = p.student /\ Written(p, d).nudges = p.nudges
        /\ Written(p, d).labels = p.labels
        /\ (Written(p, d).relabelled => p.relabelled) /\ (Written(p, d).excused <=> p.excused)
    BY <1>1, WrittenFields
  <2>7. SameTold(o, Written(p, d)) BY <2>3, <2>4, <2>5, <2>6 DEF SameTold
  <2>8. ASSUME m \in o.seen.marked PROVE SameCalls(o, Written(p, d))
    <3>1. FaultsOf(o.seen, e) \subseteq {"follows_terminal"} BY <1>1, <2>8 DEF FaultsOf
    <3>2. FaultsOf(p.seen, d) \subseteq {"follows_terminal"} BY <1>1, <2>3 DEF FaultsOf
    <3> QED BY <2>3, <2>5, <3>1, <3>2 DEF SameCalls
  <2>9. HandOver(o, m) = Written(p, d) BY <2>1 DEF p
  <2> QED BY <1>3, <2>3, <2>4, <2>5, <2>6, <2>7, <2>8, <2>9
<1> QED BY <1>2, <1>3

LEMMA CreateChange ==
  ASSUME BaseInv, StudentCreate
  PROVE  /\ at = "studentCreate" /\ at' = "student" /\ queue = <<>> /\ queue' = <<>>
         /\ UNCHANGED <<out, open, signal, run>> /\ segment' = NewSegment /\ said' = FALSE
BY DEF BaseInv, AtPlace, WithSession, StudentCreate, OpenSession, streamVars

LEMMA DeltaChange ==
  ASSUME BaseInv, StudentDelta
  PROVE  /\ at = "student" /\ at' = "student" /\ UNCHANGED <<out, open, signal, said>>
         /\ queue' = Append(queue, Delta("student"))
         /\ segment'.partial = segment.partial + 1
         /\ UNCHANGED <<segment.decision, segment.marker, segment.failed>>
         /\ UNCHANGED <<run.total, run.markers, run.nudges>>
         /\ \/ segment'.judging = segment.judging /\ run'.boundaries = run.boundaries
            \/ /\ segment'.judging = run.boundaries /\ run'.boundaries = run.boundaries + 1
               /\ segment.judging = NoCheck
         /\ SessionKept /\ stop' = stop
<1>0. Typed BY DEF BaseInv
<1>1. /\ queue' = Append(queue, Delta("student")) /\ said' = said /\ SessionKept /\ stop' = stop
  BY <1>0, DeltaEffect DEF StudentDelta, Roles
<1>2. CASE segment' = [segment EXCEPT !.partial = @ + 1] /\ UNCHANGED run
  <2>1. segment' = [partial |-> segment.partial + 1, checked |-> segment.checked,
                    asked |-> segment.asked, judging |-> segment.judging,
                    decision |-> segment.decision, marker |-> segment.marker,
                    planned |-> segment.planned, failed |-> segment.failed,
                    completed |-> segment.completed]
    BY <1>0, <1>2, SegmentFields
  <2> QED BY <1>1, <1>2, <2>1 DEF StudentDelta, streamVars
<1>3. CASE /\ segment.decision = "none" /\ ~Judging
           /\ segment' = [[segment EXCEPT !.partial = @ + 1] EXCEPT
                            !.checked = [segment EXCEPT !.partial = @ + 1].partial,
                            !.asked = TRUE, !.judging = run.boundaries]
           /\ run' = [run EXCEPT !.boundaries = @ + 1]
  <2>1. segment' = [partial |-> segment.partial + 1, checked |-> segment.partial + 1,
                    asked |-> TRUE, judging |-> run.boundaries,
                    decision |-> segment.decision, marker |-> segment.marker,
                    planned |-> segment.planned, failed |-> segment.failed,
                    completed |-> segment.completed]
    BY <1>0, <1>3, SegmentFields
  <2>2. run' = [total |-> run.total, markers |-> run.markers, boundaries |-> run.boundaries + 1,
                nudges |-> run.nudges]
    BY <1>0, <1>3, RunFields
  <2> QED BY <1>1, <1>3, <2>1, <2>2 DEF StudentDelta, streamVars, Judging
<1> QED BY <1>2, <1>3 DEF StudentDelta

LEMMA CheckChange ==
  ASSUME BaseInv, CheckResolves
  PROVE  /\ \E v \in Verdicts, m \in MarkerIds : Judged(v, m)
         /\ at' = at /\ at \in {"student", "studentSettled"} /\ segment.decision = "none"
         /\ segment.judging \in Nat /\ segment.judging < run.boundaries
         /\ UNCHANGED <<out, open, signal, run, said, stop, session>>
<1>1. \E v \in Verdicts, m \in MarkerIds : Judged(v, m) BY CheckEffect DEF BaseInv
<1> QED BY <1>1, SegmentFields DEF BaseInv, AtPlace, CheckResolves, streamVars, Judging

EndOf(o) ==
  Ended(o, run, segment.decision, segment.marker,
        signal \/ said \/ (segment.decision = "none" /\ segment.failed))
LEMMA EndChange ==
  ASSUME BaseInv, StudentEnds
  PROVE  /\ at = "studentSettled" /\ ~Judging /\ queue = <<>> /\ queue' = <<>>
         /\ UNCHANGED <<open, signal, said, stop, segment>>
         /\ EndOf(IF ~said /\ signal THEN Put(out, Cancellation)
                  ELSE IF ~said /\ segment.failed /\ segment.decision = "none" THEN Put(out, Fatal)
                  ELSE out)
<1>0. Typed /\ AtPlace BY DEF BaseInv
<1> DEFINE o == CASE said -> out
                  [] ~said /\ signal -> Put(out, Cancellation)
                  [] ~said /\ ~signal /\ segment.failed /\ segment.decision = "none" -> Put(out, Fatal)
                  [] OTHER -> out
           p == IF ~said /\ signal THEN Put(out, Cancellation)
                ELSE IF ~said /\ segment.failed /\ segment.decision = "none" THEN Put(out, Fatal)
                ELSE out
<1>1. EndSegment(o, run, segment.decision, segment.marker,
                 signal \/ said \/ (segment.decision = "none" /\ segment.failed))
  BY DEF StudentEnds
<1>2. o = p OBVIOUS
<1> HIDE DEF o, p
<1>3. run \in RunType /\ (segment.decision = "nudge" => run.nudges < MaxNudges)
  BY <1>0 DEF Typed, AtPlace, StudentEnds, Flushed
<1>4. EndOf(p) BY <1>0, <1>1, <1>2, <1>3, EndEffect DEF EndOf
<1> QED BY <1>4 DEF StudentEnds, Flushed, adapterVars, p

FinalEnd(v, m, r) ==
  /\ m = MarkerOf(v, run.boundaries) /\ (v = "nudge" => run.nudges < MaxNudges)
  /\ r \in RunType /\ r.total = run.total /\ r.markers = run.markers /\ r.nudges = run.nudges
  /\ r.boundaries = run.boundaries + 1
  /\ Ended(Put(Put(out, Verdict(v, m)), Usage("supervisor")), r, v, m, said)
LEMMA FinalChange ==
  ASSUME BaseInv, FinalResolves
  PROVE  /\ at = "finalCheck" /\ ~Judging /\ queue = <<>> /\ queue' = <<>>
         /\ segment.decision = "none" /\ ~segment.failed /\ ~signal
         /\ UNCHANGED <<open, signal, said, stop, segment>>
         /\ \E v \in Verdicts : \E m, r : FinalEnd(v, m, r)
<1>0. Typed /\ AtPlace BY DEF BaseInv
<1>1. PICK answer \in Verdicts :
        LET v == Degraded(answer)
            marker == MarkerOf(v, run.boundaries)
        IN EndSegment(Put(Put(out, Verdict(v, marker)), Usage("supervisor")),
                      [run EXCEPT !.boundaries = @ + 1], v, marker, said)
  BY DEF FinalResolves
<1> DEFINE v == Degraded(answer)
           m == MarkerOf(v, run.boundaries)
           r == [run EXCEPT !.boundaries = @ + 1]
<1>2. v \in Verdicts /\ (v = "nudge" => run.nudges < MaxNudges)
  BY <1>0, Allowed, RunFields
<1>3. r = [total |-> run.total, markers |-> run.markers, boundaries |-> run.boundaries + 1,
           nudges |-> run.nudges]
  BY <1>0, RunFields
<1>4. r \in RunType BY <1>0, <1>3, RunFields DEF RunType
<1>5. EndSegment(Put(Put(out, Verdict(v, m)), Usage("supervisor")), r, v, m, said) BY <1>1
<1>6. m = MarkerOf(v, run.boundaries) OBVIOUS
<1> HIDE DEF v, m, r
<1>7. r.nudges = run.nudges /\ r.total = run.total /\ r.markers = run.markers
      /\ r.boundaries = run.boundaries + 1
  BY <1>3
<1>8. Ended(Put(Put(out, Verdict(v, m)), Usage("supervisor")), r, v, m, said)
  BY <1>0, <1>2, <1>4, <1>5, <1>7, EndEffect DEF Typed
<1>9. FinalEnd(v, m, r) BY <1>2, <1>4, <1>6, <1>7, <1>8 DEF FinalEnd
<1>10. \E w \in Verdicts : \E n, s : FinalEnd(w, n, s) BY <1>2, <1>9
<1> QED BY <1>0, <1>10 DEF FinalResolves, AtPlace, adapterVars

(* Another event of the chain has reached the client. *)
LEMMA ChainChange ==
  ASSUME BaseInv, ChainStep
  PROVE  /\ queue # <<>> /\ queue[1] \in Chained /\ out' = Put(out, queue[1])
         /\ Slots # {} /\ 1 \in Slots /\ \A i \in Slots' : i + 1 \in Slots /\ queue'[i] = queue[i + 1]
         /\ \A i \in Slots : i = 1 \/ (i - 1 \in Slots' /\ queue'[i - 1] = queue[i])
         /\ UNCHANGED <<backend, at, signal, open, said, stop, session, run, segment, tools>>
<1>0. Typed BY DEF BaseInv
<1>1. queue # <<>> /\ out' = Put(out, Head(queue)) /\ queue' = Tail(queue)
  BY DEF ChainStep, Drain
<1>2. /\ queue' \in Seq(Chained) /\ Len(queue') = Len(queue) - 1 /\ Len(queue) >= 1
      /\ Head(queue) = queue[1] /\ queue[1] \in Chained
      /\ \A i \in 1..Len(queue') : queue'[i] = queue[i + 1]
  BY <1>0, <1>1, Shortened
<1>3. Len(queue) \in Nat /\ Len(queue') \in Nat BY <1>0, <1>2, LenProperties DEF Typed
<1>4. 1 \in Slots /\ \A i \in Slots' : i + 1 \in Slots /\ queue'[i] = queue[i + 1]
  BY <1>2, <1>3 DEF Slots
<1>5. ASSUME NEW i \in Slots, i # 1 PROVE i - 1 \in Slots' /\ queue'[i - 1] = queue[i]
  <2>1. i - 1 \in 1..Len(queue') BY <1>2, <1>3, <1>5 DEF Slots
  <2>2. queue'[i - 1] = queue[(i - 1) + 1] BY <1>2, <2>1
  <2>3. (i - 1) + 1 = i BY <1>5, <1>3 DEF Slots
  <2> QED BY <2>1, <2>2, <2>3 DEF Slots
<1> QED BY <1>1, <1>2, <1>4, <1>5
    DEF ChainStep, sessionVars, supervisedVars, vercelVars

-----------------------------------------------------------------------------
(* Markers. *)

LEMMA MarkersCreate ==
  ASSUME BaseInv, MarkersInv, StudentCreate
  PROVE  MarkersInv'
<1>1. /\ at = "studentCreate" /\ at' = "student" /\ queue' = <<>>
      /\ UNCHANGED <<out, run>> /\ segment' = NewSegment
  BY CreateChange
<1>2. Slots' = {} BY <1>1 DEF Slots
<1>3. segment'.judging = NoCheck BY <1>1 DEF NewSegment
<1>4. Unmarked BY <1>1 DEF Unmarked
<1>5. \A m : Given(m) => Given(m)' BY <1>1, <1>3, <1>4, RunFields DEF Given, NoCheck, BaseInv
<1> QED BY <1>1, <1>2, <1>5 DEF MarkersInv

LEMMA MarkersDelta ==
  ASSUME BaseInv, MarkersInv, StudentDelta
  PROVE  MarkersInv'
<1>0. Typed BY DEF BaseInv
<1>1. /\ at' = at /\ out' = out /\ queue' = Append(queue, Delta("student"))
      /\ segment'.decision = segment.decision /\ run'.markers = run.markers
      /\ \/ segment'.judging = segment.judging /\ run'.boundaries = run.boundaries
         \/ /\ segment'.judging = run.boundaries /\ run'.boundaries = run.boundaries + 1
            /\ segment.judging = NoCheck
  BY DeltaChange
<1>2. Unmarked' = Unmarked BY <1>1 DEF Unmarked
<1>3. run.boundaries \in Nat BY <1>0, RunFields
<1>4. ASSUME NEW m, Given(m) PROVE Given(m)'
  <2>1. CASE \E n \in 0..(run.boundaries - 1) : m = VerdictMarker(n) /\ n # segment.judging
    <3>1. PICK n \in 0..(run.boundaries - 1) : m = VerdictMarker(n) /\ n # segment.judging BY <2>1
    <3>2. n \in 0..(run'.boundaries - 1) /\ n # segment'.judging BY <1>1, <1>3, <3>1
    <3> QED BY <3>1, <3>2 DEF Given
  <2>2. CASE \E n \in 0..run.markers : m = InterventionMarker(n) /\ (Unmarked => n < run.markers)
    BY <1>1, <1>2, <2>2 DEF Given
  <2> QED BY <1>4, <2>1, <2>2 DEF Given
<1>5. Delta("student") \in Chained /\ ~IsVerdict(Delta("student"))
  BY ChainedEvents DEF Roles, IsVerdict, Delta, Event
<1>6. /\ Len(queue') = Len(queue) + 1 /\ queue'[Len(queue) + 1] = Delta("student")
      /\ \A i \in 1..Len(queue) : queue'[i] = queue[i]
  BY <1>0, <1>1, <1>5, AppendProperties DEF Typed
<1>7. \A i \in Slots' : IsVerdict(queue'[i]) => i \in Slots /\ queue'[i] = queue[i]
  BY <1>0, <1>5, <1>6, LenProperties DEF Slots, Typed
<1> QED BY <1>1, <1>4, <1>7 DEF MarkersInv

LEMMA Distinct ==
  /\ \A n, k : InterventionMarker(n) = InterventionMarker(k) => n = k
  /\ \A n, k : VerdictMarker(n) = VerdictMarker(k) => n = k
  /\ \A n, k : InterventionMarker(n) # VerdictMarker(k)
BY DEF InterventionMarker, VerdictMarker

(* What a check queues. *)
LEMMA JudgedQueue ==
  ASSUME Typed, NEW v \in Verdicts, NEW m \in MarkerIds, Judged(v, m)
  PROVE  /\ Len(queue) \in Nat /\ Len(queue') = Len(queue) + 2
         /\ \A i \in Slots : i \in Slots' /\ queue'[i] = queue[i]
         /\ Len(queue) + 1 \in Slots'
         /\ queue'[Len(queue) + 1] = Verdict(v, m) /\ queue'[Len(queue) + 2] = Usage("supervisor")
         /\ \A i \in Slots' : i \in Slots \/ i = Len(queue) + 1 \/ i = Len(queue) + 2
<1>1. Len(queue) \in Nat BY LenProperties DEF Typed
<1> DEFINE new == <<Verdict(v, m), Usage("supervisor")>>
<1>2. new \in Seq(Chained) /\ Len(new) = 2 /\ new[1] = Verdict(v, m) /\ new[2] = Usage("supervisor")
  BY ChainedEvents, Pairs
<1>3. Longer(new) BY DEF Judged, Longer
<1> HIDE DEF new
<1>4. /\ Len(queue') = Len(queue) + Len(new)
      /\ \A i \in 1..Len(queue) : queue'[i] = queue[i]
      /\ \A i \in 1..Len(new) : queue'[Len(queue) + i] = new[i]
  BY <1>2, <1>3, Lengthened
<1> QED BY <1>1, <1>2, <1>4 DEF Slots

LEMMA MarkersCheck ==
  ASSUME BaseInv, MarkersInv, CheckResolves
  PROVE  MarkersInv'
<1>0. Typed BY DEF BaseInv
<1>1. PICK v \in Verdicts, m \in MarkerIds : Judged(v, m) BY CheckChange
<1>2. /\ at' = at /\ at \in {"student", "studentSettled"} /\ segment.decision = "none"
      /\ segment.judging \in Nat /\ segment.judging < run.boundaries /\ run' = run /\ out' = out
  BY CheckChange
<1>3. /\ m = MarkerOf(v, segment.judging) /\ segment'.judging = NoCheck
      /\ v # "continue" => segment'.decision = v
  BY <1>1 DEF Judged
<1>4. Unmarked BY <1>2 DEF Unmarked, Interventions
<1>5. run.markers \in Nat /\ run.boundaries \in Nat BY <1>0, RunFields
<1>6. ~Given(m) BY <1>2, <1>3, <1>4, <1>5, Distinct DEF Given, MarkerOf
<1>7. Given(m)'
  <2>1. CASE v \in Interventions
    <3>1. ~Unmarked' BY <1>2, <1>3, <2>1 DEF Unmarked, Interventions
    <3>2. m = InterventionMarker(run'.markers) BY <1>2, <1>3, <2>1 DEF MarkerOf
    <3> QED BY <1>2, <1>5, <3>1, <3>2 DEF Given
  <2>2. CASE v \notin Interventions
    <3>1. m = VerdictMarker(segment.judging) BY <1>3, <2>2 DEF MarkerOf
    <3>2. segment.judging \in 0..(run'.boundaries - 1) /\ segment.judging # segment'.judging
      BY <1>2, <1>3, <1>5 DEF NoCheck
    <3> QED BY <3>1, <3>2 DEF Given
  <2> QED BY <2>1, <2>2
<1>8. \A k : Given(k) => Given(k)' BY <1>2, <1>3, <1>4, <1>5 DEF Given, NoCheck
<1>10. ~IsVerdict(Usage("supervisor")) /\ IsVerdict(Verdict(v, m)) /\ Verdict(v, m).id = m
  BY DEF IsVerdict, Usage, Verdict, Event
<1>14. /\ \A i \in Slots : queue'[i] = queue[i]
       /\ queue'[Len(queue) + 1] = Verdict(v, m) /\ queue'[Len(queue) + 2] = Usage("supervisor")
       /\ \A i \in Slots' : i \in Slots \/ i = Len(queue) + 1 \/ i = Len(queue) + 2
  BY <1>0, <1>1, JudgedQueue
<1>15. \A i \in Slots' : IsVerdict(queue'[i]) =>
         (i \in Slots /\ queue'[i] = queue[i]) \/ (i = Len(queue) + 1 /\ queue'[i].id = m)
  BY <1>10, <1>14
<1>16. m \notin out.labels /\ \A i \in Slots : IsVerdict(queue[i]) => queue[i].id # m
  BY <1>6 DEF MarkersInv
<1>17. \A i \in Slots' : IsVerdict(queue'[i]) =>
         \E k : k = queue'[i].id /\ Given(k)' /\ k \notin out'.labels
  BY <1>2, <1>7, <1>8, <1>15, <1>16 DEF MarkersInv
<1>18. \A i, j \in Slots' : IsVerdict(queue'[i]) /\ IsVerdict(queue'[j]) /\ queue'[i].id = queue'[j].id => i = j
  BY <1>15, <1>16 DEF MarkersInv
<1>19. ~out'.relabelled /\ \A k \in out'.labels : Given(k)' BY <1>2, <1>8 DEF MarkersInv
<1> QED BY <1>17, <1>18, <1>19 DEF MarkersInv

LEMMA MarkersEnd ==
  ASSUME BaseInv, MarkersInv, StudentEnds
  PROVE  MarkersInv'
<1>0. Typed BY DEF BaseInv
<1> DEFINE o == IF ~said /\ signal THEN Put(out, Cancellation)
                ELSE IF ~said /\ segment.failed /\ segment.decision = "none" THEN Put(out, Fatal)
                ELSE out
<1>1. at = "studentSettled" /\ ~Judging /\ queue' = <<>> /\ segment' = segment /\ EndOf(o)
  BY EndChange
<1>2. SameVerdicts(out, o) BY QuietEvents, PutQuiet, SameRefl
<1> HIDE DEF o
<1>3. \/ at' = "returned" /\ out' = o /\ run'.markers = run.markers
      \/ at' = "studentCreate" /\ out' = o /\ run'.markers = run.markers + 1
      \/ at' = "teacherCreate" /\ out' = HandOver(o, segment.marker) /\ run'.markers = run.markers
  BY <1>1 DEF EndOf, Ended
<1>4. run'.boundaries = run.boundaries BY <1>1 DEF EndOf, Ended
<1>5. out'.labels = o.labels /\ (out'.relabelled => o.relabelled) BY <1>3, PutHandOver
<1>6. out'.labels = out.labels /\ ~out'.relabelled BY <1>2, <1>5 DEF SameVerdicts, MarkersInv
<1>7. Unmarked' => run'.markers = run.markers + 1 BY <1>3 DEF Unmarked
<1>8. run.markers \in Nat BY <1>0, RunFields
<1>9. \A m : Given(m) => Given(m)' BY <1>1, <1>3, <1>4, <1>7, <1>8 DEF Given
<1>10. Slots' = {} BY <1>1 DEF Slots
<1> QED BY <1>6, <1>9, <1>10 DEF MarkersInv

LEMMA MarkersFinal ==
  ASSUME BaseInv, MarkersInv, FinalResolves
  PROVE  MarkersInv'
<1>0. Typed BY DEF BaseInv
<1>1. /\ at = "finalCheck" /\ ~Judging /\ queue' = <<>>
      /\ segment.decision = "none" /\ segment' = segment /\ open' = open
  BY FinalChange
<1>2. PICK v \in Verdicts : \E m, r : FinalEnd(v, m, r) BY FinalChange
<1>3. PICK m, r : FinalEnd(v, m, r) BY <1>2
<1>4. m = MarkerOf(v, run.boundaries) /\ r.markers = run.markers
      /\ r.boundaries = run.boundaries + 1
  BY <1>3 DEF FinalEnd
<1> DEFINE p == Put(out, Verdict(v, m))
           o == Put(p, Usage("supervisor"))
<1>5. SameVerdicts(p, o) BY QuietEvents, PutQuiet
<1>6. /\ p.labels \subseteq out.labels \cup {m}
      /\ p.relabelled => out.relabelled \/ m \in out.labels
  BY PutVerdict
<1> HIDE DEF p
<1>7. \/ at' = "returned" /\ out' = o /\ run'.markers = run.markers
      \/ at' = "studentCreate" /\ v = "nudge" /\ out' = o /\ run'.markers = run.markers + 1
      \/ at' = "teacherCreate" /\ out' = HandOver(o, m) /\ run'.markers = run.markers
  BY <1>3, <1>4 DEF FinalEnd, Ended, p
<1>8. run'.boundaries = run.boundaries + 1 BY <1>3, <1>4 DEF FinalEnd, Ended
<1> HIDE DEF o
<1>9. out'.labels = o.labels /\ (out'.relabelled => o.relabelled) BY <1>7, PutHandOver
<1>10. Unmarked BY <1>1 DEF Unmarked, Interventions
<1>11. run.markers \in Nat /\ run.boundaries \in Nat BY <1>0, RunFields
<1>12. ~Given(m) BY <1>4, <1>10, <1>11, Distinct DEF Given, MarkerOf
<1>13. /\ out'.labels \subseteq out.labels \cup {m}
       /\ out'.relabelled => out.relabelled \/ m \in out.labels
  BY <1>5, <1>6, <1>9 DEF SameVerdicts
<1>14. ~out'.relabelled BY <1>12, <1>13 DEF MarkersInv
<1>15. segment'.judging = NoCheck BY <1>1 DEF Judging
<1>16. Unmarked' => run'.markers = run.markers + 1 BY <1>7 DEF Unmarked
<1>17. Given(m)'
  <2>1. CASE v \in Interventions
    <3>1. m = InterventionMarker(run.markers) BY <1>4, <2>1 DEF MarkerOf
    <3>2. run.markers \in 0..run'.markers /\ (Unmarked' => run.markers < run'.markers)
      BY <1>7, <1>11, <1>16
    <3> QED BY <3>1, <3>2 DEF Given
  <2>2. CASE v \notin Interventions
    <3>1. m = VerdictMarker(run.boundaries) BY <1>4, <2>2 DEF MarkerOf
    <3>2. run.boundaries \in 0..(run'.boundaries - 1) /\ run.boundaries # segment'.judging
      BY <1>8, <1>11, <1>15 DEF NoCheck
    <3> QED BY <3>1, <3>2 DEF Given
  <2> QED BY <2>1, <2>2
<1>18. \A k : Given(k) => Given(k)'
  <2>1. ASSUME NEW k, Given(k) PROVE Given(k)'
    <3>1. CASE \E n \in 0..(run.boundaries - 1) : k = VerdictMarker(n) /\ n # segment.judging
      <4>1. PICK n \in 0..(run.boundaries - 1) : k = VerdictMarker(n) /\ n # segment.judging BY <3>1
      <4>2. n \in 0..(run'.boundaries - 1) /\ n # segment'.judging BY <1>1, <1>8, <1>11, <4>1
      <4> QED BY <4>1, <4>2 DEF Given
    <3>2. CASE \E n \in 0..run.markers : k = InterventionMarker(n) /\ (Unmarked => n < run.markers)
      <4>1. PICK n \in 0..run.markers : k = InterventionMarker(n) /\ n < run.markers BY <1>10, <3>2
      <4>2. n \in 0..run'.markers /\ n < run'.markers BY <1>7, <1>11, <4>1
      <4> QED BY <4>1, <4>2 DEF Given
    <3> QED BY <2>1, <3>1, <3>2 DEF Given
  <2> QED BY <2>1
<1>19. \A k \in out'.labels : Given(k)' BY <1>13, <1>17, <1>18 DEF MarkersInv
<1>20. Slots' = {} BY <1>1 DEF Slots
<1> QED BY <1>14, <1>19, <1>20 DEF MarkersInv

(* The events of the chain, by what they say of the supervision. *)
LEMMA ChainedKinds ==
  ASSUME NEW e \in Chained
  PROVE  \/ Quiet(e)
         \/ e = Delta("student")
         \/ \E c \in SessionCalls : e = ToolCall(c)
         \/ \E c \in SessionCalls : e = ToolResult(c)
         \/ \E v \in Verdicts, m \in MarkerIds : e = Verdict(v, m)
BY QuietEvents DEF Chained, Roles

LEMMA ChainedEffect ==
  ASSUME NEW e \in Chained, NEW o
  PROVE  /\ ~IsVerdict(e) /\ e # Delta("student") => SameVerdicts(o, Put(o, e))
         /\ e.name = "error" => e = Fatal \/ e = Recoverable
         /\ ~IsVerdict(e) => e.name # "student_interruption" /\ e.name # "teacher_continuation"
<1>1. e.name # "student_interruption" /\ e.name # "teacher_continuation"
  BY DEF Chained, Delta, Usage, ToolCall, ToolResult, Compaction, Cancellation, Fatal, Recoverable,
    Verdict, Event
<1>2. e.name = "error" => e = Fatal \/ e = Recoverable
  BY DEF Chained, Delta, Usage, ToolCall, ToolResult, Compaction, Cancellation, Fatal, Recoverable,
    Verdict, Event
<1> QED BY <1>1, <1>2, PutPlain DEF Plain

LEMMA MarkersChain ==
  ASSUME BaseInv, MarkersInv, ChainStep
  PROVE  MarkersInv'
<1>1. /\ queue[1] \in Chained /\ out' = Put(out, queue[1])
      /\ 1 \in Slots /\ \A i \in Slots' : i + 1 \in Slots /\ queue'[i] = queue[i + 1]
      /\ UNCHANGED <<at, open, run, segment>>
  BY ChainChange
<1> DEFINE e == queue[1]
<1>2. \A m : Given(m) => Given(m)' BY <1>1 DEF Given, Unmarked
<1>3. CASE ~IsVerdict(e)
  <2>1. out'.labels = out.labels /\ (out'.relabelled => out.relabelled)
    <3>1. CASE e # Delta("student") BY <1>1, <1>3, <3>1, ChainedEffect DEF SameVerdicts
    <3>2. CASE e = Delta("student")
      <4>1. /\ Written(out, e).labels =
                 IF e.name = "supervisor_verdict" THEN out.labels \cup {e.id} ELSE out.labels
            /\ Written(out, e).relabelled <=>
                 out.relabelled \/ (e.name = "supervisor_verdict" /\ e.id \in out.labels)
        BY WrittenFields
      <4> QED BY <1>1, <1>3, <4>1 DEF IsVerdict, Put
    <3> QED BY <3>1, <3>2
  <2>2. \A i, j \in Slots' : IsVerdict(queue'[i]) /\ IsVerdict(queue'[j]) /\ queue'[i].id = queue'[j].id => i = j
    <3>1. ASSUME NEW i \in Slots', NEW j \in Slots', IsVerdict(queue'[i]), IsVerdict(queue'[j]),
                 queue'[i].id = queue'[j].id
          PROVE  i = j
      <4>1. i + 1 = j + 1 BY <1>1, <3>1 DEF MarkersInv
      <4> QED BY <4>1 DEF Slots
    <3> QED BY <3>1
  <2>3. \A i \in Slots' : IsVerdict(queue'[i]) =>
          \E k : k = queue'[i].id /\ Given(k)' /\ k \notin out'.labels
    BY <1>1, <1>2, <2>1 DEF MarkersInv
  <2> QED BY <1>2, <2>1, <2>2, <2>3 DEF MarkersInv
<1>4. CASE IsVerdict(e)
  <2>1. PICK v \in Verdicts, m \in MarkerIds : e = Verdict(v, m)
    <3>1. ~Quiet(e) BY <1>4 DEF Quiet, IsVerdict
    <3>2. e # Delta("student") /\ \A c : e # ToolCall(c) /\ e # ToolResult(c)
      BY <1>4 DEF IsVerdict, Delta, ToolCall, ToolResult, Event
    <3> QED BY <1>1, <3>1, <3>2, ChainedKinds
  <2>2. e.id = m BY <2>1 DEF Verdict, Event
  <2>3. Given(m) /\ m \notin out.labels BY <1>1, <1>4, <2>2 DEF MarkersInv
  <2>4. out'.labels \subseteq out.labels \cup {m} /\ ~out'.relabelled
    <3>1. /\ Put(out, Verdict(v, m)).labels \subseteq out.labels \cup {m}
          /\ Put(out, Verdict(v, m)).relabelled => out.relabelled \/ m \in out.labels
      BY PutVerdict
    <3>2. out' = Put(out, Verdict(v, m)) BY <1>1, <2>1
    <3> QED BY <2>3, <3>1, <3>2 DEF MarkersInv
  <2>5. \A i, j \in Slots' : IsVerdict(queue'[i]) /\ IsVerdict(queue'[j]) /\ queue'[i].id = queue'[j].id => i = j
    <3>1. ASSUME NEW i \in Slots', NEW j \in Slots', IsVerdict(queue'[i]), IsVerdict(queue'[j]),
                 queue'[i].id = queue'[j].id
          PROVE  i = j
      <4>1. i + 1 = j + 1 BY <1>1, <3>1 DEF MarkersInv
      <4> QED BY <4>1 DEF Slots
    <3> QED BY <3>1
  <2>6. \A i \in Slots' : IsVerdict(queue'[i]) => queue'[i].id # m
    <3>1. ASSUME NEW i \in Slots', IsVerdict(queue'[i]), queue'[i].id = m PROVE FALSE
      <4>1. i + 1 \in Slots /\ queue[i + 1] = queue'[i] BY <1>1
      <4>2. i + 1 = 1 BY <1>1, <1>4, <2>2, <3>1, <4>1 DEF MarkersInv
      <4> QED BY <4>2 DEF Slots
    <3> QED BY <3>1
  <2>7. \A i \in Slots' : IsVerdict(queue'[i]) =>
          \E k : k = queue'[i].id /\ Given(k)' /\ k \notin out'.labels
    BY <1>1, <1>2, <2>4, <2>6 DEF MarkersInv
  <2>8. \A k \in out'.labels : Given(k)' BY <1>2, <2>3, <2>4 DEF MarkersInv
  <2> QED BY <2>4, <2>5, <2>7, <2>8 DEF MarkersInv
<1> QED BY <1>3, <1>4

LEMMA InitMarkers == Init => MarkersInv
BY DEF Init, SessionInit, NothingOut, MarkersInv, Slots

LEMMA StepMarkers == BaseInv /\ MarkersInv /\ [Next]_vars => MarkersInv'
<1> SUFFICES ASSUME BaseInv, MarkersInv, [Next]_vars PROVE MarkersInv' OBVIOUS
<1>1. CASE Indifferent BY <1>1, MarkersIndifferent DEF BaseInv
<1>2. CASE Concerned
  BY <1>2, MarkersCreate, MarkersDelta, MarkersEnd, MarkersCheck, MarkersFinal, MarkersChain
    DEF Concerned
<1> QED BY <1>1, <1>2, StepKinds

(* Every verdict of a run has a marker of its own, however often it is nudged. *)
THEOREM VerdictsDistinct == Spec => []MarkersStable
<1>1. Spec => []MarkersInv
  <2>1. BaseInv /\ MarkersInv /\ [Next]_vars => MarkersInv' BY StepMarkers
  <2> QED BY <2>1, InitMarkers, BaseHolds, PTL DEF Spec
<1>2. MarkersInv => MarkersStable BY DEF MarkersInv, MarkersStable
<1> QED BY <1>1, <1>2, PTL

-----------------------------------------------------------------------------
(* Nudges. *)

LEMMA NudgesDelta ==
  ASSUME BaseInv, NudgesInv, StudentDelta
  PROVE  NudgesInv'
<1>0. Typed BY DEF BaseInv
<1>1. /\ at = "student" /\ at' = "student" /\ out' = out /\ queue' = Append(queue, Delta("student"))
      /\ segment'.decision = segment.decision /\ run'.nudges = run.nudges
  BY DeltaChange
<1>2. Delta("student") \in Chained /\ ~IsNudge(Delta("student"))
  BY ChainedEvents DEF Roles, IsNudge, IsVerdict, Delta, Event
<1>3. /\ Len(queue') = Len(queue) + 1 /\ queue'[Len(queue) + 1] = Delta("student")
      /\ \A i \in 1..Len(queue) : queue'[i] = queue[i]
  BY <1>0, <1>1, <1>2, AppendProperties DEF Typed
<1>4. \A i \in Slots' : IsNudge(queue'[i]) => i \in Slots /\ queue'[i] = queue[i]
  BY <1>0, <1>2, <1>3, LenProperties DEF Slots, Typed
<1>5. /\ \A i, j \in Slots' : IsNudge(queue'[i]) /\ IsNudge(queue'[j]) => i = j
      /\ \A i \in Slots' : IsNudge(queue'[i]) =>
           segment'.decision = "nudge" /\ out'.nudges <= run'.nudges
  BY <1>1, <1>4 DEF NudgesInv
<1> QED BY <1>1, <1>5 DEF NudgesInv

LEMMA NudgesCreate ==
  ASSUME BaseInv, NudgesInv, StudentCreate
  PROVE  NudgesInv'
<1>1. /\ at = "studentCreate" /\ at' = "student" /\ queue' = <<>>
      /\ UNCHANGED <<out, run>> /\ segment' = NewSegment
  BY CreateChange
<1>2. Slots' = {} BY <1>1 DEF Slots
<1>3. segment'.decision = "none" BY <1>1 DEF NewSegment
<1>4. run.nudges \in Nat BY RunFields, SupervisedAssumption DEF BaseInv
<1> QED BY <1>1, <1>2, <1>3, <1>4 DEF NudgesInv

LEMMA NudgesCheck ==
  ASSUME BaseInv, NudgesInv, CheckResolves
  PROVE  NudgesInv'
<1>0. Typed BY DEF BaseInv
<1>1. PICK v \in Verdicts, m \in MarkerIds : Judged(v, m) BY CheckChange
<1>2. /\ at' = at /\ at \in {"student", "studentSettled"} /\ segment.decision = "none"
      /\ run' = run /\ out' = out
  BY CheckChange
<1>3. /\ v # "continue" => segment'.decision = v
      /\ v = "continue" => segment'.decision \in {"none", "continue"}
  BY <1>1 DEF Judged
<1>5. ~IsNudge(Usage("supervisor")) /\ (IsNudge(Verdict(v, m)) => v = "nudge")
  BY DEF IsNudge, IsVerdict, Usage, Verdict, Event
<1>7. /\ \A i \in Slots : queue'[i] = queue[i]
      /\ queue'[Len(queue) + 1] = Verdict(v, m) /\ queue'[Len(queue) + 2] = Usage("supervisor")
      /\ \A i \in Slots' : i \in Slots \/ i = Len(queue) + 1 \/ i = Len(queue) + 2
  BY <1>0, <1>1, JudgedQueue
<1>8. \A i \in Slots : ~IsNudge(queue[i]) BY <1>2 DEF NudgesInv
<1>9. ASSUME NEW i \in Slots', IsNudge(queue'[i]) PROVE i = Len(queue) + 1 /\ v = "nudge"
  BY <1>5, <1>7, <1>8, <1>9
<1>10. out.nudges <= run.nudges /\ out.nudges \in Nat /\ run.nudges \in Nat
  BY <1>0, <1>2, RunFields, SupervisedAssumption DEF NudgesInv
<1>11. \A i \in Slots' : IsNudge(queue'[i]) =>
         at' \in {"student", "studentSettled"} /\ segment'.decision = "nudge" /\ out'.nudges <= run'.nudges
  BY <1>2, <1>3, <1>9, <1>10
<1>12. \A i, j \in Slots' : IsNudge(queue'[i]) /\ IsNudge(queue'[j]) => i = j BY <1>9
<1>13. out'.nudges <= run'.nudges + (IF segment'.decision = "nudge" THEN 1 ELSE 0) BY <1>2, <1>10
<1> QED BY <1>2, <1>10, <1>11, <1>12, <1>13 DEF NudgesInv

LEMMA NudgesEnd ==
  ASSUME BaseInv, NudgesInv, StudentEnds
  PROVE  NudgesInv'
<1>0. Typed BY DEF BaseInv
<1> DEFINE o == IF ~said /\ signal THEN Put(out, Cancellation)
                ELSE IF ~said /\ segment.failed /\ segment.decision = "none" THEN Put(out, Fatal)
                ELSE out
<1>1. at = "studentSettled" /\ queue' = <<>> /\ EndOf(o) BY EndChange
<1>2. SameVerdicts(out, o) BY QuietEvents, PutQuiet, SameRefl
<1> HIDE DEF o
<1>3. \/ at' = "returned" /\ out' = o
      \/ /\ at' = "studentCreate" /\ segment.decision = "nudge" /\ out' = o
         /\ run'.nudges = run.nudges + 1
      \/ at' = "teacherCreate" /\ out' = HandOver(o, segment.marker)
  BY <1>1 DEF EndOf, Ended
<1>4. out'.nudges = out.nudges
  <2>1. out'.nudges = o.nudges BY <1>3, PutHandOver
  <2> QED BY <1>2, <2>1 DEF SameVerdicts
<1>5. Slots' = {} BY <1>1 DEF Slots
<1>6. at' = "studentCreate" => out'.nudges <= run'.nudges BY <1>1, <1>3, <1>4 DEF NudgesInv
<1> QED BY <1>3, <1>4, <1>5, <1>6 DEF NudgesInv

LEMMA NudgesFinal ==
  ASSUME BaseInv, NudgesInv, FinalResolves
  PROVE  NudgesInv'
<1>0. Typed BY DEF BaseInv
<1>1. at = "finalCheck" /\ queue' = <<>> BY FinalChange
<1>2. PICK v \in Verdicts : \E m, r : FinalEnd(v, m, r) BY FinalChange
<1>3. PICK m, r : FinalEnd(v, m, r) BY <1>2
<1>4. r.nudges = run.nudges /\ (v = "nudge" => run.nudges < MaxNudges) BY <1>3 DEF FinalEnd
<1> DEFINE p == Put(out, Verdict(v, m))
           o == Put(p, Usage("supervisor"))
<1>5. SameVerdicts(p, o) BY QuietEvents, PutQuiet
<1>6. p.nudges = out.nudges \/ (v = "nudge" /\ p.nudges = out.nudges + 1)
  <2>1. /\ ~open => Put(out, Verdict(v, m)) = out
        /\ open => Put(out, Verdict(v, m)).nudges = IF v = "nudge" THEN out.nudges + 1 ELSE out.nudges
    BY PutVerdict
  <2> QED BY <2>1
<1> HIDE DEF p
<1>7. \/ at' = "returned" /\ out' = o
      \/ at' = "studentCreate" /\ v = "nudge" /\ out' = o /\ run'.nudges = run.nudges + 1
      \/ at' = "teacherCreate" /\ out' = HandOver(o, m)
  BY <1>3, <1>4 DEF FinalEnd, Ended, p
<1> HIDE DEF o
<1>8. out'.nudges = out.nudges \/ (v = "nudge" /\ out'.nudges = out.nudges + 1)
  <2>1. out'.nudges = o.nudges BY <1>7, PutHandOver
  <2> QED BY <1>5, <1>6, <2>1 DEF SameVerdicts
<1>9. Slots' = {} BY <1>1 DEF Slots
<1>10. out.nudges <= run.nudges /\ out.nudges \in Nat /\ run.nudges \in 0..MaxNudges
  BY <1>0, <1>1, RunFields DEF NudgesInv
<1>11. out'.nudges <= MaxNudges /\ out'.nudges \in Nat
  BY <1>4, <1>8, <1>10, SupervisedAssumption DEF NudgesInv
<1>12. at' = "studentCreate" => out'.nudges <= run'.nudges BY <1>7, <1>8, <1>10
<1> QED BY <1>7, <1>9, <1>11, <1>12 DEF NudgesInv

LEMMA NudgesChain ==
  ASSUME BaseInv, NudgesInv, ChainStep
  PROVE  NudgesInv'
<1>0. Typed /\ AtPlace BY DEF BaseInv
<1>1. /\ queue[1] \in Chained /\ out' = Put(out, queue[1])
      /\ 1 \in Slots /\ \A i \in Slots' : i + 1 \in Slots /\ queue'[i] = queue[i + 1]
      /\ UNCHANGED <<at, open, run, segment>>
  BY ChainChange
<1> DEFINE e == queue[1]
<1>2. /\ \A i, j \in Slots' : IsNudge(queue'[i]) /\ IsNudge(queue'[j]) => i = j
      /\ IsNudge(e) => \A i \in Slots' : ~IsNudge(queue'[i])
  <2>1. ASSUME NEW i \in Slots', NEW j \in Slots', IsNudge(queue'[i]), IsNudge(queue'[j]) PROVE i = j
    <3>1. i + 1 = j + 1 BY <1>1, <2>1 DEF NudgesInv
    <3> QED BY <3>1 DEF Slots
  <2>2. ASSUME IsNudge(e), NEW i \in Slots', IsNudge(queue'[i]) PROVE FALSE
    <3>1. i + 1 = 1 BY <1>1, <2>2 DEF NudgesInv
    <3> QED BY <3>1 DEF Slots
  <2> QED BY <2>1, <2>2
<1>3. CASE ~IsNudge(e)
  <2>1. out'.nudges = out.nudges
    <3>1. Written(out, e).nudges =
            IF e.name = "supervisor_verdict" /\ e.what = "nudge" THEN out.nudges + 1 ELSE out.nudges
      BY WrittenFields
    <3> QED BY <1>1, <1>3, <3>1 DEF IsNudge, IsVerdict, Put
  <2> QED BY <1>1, <1>2, <2>1 DEF NudgesInv
<1>4. CASE IsNudge(e)
  <2>1. /\ at \in {"student", "studentSettled"} /\ segment.decision = "nudge"
        /\ out.nudges <= run.nudges /\ out.nudges \in Nat
    BY <1>1, <1>4 DEF NudgesInv
  <2>2. run.nudges < MaxNudges /\ run.nudges \in Nat /\ MaxNudges \in Nat
    BY <1>0, <2>1, RunFields, SupervisedAssumption DEF AtPlace
  <2>3. out'.nudges = out.nudges \/ out'.nudges = out.nudges + 1
    <3>1. Written(out, e).nudges =
            IF e.name = "supervisor_verdict" /\ e.what = "nudge" THEN out.nudges + 1 ELSE out.nudges
      BY WrittenFields
    <3> QED BY <1>1, <3>1 DEF Put
  <2>4. out'.nudges \in Nat /\ out'.nudges <= run.nudges + 1 /\ out'.nudges <= MaxNudges
    BY <2>1, <2>2, <2>3
  <2> QED BY <1>1, <1>2, <1>4, <2>1, <2>4 DEF NudgesInv
<1> QED BY <1>3, <1>4

LEMMA InitNudges == Init => NudgesInv
<1> SUFFICES ASSUME Init PROVE NudgesInv OBVIOUS
<1>1. out.nudges = 0 /\ Slots = {} /\ run.nudges = 0 /\ segment.decision = "none"
  BY DEF Init, SessionInit, SupervisedInit, NewRun, NewSegment, NothingOut, Slots
<1> QED BY <1>1, SupervisedAssumption DEF NudgesInv

LEMMA StepNudges == BaseInv /\ NudgesInv /\ [Next]_vars => NudgesInv'
<1> SUFFICES ASSUME BaseInv, NudgesInv, [Next]_vars PROVE NudgesInv' OBVIOUS
<1>1. CASE Indifferent BY <1>1, NudgesIndifferent, StepBase
<1>2. CASE Concerned
  BY <1>2, NudgesCreate, NudgesDelta, NudgesEnd, NudgesCheck, NudgesFinal, NudgesChain DEF Concerned
<1> QED BY <1>1, <1>2, StepKinds

-----------------------------------------------------------------------------
(* The student's answer. *)

LEMMA AnswerFinite == Typed => IsFiniteSet(AnswerSlots)
<1> SUFFICES ASSUME Typed PROVE IsFiniteSet(AnswerSlots) OBVIOUS
<1>1. Len(queue) \in Nat BY LenProperties DEF Typed
<1>2. IsFiniteSet(1..Len(queue)) BY <1>1, FS_Interval
<1> QED BY <1>2, FS_Subset DEF AnswerSlots, Slots

LEMMA EmptyAnswer == queue = <<>> => AnswerSlots = {} /\ Cardinality(AnswerSlots) = 0
<1> SUFFICES ASSUME queue = <<>> PROVE AnswerSlots = {} /\ Cardinality(AnswerSlots) = 0 OBVIOUS
<1>1. AnswerSlots = {} BY DEF AnswerSlots, Slots
<1> QED BY <1>1, FS_EmptySet

LEMMA Shifted ==
  ASSUME NEW S \in SUBSET Nat, IsFiniteSet(S)
  PROVE  /\ IsFiniteSet({i + 1 : i \in S})
         /\ Cardinality({i + 1 : i \in S}) = Cardinality(S)
<1> DEFINE T == {i + 1 : i \in S}
           f == [i \in S |-> i + 1]
<1>1. f \in [S -> T] OBVIOUS
<1>2. \A i, j \in S : f[i] = f[j] => i = j OBVIOUS
<1>3. \A t \in T : \E i \in S : f[i] = t OBVIOUS
<1> HIDE DEF f, T
<1>4. f \in Bijection(S, T) BY <1>1, <1>2, <1>3 DEF Bijection, Injection, Surjection, IsInjective
<1>5. ExistsBijection(S, T) BY <1>4 DEF ExistsBijection
<1> QED BY <1>5, FS_Bijection DEF T

LEMMA AnswerDelta ==
  ASSUME BaseInv, AnswerInv, StudentDelta
  PROVE  AnswerInv'
<1>0. Typed BY DEF BaseInv
<1>1. /\ at = "student" /\ at' = "student" /\ out' = out /\ open' = open
      /\ queue' = Append(queue, Delta("student"))
      /\ segment'.partial = segment.partial + 1 /\ run'.total = run.total
  BY DeltaChange
<1>2. Len(queue) \in Nat BY <1>0, LenProperties DEF Typed
<1>3. Delta("student") \in Chained BY ChainedEvents DEF Roles
<1>4. /\ Len(queue') = Len(queue) + 1 /\ queue'[Len(queue) + 1] = Delta("student")
      /\ \A i \in 1..Len(queue) : queue'[i] = queue[i]
  BY <1>0, <1>1, <1>3, AppendProperties DEF Typed
<1>5. AnswerSlots' = AnswerSlots \cup {Len(queue) + 1} BY <1>2, <1>4 DEF AnswerSlots, Slots
<1>6. Len(queue) + 1 \notin AnswerSlots BY <1>2 DEF AnswerSlots, Slots
<1>7. Cardinality(AnswerSlots') = Cardinality(AnswerSlots) + 1 /\ Cardinality(AnswerSlots) \in Nat
  BY <1>0, <1>5, <1>6, AnswerFinite, FS_AddElement, FS_CardinalityType
<1>8. segment.partial \in Nat /\ run.total \in Nat BY <1>0, SegmentFields, RunFields
<1>9. backend' = "supervised" /\ open' => out.student + Cardinality(AnswerSlots) = run.total + Partial
  BY <1>0, <1>1, Where DEF AnswerInv, SupervisedPlaces
<1>10. Partial = segment.partial /\ Partial' = segment.partial + 1 BY <1>1 DEF Partial
<1>11. out.student \in Nat BY DEF AnswerInv
<1>12. backend' = "supervised" /\ open' =>
         out'.student + Cardinality(AnswerSlots') = run'.total + Partial'
  <2> SUFFICES ASSUME backend' = "supervised", open'
               PROVE  out'.student + Cardinality(AnswerSlots') = run'.total + Partial'
    OBVIOUS
  <2>1. out'.student = out.student BY <1>1
  <2>2. out.student + Cardinality(AnswerSlots) = run.total + segment.partial BY <1>9, <1>10
  <2>3. out.student + (Cardinality(AnswerSlots) + 1) = run.total + (segment.partial + 1)
    BY <1>7, <1>8, <1>11, <2>2
  <2> QED BY <1>1, <1>7, <1>10, <2>1, <2>3
<1> QED BY <1>1, <1>11, <1>12 DEF AnswerInv

LEMMA AnswerCreate ==
  ASSUME BaseInv, AnswerInv, StudentCreate, backend' = backend
  PROVE  AnswerInv'
<1>1. /\ at = "studentCreate" /\ at' = "student" /\ queue = <<>> /\ queue' = <<>>
      /\ UNCHANGED <<out, open, run>> /\ segment' = NewSegment
  BY CreateChange
<1>2. AnswerSlots' = AnswerSlots BY <1>1 DEF AnswerSlots, Slots
<1>3. Partial = 0 /\ Partial' = 0 BY <1>1 DEF Partial, NewSegment
<1> QED BY <1>1, <1>2, <1>3 DEF AnswerInv, SupervisedPlaces

LEMMA AnswerCheck ==
  ASSUME BaseInv, AnswerInv, CheckResolves, backend' = backend
  PROVE  AnswerInv'
<1>0. Typed BY DEF BaseInv
<1>1. PICK v \in Verdicts, m \in MarkerIds : Judged(v, m) BY CheckChange
<1>2. at' = at /\ at \in {"student", "studentSettled"} /\ UNCHANGED <<out, open, run>> BY CheckChange
<1>3. segment'.partial = segment.partial BY <1>1 DEF Judged
<1>4. Verdict(v, m) # Delta("student") /\ Usage("supervisor") # Delta("student")
  BY DEF Verdict, Usage, Delta, Event
<1>5. /\ \A i \in Slots : i \in Slots' /\ queue'[i] = queue[i]
      /\ queue'[Len(queue) + 1] = Verdict(v, m) /\ queue'[Len(queue) + 2] = Usage("supervisor")
      /\ \A i \in Slots' : i \in Slots \/ i = Len(queue) + 1 \/ i = Len(queue) + 2
  BY <1>0, <1>1, JudgedQueue
<1>6. AnswerSlots' = AnswerSlots BY <1>4, <1>5 DEF AnswerSlots
<1>7. Partial' = Partial BY <1>2, <1>3 DEF Partial
<1> QED BY <1>2, <1>6, <1>7 DEF AnswerInv

LEMMA AnswerEnd ==
  ASSUME BaseInv, AnswerInv, StudentEnds, backend' = backend
  PROVE  AnswerInv'
<1>0. Typed BY DEF BaseInv
<1> DEFINE o == IF ~said /\ signal THEN Put(out, Cancellation)
                ELSE IF ~said /\ segment.failed /\ segment.decision = "none" THEN Put(out, Fatal)
                ELSE out
<1>1. at = "studentSettled" /\ queue = <<>> /\ queue' = <<>> /\ open' = open /\ EndOf(o)
  BY EndChange
<1>2. SameVerdicts(out, o) BY QuietEvents, PutQuiet, SameRefl
<1> HIDE DEF o
<1>3. /\ run'.total = run.total + segment.partial
      /\ \/ at' = "returned" /\ out' = o
         \/ at' = "studentCreate" /\ out' = o
         \/ at' = "teacherCreate" /\ out' = HandOver(o, segment.marker)
  BY <1>1 DEF EndOf, Ended
<1>4. out'.student = out.student
  <2>1. out'.student = o.student BY <1>3, PutHandOver
  <2> QED BY <1>2, <2>1 DEF SameVerdicts
<1>5. AnswerSlots = {} /\ AnswerSlots' = {} BY <1>1 DEF AnswerSlots, Slots
<1>6. Cardinality(AnswerSlots) = 0 /\ Cardinality(AnswerSlots') = 0 BY <1>5, FS_EmptySet
<1>7. Partial = segment.partial /\ Partial' = 0 BY <1>1, <1>3 DEF Partial
<1>8. segment.partial \in Nat /\ run.total \in Nat BY <1>0, SegmentFields, RunFields
<1>9. backend' = "supervised" /\ open' => out'.student = run'.total
  BY <1>1, <1>3, <1>4, <1>6, <1>7, <1>8 DEF AnswerInv, SupervisedPlaces
<1>10. out'.student \in Nat BY <1>4 DEF AnswerInv
<1>11. run'.total \in Nat BY <1>3, <1>8
<1> QED BY <1>5, <1>6, <1>7, <1>9, <1>10, <1>11 DEF AnswerInv

LEMMA AnswerFinal ==
  ASSUME BaseInv, AnswerInv, FinalResolves, backend' = backend
  PROVE  AnswerInv'
<1>0. Typed BY DEF BaseInv
<1>1. at = "finalCheck" /\ queue = <<>> /\ queue' = <<>> /\ open' = open BY FinalChange
<1>2. PICK v \in Verdicts : \E m, r : FinalEnd(v, m, r) BY FinalChange
<1>3. PICK m, r : FinalEnd(v, m, r) BY <1>2
<1> DEFINE p == Put(out, Verdict(v, m))
           o == Put(p, Usage("supervisor"))
<1>4. SameVerdicts(p, o) BY QuietEvents, PutQuiet
<1>5. p.student = out.student
  <2>1. Put(out, Verdict(v, m)).student = out.student BY VerdictSilent
  <2> QED BY <2>1
<1> HIDE DEF p
<1>6. /\ run'.total = run.total + segment.partial
      /\ \/ at' = "returned" /\ out' = o
         \/ at' = "studentCreate" /\ out' = o
         \/ at' = "teacherCreate" /\ out' = HandOver(o, m)
  BY <1>3 DEF FinalEnd, Ended, p
<1> HIDE DEF o
<1>7. out'.student = out.student
  <2>1. out'.student = o.student BY <1>6, PutHandOver
  <2> QED BY <1>4, <1>5, <2>1 DEF SameVerdicts
<1>8. AnswerSlots = {} /\ AnswerSlots' = {} BY <1>1 DEF AnswerSlots, Slots
<1>9. Cardinality(AnswerSlots) = 0 /\ Cardinality(AnswerSlots') = 0 BY <1>8, FS_EmptySet
<1>10. Partial = segment.partial /\ Partial' = 0 BY <1>1, <1>6 DEF Partial
<1>11. segment.partial \in Nat /\ run.total \in Nat BY <1>0, SegmentFields, RunFields
<1>12. backend' = "supervised" /\ open' => out'.student = run'.total
  BY <1>1, <1>6, <1>7, <1>9, <1>10, <1>11 DEF AnswerInv, SupervisedPlaces
<1>13. out'.student \in Nat /\ run'.total \in Nat BY <1>6, <1>7, <1>11 DEF AnswerInv
<1> QED BY <1>8, <1>9, <1>10, <1>12, <1>13 DEF AnswerInv

LEMMA AnswerChain ==
  ASSUME BaseInv, AnswerInv, ChainStep
  PROVE  AnswerInv'
<1>0. Typed BY DEF BaseInv
<1>1. /\ queue[1] \in Chained /\ out' = Put(out, queue[1]) /\ 1 \in Slots
      /\ \A i \in Slots' : i + 1 \in Slots /\ queue'[i] = queue[i + 1]
      /\ \A i \in Slots : i = 1 \/ (i - 1 \in Slots' /\ queue'[i - 1] = queue[i])
      /\ UNCHANGED <<backend, at, open, run, segment>>
  BY ChainChange
<1> DEFINE e == queue[1]
           T == {i + 1 : i \in AnswerSlots'}
<1>2. Typed'
  <2>1. Next BY DEF Next
  <2> QED BY <2>1, StepBase DEF BaseInv
<1>3. IsFiniteSet(AnswerSlots) /\ IsFiniteSet(AnswerSlots')
  <2>1. Len(queue') \in Nat BY <1>2, LenProperties DEF Typed
  <2>2. IsFiniteSet(1..Len(queue')) BY <2>1, FS_Interval
  <2>3. IsFiniteSet(AnswerSlots') BY <2>2, FS_Subset DEF AnswerSlots, Slots
  <2> QED BY <1>0, <2>3, AnswerFinite
<1>4. AnswerSlots' \in SUBSET Nat BY DEF AnswerSlots, Slots
<1>5. IsFiniteSet(T) /\ Cardinality(T) = Cardinality(AnswerSlots') BY <1>3, <1>4, Shifted
<1>6. T \subseteq AnswerSlots /\ 1 \notin T
  <2>1. \A i \in AnswerSlots' : i \in Slots' /\ queue'[i] = Delta("student") BY DEF AnswerSlots
  <2>2. \A i \in AnswerSlots' : i + 1 \in AnswerSlots /\ i + 1 # 1
    BY <1>1, <2>1 DEF AnswerSlots, Slots
  <2> QED BY <2>2
<1>7. AnswerSlots \subseteq T \cup {1}
  <2>1. ASSUME NEW i \in AnswerSlots, i # 1 PROVE i \in T
    <3>1. i \in Slots /\ queue[i] = Delta("student") BY DEF AnswerSlots
    <3>2. i - 1 \in AnswerSlots' BY <1>1, <2>1, <3>1 DEF AnswerSlots
    <3>3. (i - 1) + 1 = i BY <3>1 DEF Slots
    <3> QED BY <3>2, <3>3
  <2> QED BY <2>1
<1>8. AnswerSlots = {} => AnswerSlots' = {} BY <1>6
<1> HIDE DEF T
<1>9. Cardinality(AnswerSlots) \in Nat /\ Cardinality(T) \in Nat BY <1>3, <1>5, FS_CardinalityType
<1>10. CASE e = Delta("student")
  <2>1. AnswerSlots = T \cup {1} BY <1>1, <1>6, <1>7, <1>10 DEF AnswerSlots
  <2>2. Cardinality(AnswerSlots) = Cardinality(T) + 1 BY <1>5, <1>6, <2>1, FS_AddElement
  <2>a. Written(out, e).student = IF e = Delta("student") THEN out.student + 1 ELSE out.student
    BY WrittenFields
  <2>3. Written(out, e).student = out.student + 1 BY <1>10, <2>a
  <2>4. (open => out'.student = out.student + 1) /\ (~open => out' = out)
    BY <1>1, <2>3 DEF Put
  <2>5. out'.student \in Nat BY <2>4 DEF AnswerInv
  <2>6. ASSUME backend' = "supervised", open', at' \in SupervisedPlaces
        PROVE  out'.student + Cardinality(AnswerSlots') = run'.total + Partial'
    <3>1. out.student + Cardinality(AnswerSlots) = run.total + Partial /\ out.student \in Nat
      BY <1>1, <2>6 DEF AnswerInv
    <3>2. Partial' = Partial BY <1>1 DEF Partial
    <3>3. out'.student = out.student + 1 BY <1>1, <2>4, <2>6
    <3>4. (out.student + 1) + Cardinality(T) = out.student + (Cardinality(T) + 1) BY <1>9, <3>1
    <3> QED BY <1>1, <1>5, <2>2, <3>1, <3>2, <3>3, <3>4
  <2> QED BY <1>1, <1>8, <2>5, <2>6 DEF AnswerInv
<1>11. CASE e # Delta("student")
  <2>1. AnswerSlots = T BY <1>6, <1>7, <1>11 DEF AnswerSlots
  <2>2. Written(out, e).student = out.student BY <1>11, WrittenFields
  <2>3. out'.student = out.student BY <1>1, <2>2 DEF Put
  <2>4. Cardinality(AnswerSlots') = Cardinality(AnswerSlots) BY <1>5, <2>1
  <2>5. Partial' = Partial BY <1>1 DEF Partial
  <2> QED BY <1>1, <1>8, <2>3, <2>4, <2>5 DEF AnswerInv
<1> QED BY <1>10, <1>11

LEMMA InitAnswer == Init => AnswerInv
<1> SUFFICES ASSUME Init PROVE AnswerInv OBVIOUS
<1>1. out.student = 0 /\ queue = <<>> /\ run.total = 0 /\ segment.partial = 0
  BY DEF Init, SessionInit, SupervisedInit, NewRun, NewSegment, NothingOut
<1>2. AnswerSlots = {} /\ Cardinality(AnswerSlots) = 0 BY <1>1, EmptyAnswer
<1>3. Partial = 0 BY <1>1 DEF Partial
<1> QED BY <1>1, <1>2, <1>3 DEF AnswerInv

LEMMA StepAnswer == BaseInv /\ AnswerInv /\ [Next]_vars => AnswerInv'
<1> SUFFICES ASSUME BaseInv, AnswerInv, [Next]_vars PROVE AnswerInv' OBVIOUS
<1>1. CASE Indifferent BY <1>1, AnswerIndifferent, StepBase
<1>2. CASE Concerned /\ UNCHANGED backend
  BY <1>2, AnswerCreate, AnswerDelta, AnswerEnd, AnswerCheck, AnswerFinal, AnswerChain DEF Concerned
<1> QED BY <1>1, <1>2, StepKinds

(* What is handed to a teacher as the student's partial answer is what the     *)
(* client was sent of it, however many segments it took.                   *)
THEOREM TeacherSeesAll == Spec => []TeacherSeesAnswer
<1>1. Spec => []AnswerInv
  <2>1. BaseInv /\ AnswerInv /\ [Next]_vars => AnswerInv' BY StepAnswer
  <2> QED BY <2>1, InitAnswer, BaseHolds, PTL DEF Spec
<1>2. BaseInv /\ AnswerInv => TeacherSeesAnswer
  <2> SUFFICES ASSUME BaseInv, AnswerInv, at \in {"teacherCreate", "teacher", "teacherFlush"}, open
               PROVE  run.total = out.student
    BY DEF TeacherSeesAnswer
  <2>1. Cardinality(AnswerSlots) = 0 BY FS_EmptySet DEF AnswerInv
  <2>2. Partial = 0 BY DEF Partial
  <2>3. backend = "supervised" BY Where DEF SupervisedPlaces
  <2>4. out.student + 0 = run.total + 0 /\ out.student \in Nat
    BY <2>1, <2>2, <2>3 DEF AnswerInv, SupervisedPlaces
  <2>5. run.total \in Nat BY RunFields DEF BaseInv
  <2> QED BY <2>4, <2>5
<1> QED BY <1>1, <1>2, BaseHolds, PTL

-----------------------------------------------------------------------------
(* An intervention is on its way to the client, or there, before it is acted on. *)

LEMMA CitedCheck ==
  ASSUME BaseInv, MarkerCited, CheckResolves
  PROVE  MarkerCited'
<1>1. /\ at' = at /\ at \in {"student", "studentSettled"} /\ segment.decision = "none"
      /\ UNCHANGED <<out, open>>
  BY CheckChange
<1>2. PICK v \in Verdicts, m \in MarkerIds : Judged(v, m) BY CheckChange
<1> SUFFICES ASSUME open', segment'.decision \in Interventions
             PROVE  \E i \in Slots' : Cites(queue'[i], segment'.marker)
  BY DEF MarkerCited
<1>3. v \in Interventions /\ segment'.marker = m /\ segment'.decision = v
  BY <1>2 DEF Judged, Verdicts, Interventions
<1>4. Len(queue) + 1 \in Slots' /\ queue'[Len(queue) + 1] = Verdict(v, m)
  BY <1>2, JudgedQueue DEF BaseInv
<1>5. Cites(Verdict(v, m), m) BY <1>3 DEF Cites, IsVerdict, Verdict, Event
<1> QED BY <1>3, <1>4, <1>5

LEMMA CitedDelta ==
  ASSUME BaseInv, MarkerCited, StudentDelta
  PROVE  MarkerCited'
<1>1. /\ at = "student" /\ at' = "student" /\ UNCHANGED <<out, open>>
      /\ queue' = Append(queue, Delta("student"))
      /\ UNCHANGED <<segment.decision, segment.marker>>
  BY DeltaChange
<1>2. \A i \in Slots : i \in Slots' /\ queue'[i] = queue[i]
  BY <1>1, AppendProperties DEF BaseInv, Typed, Slots
<1> QED BY <1>1, <1>2 DEF MarkerCited

LEMMA CitedChain ==
  ASSUME BaseInv, MarkerCited, ChainStep
  PROVE  MarkerCited'
<1>1. /\ queue[1] \in Chained /\ out' = Put(out, queue[1])
      /\ \A i \in Slots : i = 1 \/ (i - 1 \in Slots' /\ queue'[i - 1] = queue[i])
      /\ UNCHANGED <<at, open, segment>>
  BY ChainChange
<1> SUFFICES ASSUME open, at \in {"student", "studentSettled"}, segment.decision \in Interventions
             PROVE  \/ segment.marker \in out'.seen.marked
                    \/ \E i \in Slots' : Cites(queue'[i], segment.marker)
  BY <1>1 DEF MarkerCited
<1>2. \A e : Put(out, e).seen.marked =
        IF e.name = "supervisor_verdict" /\ e.what \in Interventions
        THEN out.seen.marked \cup {e.id} ELSE out.seen.marked
  BY PutFields
<1>4. out'.seen.marked =
        IF queue[1].name = "supervisor_verdict" /\ queue[1].what \in Interventions
        THEN out.seen.marked \cup {queue[1].id} ELSE out.seen.marked
  BY <1>1, <1>2
<1>5. CASE segment.marker \in out.seen.marked BY <1>4, <1>5
<1>6. ASSUME NEW i \in Slots, Cites(queue[i], segment.marker)
      PROVE  segment.marker \in out'.seen.marked \/ \E j \in Slots' : Cites(queue'[j], segment.marker)
  <2>1. CASE i = 1 BY <1>4, <1>6, <2>1 DEF Cites, IsVerdict
  <2>2. CASE i # 1 BY <1>1, <1>6, <2>2
  <2> QED BY <2>1, <2>2
<1> QED BY <1>5, <1>6 DEF MarkerCited

LEMMA InitCited == Init => MarkerCited
BY DEF Init, SupervisedInit, NewSegment, MarkerCited, Interventions

LEMMA StepCited == BaseInv /\ MarkerCited /\ [Next]_vars => MarkerCited'
<1> SUFFICES ASSUME BaseInv, MarkerCited, [Next]_vars PROVE MarkerCited' OBVIOUS
<1>0. BaseInv' BY StepBase
<1>1. CASE Indifferent BY <1>0, <1>1, MarkerIndifferent
<1>2. CASE StudentCreate
  <2>1. segment'.decision = "none" BY <1>2, CreateChange DEF NewSegment
  <2> QED BY <2>1 DEF MarkerCited, Interventions
<1>3. CASE StudentDelta BY <1>3, CitedDelta
<1>4. CASE StudentEnds
  <2>1. at' \notin {"student", "studentSettled"} BY <1>4, EndChange DEF EndOf, Ended
  <2> QED BY <2>1 DEF MarkerCited
<1>5. CASE CheckResolves BY <1>5, CitedCheck
<1>6. CASE FinalResolves
  <2>1. PICK v \in Verdicts : \E m, r : FinalEnd(v, m, r) BY <1>6, FinalChange
  <2>2. at' \notin {"student", "studentSettled"} BY <2>1 DEF FinalEnd, Ended
  <2> QED BY <2>2 DEF MarkerCited
<1>7. CASE ChainStep BY <1>7, CitedChain
<1> QED BY <1>1, <1>2, <1>3, <1>4, <1>5, <1>6, <1>7, StepKinds DEF Concerned

-----------------------------------------------------------------------------
(* Tool calls of a Pi session. *)

LEMMA CallIds ==
  /\ \A c, d : CallId(c) = CallId(d) => c = d
  /\ \A c, d : ToolCall(c) = ToolCall(d) => c = d
  /\ \A c, d : ToolResult(c) = ToolResult(d) => c = d
  /\ \A c, d : ToolCall(c) # ToolResult(d)
  /\ \A c : ToolCall(c).name = "tool_call" /\ ToolCall(c).id = CallId(c)
  /\ \A c : ToolResult(c).name = "tool_result" /\ ToolResult(c).id = CallId(c)
BY DEF ToolCall, ToolResult, Event, CallId

ToolFree(e) == e.name \notin {"tool_call", "tool_result"}
QueueSilent ==
  \/ queue' = queue
  \/ \E new \in Seq(Chained) : Longer(new) /\ \A i \in 1..Len(new) : ToolFree(new[i])

LEMMA SilentSlots ==
  ASSUME Typed, QueueSilent
  PROVE  /\ \A i \in Slots' : (i \in Slots /\ queue'[i] = queue[i]) \/ ToolFree(queue'[i])
         /\ \A i \in Slots : i \in Slots' /\ queue'[i] = queue[i]
<1>1. CASE queue' = queue BY <1>1 DEF Slots
<1>2. ASSUME NEW new \in Seq(Chained), Longer(new), \A i \in 1..Len(new) : ToolFree(new[i])
      PROVE  /\ \A i \in Slots' : (i \in Slots /\ queue'[i] = queue[i]) \/ ToolFree(queue'[i])
             /\ \A i \in Slots : i \in Slots' /\ queue'[i] = queue[i]
  <2>1. /\ Len(queue') = Len(queue) + Len(new) /\ Len(queue) \in Nat /\ Len(new) \in Nat
        /\ \A i \in 1..Len(queue) : queue'[i] = queue[i]
        /\ \A i \in 1..Len(new) : queue'[Len(queue) + i] = new[i]
    BY <1>2, Lengthened, LenProperties DEF Typed
  <2>2. \A i \in 1..Len(queue') : i \in 1..Len(queue) \/ i - Len(queue) \in 1..Len(new) BY <2>1
  <2>3. ASSUME NEW i \in Slots', i \notin Slots PROVE ToolFree(queue'[i])
    <3>1. i - Len(queue) \in 1..Len(new) /\ Len(queue) + (i - Len(queue)) = i
      BY <2>1, <2>2, <2>3 DEF Slots
    <3>2. queue'[i] = new[i - Len(queue)] BY <2>1, <3>1
    <3> QED BY <1>2, <3>1, <3>2
  <2> QED BY <2>1, <2>3 DEF Slots
<1> QED BY <1>1, <1>2 DEF QueueSilent

LEMMA AppendedSlots ==
  ASSUME Typed, NEW e, e \in Chained, queue' = Append(queue, e)
  PROVE  /\ Len(queue) \in Nat
         /\ \A i \in Slots : i \in Slots' /\ queue'[i] = queue[i] /\ i < Len(queue) + 1
         /\ Len(queue) + 1 \in Slots' /\ queue'[Len(queue) + 1] = e
         /\ \A i \in Slots' : i \in Slots \/ i = Len(queue) + 1
BY AppendProperties, LenProperties DEF Typed, Slots

(* A step other than one of the chain: it leaves the calls alone, it comes when  *)
(* there are none, or it starts or ends one.                               *)
CallsKept == UNCHANGED <<session.running, session.used>> /\ QueueSilent
CallsGone == queue = <<>> /\ queue' = <<>> /\ session.running = {} /\ session'.running = {}

LEMMA KeptCited ==
  ASSUME Typed, CallsCited, CallsKept, out'.seen.pending = out.seen.pending, open' => open,
         backend' = backend
  PROVE  CallsCited'
<1> SUFFICES ASSUME NotVercel, open, CallsQueued, ResultsQueued, QueuedOnce, CallsPending, CallsRunning
             PROVE  CallsQueued' /\ ResultsQueued' /\ QueuedOnce' /\ CallsPending' /\ CallsRunning'
  BY DEF CallsCited, NotVercel
<1>1. /\ \A i \in Slots' : (i \in Slots /\ queue'[i] = queue[i]) \/ ToolFree(queue'[i])
      /\ \A i \in Slots : i \in Slots' /\ queue'[i] = queue[i]
  BY SilentSlots DEF CallsKept
<1>2. \A c : ~ToolFree(ToolCall(c)) /\ ~ToolFree(ToolResult(c)) BY CallIds DEF ToolFree
<1>3. session'.running = session.running /\ session'.used = session.used BY DEF CallsKept
<1>4. CallsQueued' BY <1>1, <1>2, <1>3 DEF CallsQueued, Queued
<1>5. ResultsQueued' BY <1>1, <1>2, <1>3 DEF ResultsQueued
<1>6. QueuedOnce' BY <1>1, <1>2 DEF QueuedOnce
<1>7. CallsPending' BY <1>1, <1>3 DEF CallsPending, Queued
<1>8. CallsRunning' BY <1>1, <1>3 DEF CallsRunning, Queued
<1> QED BY <1>4, <1>5, <1>6, <1>7, <1>8

LEMMA GoneCited ==
  ASSUME Typed, CallsCited, CallsGone, out'.seen.pending = out.seen.pending, open' => open,
         backend' = backend
  PROVE  CallsCited'
<1> SUFFICES ASSUME NotVercel, open, CallsPending
             PROVE  CallsQueued' /\ ResultsQueued' /\ QueuedOnce' /\ CallsPending' /\ CallsRunning'
  BY DEF CallsCited, NotVercel
<1>1. Slots = {} /\ Slots' = {} BY DEF CallsGone, Slots
<1>2. out.seen.pending = {} BY <1>1 DEF CallsGone, CallsPending, Queued
<1>3. session'.running = {} BY DEF CallsGone
<1> QED BY <1>1, <1>2, <1>3
      DEF CallsQueued, ResultsQueued, QueuedOnce, CallsPending, CallsRunning, Queued

LEMMA CalledCited ==
  ASSUME BaseInv, CallsCited, NEW c \in SessionCalls, CalledTool(c), out' = out, open' = open,
         backend' = backend
  PROVE  CallsCited'
<1> SUFFICES ASSUME NotVercel, open, CallsQueued, ResultsQueued, QueuedOnce, CallsPending, CallsRunning
             PROVE  CallsQueued' /\ ResultsQueued' /\ QueuedOnce' /\ CallsPending' /\ CallsRunning'
  BY DEF CallsCited, NotVercel
<1> DEFINE n == Len(queue) + 1
<1>1. /\ \A i \in Slots : i \in Slots' /\ queue'[i] = queue[i] /\ i < n
      /\ n \in Slots' /\ queue'[n] = ToolCall(c)
      /\ \A i \in Slots' : i \in Slots \/ i = n
  BY AppendedSlots, ChainedEvents DEF BaseInv, CalledTool
<1>2. n \in Nat BY LenProperties DEF BaseInv, Typed
<1> HIDE DEF n
<1>3. /\ c \notin session.used /\ session.running \subseteq session.used
      /\ session'.running = session.running \cup {c} /\ session'.used = session.used \cup {c}
  BY DEF CalledTool, BaseInv, AtPlace
<1>4. \A i \in Slots : queue[i] # ToolCall(c) /\ queue[i] # ToolResult(c)
  BY <1>3 DEF CallsQueued, ResultsQueued
<1>5. CallId(c) \notin out.seen.pending BY <1>3, <1>4 DEF CallsPending, Queued
<1>6. CallsQueued'
  <2> SUFFICES ASSUME NEW d \in SessionCalls, NEW i \in Slots', queue'[i] = ToolCall(d)
               PROVE  /\ d \in session'.used /\ CallId(d) \notin out.seen.pending
                      /\ d \in session'.running \/ \E j \in Slots' : queue'[j] = ToolResult(d)
    BY DEF CallsQueued, Queued
  <2>1. CASE i = n BY <1>1, <1>3, <1>5, <2>1, CallIds
  <2>2. CASE i \in Slots BY <1>1, <1>3, <2>2 DEF CallsQueued, Queued
  <2> QED BY <1>1, <2>1, <2>2
<1>7. ResultsQueued'
  <2> SUFFICES ASSUME NEW d \in SessionCalls, NEW i \in Slots', queue'[i] = ToolResult(d)
               PROVE  /\ d \in session'.used \ session'.running
                      /\ \/ CallId(d) \in out.seen.pending
                         \/ \E j \in Slots' : j < i /\ queue'[j] = ToolCall(d)
    BY DEF ResultsQueued
  <2>1. i \in Slots /\ queue[i] = ToolResult(d) BY <1>1, CallIds
  <2>2. d # c BY <1>4, <2>1
  <2> QED BY <1>1, <1>3, <2>1, <2>2 DEF ResultsQueued
<1>8. QueuedOnce'
  <2> SUFFICES ASSUME NEW d \in SessionCalls, NEW i \in Slots', NEW j \in Slots'
               PROVE  /\ queue'[i] = ToolCall(d) /\ queue'[j] = ToolCall(d) => i = j
                      /\ queue'[i] = ToolResult(d) /\ queue'[j] = ToolResult(d) => i = j
                      /\ queue'[i] = ToolCall(d) /\ queue'[j] = ToolResult(d) => i < j
    BY DEF QueuedOnce
  <2>1. CASE i \in Slots /\ j \in Slots BY <1>1, <2>1 DEF QueuedOnce
  <2>2. CASE i = n /\ j \in Slots BY <1>1, <1>4, <2>2, CallIds
  <2>3. CASE i \in Slots /\ j = n BY <1>1, <1>4, <2>3, CallIds
  <2>4. CASE i = n /\ j = n BY <1>1, <2>4, CallIds
  <2> QED BY <1>1, <2>1, <2>2, <2>3, <2>4
<1>9. CallsPending' BY <1>1, <1>3 DEF CallsPending, Queued
<1>10. CallsRunning' BY <1>1, <1>3 DEF CallsRunning, Queued
<1> QED BY <1>6, <1>7, <1>8, <1>9, <1>10

LEMMA EndedCited ==
  ASSUME BaseInv, CallsCited, NEW c \in SessionCalls, EndedTool(c), out' = out, open' = open,
         backend' = backend
  PROVE  CallsCited'
<1> SUFFICES ASSUME NotVercel, open, CallsQueued, ResultsQueued, QueuedOnce, CallsPending, CallsRunning
             PROVE  CallsQueued' /\ ResultsQueued' /\ QueuedOnce' /\ CallsPending' /\ CallsRunning'
  BY DEF CallsCited, NotVercel
<1> DEFINE n == Len(queue) + 1
<1>1. /\ \A i \in Slots : i \in Slots' /\ queue'[i] = queue[i] /\ i < n
      /\ n \in Slots' /\ queue'[n] = ToolResult(c)
      /\ \A i \in Slots' : i \in Slots \/ i = n
  BY AppendedSlots, ChainedEvents DEF BaseInv, EndedTool
<1>2. n \in Nat BY LenProperties DEF BaseInv, Typed
<1> HIDE DEF n
<1>3. /\ c \in session.running /\ session.running \subseteq session.used
      /\ session'.running = session.running \ {c} /\ session'.used = session.used
  BY DEF EndedTool, BaseInv, AtPlace
<1>4. \A i \in Slots : queue[i] # ToolResult(c) BY <1>3 DEF ResultsQueued
<1>5. CallsQueued'
  <2> SUFFICES ASSUME NEW d \in SessionCalls, NEW i \in Slots', queue'[i] = ToolCall(d)
               PROVE  /\ d \in session'.used /\ CallId(d) \notin out.seen.pending
                      /\ d \in session'.running \/ \E j \in Slots' : queue'[j] = ToolResult(d)
    BY DEF CallsQueued, Queued
  <2>1. i \in Slots /\ queue[i] = ToolCall(d) BY <1>1, CallIds
  <2>2. /\ d \in session.used /\ CallId(d) \notin out.seen.pending
        /\ d \in session.running \/ \E j \in Slots : queue[j] = ToolResult(d)
    BY <2>1 DEF CallsQueued, Queued
  <2> QED BY <1>1, <1>3, <2>2
<1>6. ResultsQueued'
  <2> SUFFICES ASSUME NEW d \in SessionCalls, NEW i \in Slots', queue'[i] = ToolResult(d)
               PROVE  /\ d \in session'.used \ session'.running
                      /\ \/ CallId(d) \in out.seen.pending
                         \/ \E j \in Slots' : j < i /\ queue'[j] = ToolCall(d)
    BY DEF ResultsQueued
  <2>1. CASE i = n
    <3>1. d = c BY <1>1, <2>1, CallIds
    <3>2. CallId(c) \in out.seen.pending \/ \E j \in Slots : queue[j] = ToolCall(c)
      BY <1>3 DEF CallsRunning, Queued
    <3> QED BY <1>1, <1>3, <2>1, <3>1, <3>2
  <2>2. CASE i \in Slots BY <1>1, <1>3, <2>2 DEF ResultsQueued
  <2> QED BY <1>1, <2>1, <2>2
<1>7. QueuedOnce'
  <2> SUFFICES ASSUME NEW d \in SessionCalls, NEW i \in Slots', NEW j \in Slots'
               PROVE  /\ queue'[i] = ToolCall(d) /\ queue'[j] = ToolCall(d) => i = j
                      /\ queue'[i] = ToolResult(d) /\ queue'[j] = ToolResult(d) => i = j
                      /\ queue'[i] = ToolCall(d) /\ queue'[j] = ToolResult(d) => i < j
    BY DEF QueuedOnce
  <2>1. CASE i \in Slots /\ j \in Slots BY <1>1, <2>1 DEF QueuedOnce
  <2>2. CASE i = n /\ j \in Slots BY <1>1, <1>4, <2>2, CallIds
  <2>3. CASE i \in Slots /\ j = n BY <1>1, <1>4, <2>3, CallIds
  <2>4. CASE i = n /\ j = n BY <1>1, <2>4, CallIds
  <2> QED BY <1>1, <2>1, <2>2, <2>3, <2>4
<1>8. CallsPending'
  <2>1. \A d \in SessionCalls : CallId(d) \in out.seen.pending =>
          d \in session'.running \/ \E j \in Slots' : queue'[j] = ToolResult(d)
    BY <1>1, <1>3 DEF CallsPending, Queued
  <2> QED BY <2>1 DEF CallsPending, Queued
<1>9. CallsRunning' BY <1>1, <1>3 DEF CallsRunning, Queued
<1> QED BY <1>5, <1>6, <1>7, <1>8, <1>9

(* The chain writes a call that is not pending, a result of one that is, or     *)
(* something else.                                                         *)
LEMMA ChainFree ==
  ASSUME BaseInv, CallsCited, NotVercel, open, ChainStep, ToolFree(queue[1])
  PROVE  /\ CallsCited' /\ SameCalls(out, out')
<1>0. /\ queue[1] \in Chained /\ out' = Put(out, queue[1]) /\ Slots # {} /\ 1 \in Slots
      /\ \A i \in Slots' : i + 1 \in Slots /\ queue'[i] = queue[i + 1]
      /\ \A i \in Slots : i = 1 \/ (i - 1 \in Slots' /\ queue'[i - 1] = queue[i])
      /\ UNCHANGED <<backend, open, session>>
  BY ChainChange
<1>1. CallsQueued /\ ResultsQueued /\ QueuedOnce /\ CallsPending /\ CallsRunning BY DEF CallsCited
<1>2. \A i \in Slots : i \in Nat /\ (i = 1 \/ i > 1) BY DEF Slots
<1>3. \A i \in Slots' : i \in Nat /\ i >= 1 BY DEF Slots
<1>4. /\ \A e : e.name \notin {"tool_call", "tool_result"} => Put(out, e).seen.pending = out.seen.pending
      /\ \A e : Put(out, e).seen.faults = out.seen.faults \cup FaultsOf(out.seen, e)
  BY PutFields
<1>5. out'.seen.pending = out.seen.pending BY <1>0, <1>4 DEF ToolFree
<1>6. FaultsOf(out.seen, queue[1]) \subseteq {"follows_terminal"}
  <2>1. ~IsVerdict(queue[1]) =>
          queue[1].name # "student_interruption" /\ queue[1].name # "teacher_continuation"
    BY <1>0, ChainedEffect
  <2>2. queue[1].name \notin {"tool_call", "tool_result", "student_interruption", "teacher_continuation"}
    BY <2>1 DEF IsVerdict, ToolFree
  <2> QED BY <2>2 DEF FaultsOf
<1>7. SameCalls(out, out') BY <1>0, <1>4, <1>5, <1>6 DEF SameCalls
<1>8. \A c : queue[1] # ToolCall(c) /\ queue[1] # ToolResult(c) BY CallIds DEF ToolFree
<1>9. CallsQueued'
  <2> SUFFICES ASSUME NEW d \in SessionCalls, NEW i \in Slots', queue'[i] = ToolCall(d)
               PROVE  /\ d \in session.used /\ CallId(d) \notin out'.seen.pending
                      /\ d \in session.running \/ \E j \in Slots' : queue'[j] = ToolResult(d)
    BY <1>0 DEF CallsQueued, Queued
  <2>1. /\ d \in session.used /\ CallId(d) \notin out.seen.pending
        /\ d \in session.running \/ \E j \in Slots : queue[j] = ToolResult(d)
    BY <1>0, <1>1 DEF CallsQueued, Queued
  <2> QED BY <1>0, <1>5, <1>8, <2>1
<1>10. ResultsQueued'
  <2> SUFFICES ASSUME NEW d \in SessionCalls, NEW i \in Slots', queue'[i] = ToolResult(d)
               PROVE  /\ d \in session.used \ session.running
                      /\ \/ CallId(d) \in out'.seen.pending
                         \/ \E j \in Slots' : j < i /\ queue'[j] = ToolCall(d)
    BY <1>0 DEF ResultsQueued
  <2>1. /\ d \in session.used \ session.running
        /\ CallId(d) \in out.seen.pending \/ \E j \in Slots : j < i + 1 /\ queue[j] = ToolCall(d)
    BY <1>0, <1>1 DEF ResultsQueued
  <2>2. ASSUME NEW j \in Slots, j < i + 1, queue[j] = ToolCall(d)
        PROVE  \E k \in Slots' : k < i /\ queue'[k] = ToolCall(d)
    <3>1. j - 1 \in Slots' /\ queue'[j - 1] = ToolCall(d) BY <1>0, <1>8, <2>2
    <3>2. j - 1 < i BY <1>2, <1>3, <2>2
    <3> QED BY <3>1, <3>2
  <2> QED BY <1>5, <2>1, <2>2
<1>11. QueuedOnce'
  <2> SUFFICES ASSUME NEW d \in SessionCalls, NEW i \in Slots', NEW j \in Slots'
               PROVE  /\ queue'[i] = ToolCall(d) /\ queue'[j] = ToolCall(d) => i = j
                      /\ queue'[i] = ToolResult(d) /\ queue'[j] = ToolResult(d) => i = j
                      /\ queue'[i] = ToolCall(d) /\ queue'[j] = ToolResult(d) => i < j
    BY DEF QueuedOnce
  <2>1. /\ queue[i + 1] = ToolCall(d) /\ queue[j + 1] = ToolCall(d) => i + 1 = j + 1
        /\ queue[i + 1] = ToolResult(d) /\ queue[j + 1] = ToolResult(d) => i + 1 = j + 1
        /\ queue[i + 1] = ToolCall(d) /\ queue[j + 1] = ToolResult(d) => i + 1 < j + 1
    BY <1>0, <1>1 DEF QueuedOnce
  <2> QED BY <1>0, <1>3, <2>1
<1>12. CallsPending'
  <2>1. \A d \in SessionCalls : CallId(d) \in out.seen.pending =>
          d \in session.running \/ \E j \in Slots' : queue'[j] = ToolResult(d)
    BY <1>0, <1>1, <1>8 DEF CallsPending, Queued
  <2> QED BY <1>0, <1>1, <1>5, <2>1 DEF CallsPending, Queued
<1>13. CallsRunning' BY <1>0, <1>1, <1>5, <1>8 DEF CallsRunning, Queued
<1> QED BY <1>7, <1>9, <1>10, <1>11, <1>12, <1>13 DEF CallsCited

LEMMA ChainCalls ==
  ASSUME BaseInv, CallsCited, NotVercel, open, ChainStep,
         NEW h \in SessionCalls, queue[1] = ToolCall(h)
  PROVE  /\ CallsCited' /\ out'.seen.faults \subseteq out.seen.faults \cup {"follows_terminal"}
<1>0. /\ out' = Put(out, queue[1]) /\ 1 \in Slots
      /\ \A i \in Slots' : i + 1 \in Slots /\ queue'[i] = queue[i + 1]
      /\ \A i \in Slots : i = 1 \/ (i - 1 \in Slots' /\ queue'[i - 1] = queue[i])
      /\ UNCHANGED <<backend, open, session>>
  BY ChainChange
<1>1. CallsQueued /\ ResultsQueued /\ QueuedOnce /\ CallsPending /\ CallsRunning BY DEF CallsCited
<1>2. \A i \in Slots : i \in Nat /\ (i = 1 \/ i > 1) BY DEF Slots
<1>3. \A i \in Slots' : i \in Nat /\ i >= 1 BY DEF Slots
<1>4. /\ \A e : e.name = "tool_call" => Put(out, e).seen.pending = out.seen.pending \cup {e.id}
      /\ \A e : Put(out, e).seen.faults = out.seen.faults \cup FaultsOf(out.seen, e)
  BY PutFields
<1>5. out'.seen.pending = out.seen.pending \cup {CallId(h)} BY <1>0, <1>4, CallIds
<1>6. h \in session.used /\ CallId(h) \notin out.seen.pending BY <1>0, <1>1 DEF CallsQueued
<1>7. FaultsOf(out.seen, queue[1]) \subseteq {"follows_terminal"} BY <1>6, CallIds DEF FaultsOf
<1>8. /\ \A c : queue[1] # ToolResult(c)
      /\ \A c : queue[1] = ToolCall(c) => c = h
      /\ \A i \in Slots' : queue'[i] # ToolCall(h)
  <2>1. ASSUME NEW i \in Slots', queue'[i] = ToolCall(h) PROVE FALSE
    <3>1. i + 1 \in Slots /\ queue[i + 1] = ToolCall(h) BY <1>0, <2>1
    <3>2. i + 1 = 1 BY <1>0, <1>1, <3>1 DEF QueuedOnce
    <3> QED BY <1>3, <3>2
  <2> QED BY <2>1, CallIds
<1>9. CallsQueued'
  <2> SUFFICES ASSUME NEW d \in SessionCalls, NEW i \in Slots', queue'[i] = ToolCall(d)
               PROVE  /\ d \in session.used /\ CallId(d) \notin out'.seen.pending
                      /\ d \in session.running \/ \E j \in Slots' : queue'[j] = ToolResult(d)
    BY <1>0 DEF CallsQueued, Queued
  <2>1. /\ d \in session.used /\ CallId(d) \notin out.seen.pending
        /\ d \in session.running \/ \E j \in Slots : queue[j] = ToolResult(d)
    BY <1>0, <1>1 DEF CallsQueued, Queued
  <2>2. CallId(d) # CallId(h) BY <1>8, CallIds
  <2> QED BY <1>0, <1>5, <1>8, <2>1, <2>2
<1>10. ResultsQueued'
  <2> SUFFICES ASSUME NEW d \in SessionCalls, NEW i \in Slots', queue'[i] = ToolResult(d)
               PROVE  /\ d \in session.used \ session.running
                      /\ \/ CallId(d) \in out'.seen.pending
                         \/ \E j \in Slots' : j < i /\ queue'[j] = ToolCall(d)
    BY <1>0 DEF ResultsQueued
  <2>1. /\ d \in session.used \ session.running
        /\ CallId(d) \in out.seen.pending \/ \E j \in Slots : j < i + 1 /\ queue[j] = ToolCall(d)
    BY <1>0, <1>1 DEF ResultsQueued
  <2>2. ASSUME NEW j \in Slots, j < i + 1, queue[j] = ToolCall(d)
        PROVE  d = h \/ \E k \in Slots' : k < i /\ queue'[k] = ToolCall(d)
    <3>1. CASE j = 1 BY <1>8, <2>2, <3>1
    <3>2. CASE j # 1
      <4>1. j - 1 \in Slots' /\ queue'[j - 1] = ToolCall(d) BY <1>0, <2>2, <3>2
      <4>2. j - 1 < i BY <1>2, <1>3, <2>2
      <4> QED BY <4>1, <4>2
    <3> QED BY <3>1, <3>2
  <2> QED BY <1>5, <2>1, <2>2
<1>11. QueuedOnce'
  <2> SUFFICES ASSUME NEW d \in SessionCalls, NEW i \in Slots', NEW j \in Slots'
               PROVE  /\ queue'[i] = ToolCall(d) /\ queue'[j] = ToolCall(d) => i = j
                      /\ queue'[i] = ToolResult(d) /\ queue'[j] = ToolResult(d) => i = j
                      /\ queue'[i] = ToolCall(d) /\ queue'[j] = ToolResult(d) => i < j
    BY DEF QueuedOnce
  <2>1. /\ queue[i + 1] = ToolCall(d) /\ queue[j + 1] = ToolCall(d) => i + 1 = j + 1
        /\ queue[i + 1] = ToolResult(d) /\ queue[j + 1] = ToolResult(d) => i + 1 = j + 1
        /\ queue[i + 1] = ToolCall(d) /\ queue[j + 1] = ToolResult(d) => i + 1 < j + 1
    BY <1>0, <1>1 DEF QueuedOnce
  <2> QED BY <1>0, <1>3, <2>1
<1>12. CallsPending'
  <2>1. \A d \in SessionCalls : CallId(d) \in out.seen.pending =>
          d \in session.running \/ \E j \in Slots' : queue'[j] = ToolResult(d)
    BY <1>0, <1>1, <1>8 DEF CallsPending, Queued
  <2>2. h \in session.running \/ \E j \in Slots' : queue'[j] = ToolResult(h)
    BY <1>0, <1>1, <1>8 DEF CallsQueued, Queued
  <2>3. \A d \in SessionCalls : CallId(d) \in out'.seen.pending => CallId(d) \in out.seen.pending \/ d = h
    BY <1>5, CallIds
  <2> QED BY <1>0, <1>1, <1>5, <2>1, <2>2, <2>3 DEF CallsPending, Queued
<1>13. CallsRunning' BY <1>0, <1>1, <1>5, <1>8 DEF CallsRunning, Queued
<1> QED BY <1>0, <1>4, <1>7, <1>9, <1>10, <1>11, <1>12, <1>13 DEF CallsCited

LEMMA ChainResults ==
  ASSUME BaseInv, CallsCited, NotVercel, open, ChainStep,
         NEW h \in SessionCalls, queue[1] = ToolResult(h)
  PROVE  /\ CallsCited' /\ out'.seen.faults \subseteq out.seen.faults \cup {"follows_terminal"}
<1>0. /\ out' = Put(out, queue[1]) /\ 1 \in Slots
      /\ \A i \in Slots' : i + 1 \in Slots /\ queue'[i] = queue[i + 1]
      /\ \A i \in Slots : i = 1 \/ (i - 1 \in Slots' /\ queue'[i - 1] = queue[i])
      /\ UNCHANGED <<backend, open, session>>
  BY ChainChange
<1>1. CallsQueued /\ ResultsQueued /\ QueuedOnce /\ CallsPending /\ CallsRunning BY DEF CallsCited
<1>2. \A i \in Slots : i \in Nat /\ (i = 1 \/ i > 1) BY DEF Slots
<1>3. \A i \in Slots' : i \in Nat /\ i >= 1 BY DEF Slots
<1>4. /\ \A e : e.name = "tool_result" => Put(out, e).seen.pending = out.seen.pending \ {e.id}
      /\ \A e : Put(out, e).seen.faults = out.seen.faults \cup FaultsOf(out.seen, e)
  BY PutFields
<1>5. out'.seen.pending = out.seen.pending \ {CallId(h)} BY <1>0, <1>4, CallIds
<1>6. h \in session.used \ session.running /\ CallId(h) \in out.seen.pending
  <2>1. /\ h \in session.used \ session.running
        /\ CallId(h) \in out.seen.pending \/ \E j \in Slots : j < 1 /\ queue[j] = ToolCall(h)
    BY <1>0, <1>1 DEF ResultsQueued
  <2> QED BY <1>2, <2>1
<1>7. FaultsOf(out.seen, queue[1]) \subseteq {"follows_terminal"} BY <1>6, CallIds DEF FaultsOf
<1>8. /\ \A c : queue[1] # ToolCall(c)
      /\ \A c : queue[1] = ToolResult(c) => c = h
      /\ \A i \in Slots' : queue'[i] # ToolResult(h) /\ queue'[i] # ToolCall(h)
  <2>1. ASSUME NEW i \in Slots', queue'[i] = ToolResult(h) \/ queue'[i] = ToolCall(h) PROVE FALSE
    <3>1. i + 1 \in Slots /\ (queue[i + 1] = ToolResult(h) \/ queue[i + 1] = ToolCall(h)) BY <1>0, <2>1
    <3>2. i + 1 = 1 \/ i + 1 < 1 BY <1>0, <1>1, <3>1 DEF QueuedOnce
    <3> QED BY <1>3, <3>2
  <2> QED BY <2>1, CallIds
<1>9. CallsQueued'
  <2> SUFFICES ASSUME NEW d \in SessionCalls, NEW i \in Slots', queue'[i] = ToolCall(d)
               PROVE  /\ d \in session.used /\ CallId(d) \notin out'.seen.pending
                      /\ d \in session.running \/ \E j \in Slots' : queue'[j] = ToolResult(d)
    BY <1>0 DEF CallsQueued, Queued
  <2>1. /\ d \in session.used /\ CallId(d) \notin out.seen.pending
        /\ d \in session.running \/ \E j \in Slots : queue[j] = ToolResult(d)
    BY <1>0, <1>1 DEF CallsQueued, Queued
  <2>2. d # h BY <1>8
  <2> QED BY <1>0, <1>5, <1>8, <2>1, <2>2
<1>10. ResultsQueued'
  <2> SUFFICES ASSUME NEW d \in SessionCalls, NEW i \in Slots', queue'[i] = ToolResult(d)
               PROVE  /\ d \in session.used \ session.running
                      /\ \/ CallId(d) \in out'.seen.pending
                         \/ \E j \in Slots' : j < i /\ queue'[j] = ToolCall(d)
    BY <1>0 DEF ResultsQueued
  <2>1. /\ d \in session.used \ session.running
        /\ CallId(d) \in out.seen.pending \/ \E j \in Slots : j < i + 1 /\ queue[j] = ToolCall(d)
    BY <1>0, <1>1 DEF ResultsQueued
  <2>2. ASSUME NEW j \in Slots, j < i + 1, queue[j] = ToolCall(d)
        PROVE  \E k \in Slots' : k < i /\ queue'[k] = ToolCall(d)
    <3>1. j - 1 \in Slots' /\ queue'[j - 1] = ToolCall(d) BY <1>0, <1>8, <2>2
    <3>2. j - 1 < i BY <1>2, <1>3, <2>2
    <3> QED BY <3>1, <3>2
  <2>3. CallId(d) # CallId(h) BY <1>8, CallIds
  <2> QED BY <1>5, <2>1, <2>2, <2>3
<1>11. QueuedOnce'
  <2> SUFFICES ASSUME NEW d \in SessionCalls, NEW i \in Slots', NEW j \in Slots'
               PROVE  /\ queue'[i] = ToolCall(d) /\ queue'[j] = ToolCall(d) => i = j
                      /\ queue'[i] = ToolResult(d) /\ queue'[j] = ToolResult(d) => i = j
                      /\ queue'[i] = ToolCall(d) /\ queue'[j] = ToolResult(d) => i < j
    BY DEF QueuedOnce
  <2>1. /\ queue[i + 1] = ToolCall(d) /\ queue[j + 1] = ToolCall(d) => i + 1 = j + 1
        /\ queue[i + 1] = ToolResult(d) /\ queue[j + 1] = ToolResult(d) => i + 1 = j + 1
        /\ queue[i + 1] = ToolCall(d) /\ queue[j + 1] = ToolResult(d) => i + 1 < j + 1
    BY <1>0, <1>1 DEF QueuedOnce
  <2> QED BY <1>0, <1>3, <2>1
<1>12. CallsPending'
  <2>1. ASSUME NEW d \in SessionCalls, CallId(d) \in out'.seen.pending
        PROVE  d \in session.running \/ \E j \in Slots' : queue'[j] = ToolResult(d)
    <3>1. CallId(d) \in out.seen.pending /\ d # h BY <1>5, <2>1
    <3>2. d \in session.running \/ \E j \in Slots : queue[j] = ToolResult(d)
      BY <1>1, <3>1 DEF CallsPending, Queued
    <3> QED BY <1>0, <1>8, <3>1, <3>2
  <2> QED BY <1>0, <1>1, <1>5, <2>1 DEF CallsPending, Queued
<1>13. CallsRunning'
  <2>1. ASSUME NEW d \in session.running
        PROVE  CallId(d) \in out'.seen.pending \/ \E j \in Slots' : queue'[j] = ToolCall(d)
    <3>1. CallId(d) # CallId(h) BY <1>6, CallIds
    <3>2. CallId(d) \in out.seen.pending \/ \E j \in Slots : queue[j] = ToolCall(d)
      BY <1>1 DEF CallsRunning, Queued
    <3> QED BY <1>0, <1>5, <1>8, <3>1, <3>2
  <2> QED BY <1>0, <2>1 DEF CallsRunning, Queued
<1> QED BY <1>0, <1>4, <1>7, <1>9, <1>10, <1>11, <1>12, <1>13 DEF CallsCited

LEMMA CallsChain ==
  ASSUME BaseInv, CallsCited, FaultsKnown, ChainStep
  PROVE  CallsCited' /\ FaultsKnown'
<1>0. /\ queue[1] \in Chained /\ out' = Put(out, queue[1]) /\ UNCHANGED <<backend, open>>
  BY ChainChange
<1>1. CASE ~NotVercel BY <1>0, <1>1 DEF CallsCited, FaultsKnown, NotVercel
<1>2. CASE ~open
  <2>1. out' = out BY <1>0, <1>2 DEF Put
  <2> QED BY <1>0, <1>2, <2>1 DEF CallsCited, FaultsKnown, NotVercel
<1>3. CASE NotVercel /\ open
  <2>1. CASE ToolFree(queue[1])
    BY <1>0, <1>3, <2>1, ChainFree DEF SameCalls, FaultsKnown, NotVercel
  <2>2. ASSUME NEW h \in SessionCalls, queue[1] = ToolCall(h) PROVE CallsCited' /\ FaultsKnown'
    BY <1>0, <1>3, <2>2, ChainCalls DEF FaultsKnown, NotVercel
  <2>3. ASSUME NEW h \in SessionCalls, queue[1] = ToolResult(h) PROVE CallsCited' /\ FaultsKnown'
    BY <1>0, <1>3, <2>3, ChainResults DEF FaultsKnown, NotVercel
  <2>4. \/ ToolFree(queue[1])
        \/ \E h \in SessionCalls : queue[1] = ToolCall(h) \/ queue[1] = ToolResult(h)
    BY <1>0
      DEF Chained, ToolFree, Event, Delta, Usage, Compaction, Cancellation, Fatal, Recoverable, Verdict
  <2> QED BY <2>1, <2>2, <2>3, <2>4
<1> QED BY <1>1, <1>2, <1>3

CallsMoved ==
  /\ backend' = backend /\ (open' => open)
  /\ \/ SameCalls(out, out') /\ (CallsKept \/ CallsGone)
     \/ /\ out' = out /\ open' = open
        /\ \E c \in SessionCalls : CalledTool(c) \/ EndedTool(c)

LEMMA FreeEvents ==
  /\ \A r : ToolFree(Usage(r)) /\ ToolFree(Delta(r))
  /\ ToolFree(Compaction) /\ ToolFree(Cancellation) /\ ToolFree(Fatal) /\ ToolFree(Recoverable)
  /\ \A v, m : ToolFree(Verdict(v, m))
BY DEF ToolFree, Usage, Delta, Compaction, Cancellation, Fatal, Recoverable, Verdict, Event

LEMMA AppendedFree ==
  ASSUME Typed, NEW e \in Chained, ToolFree(e), queue' = Append(queue, e)
  PROVE  QueueSilent
<1>1. <<e>> \in Seq(Chained) /\ Longer(<<e>>) BY Appended
<1>2. \A i \in 1..Len(<<e>>) : ToolFree(<<e>>[i]) OBVIOUS
<1> QED BY <1>1, <1>2 DEF QueueSilent

LEMMA CallbackMoves ==
  ASSUME BaseInv, NEW role \in Roles, NEW planned \in BOOLEAN, Callback(role, planned) \/ OnDelta(role),
         UNCHANGED <<backend, open, out>>
  PROVE  CallsMoved
<1>0. Typed BY DEF BaseInv
<1>1. CASE OnDelta(role)
  <2>1. queue' = Append(queue, Delta(role)) /\ SessionKept BY <1>0, <1>1, DeltaEffect
  <2>2. QueueSilent BY <1>0, <2>1, ChainedEvents, FreeEvents, AppendedFree
  <2> QED BY <2>1, <2>2, SameRefl DEF CallsMoved, CallsKept, SessionKept
<1>2. CASE Callback(role, planned)
  <2>1. \/ Reported(role) /\ SessionKept
        \/ \E c \in SessionCalls : CalledTool(c) \/ EndedTool(c)
    BY <1>2, CallbackEffect
  <2>2. CASE Reported(role) /\ SessionKept
    <3>1. PICK new \in Seq(Chained) :
            Longer(new) /\ \A i \in 1..Len(new) : new[i] \in Reports(role)
      BY <2>2 DEF Reported
    <3>2. \A e \in Reports(role) : ToolFree(e) BY FreeEvents DEF Reports
    <3>3. QueueSilent BY <3>1, <3>2 DEF QueueSilent
    <3> QED BY <2>2, <3>3, SameRefl DEF CallsMoved, CallsKept, SessionKept
  <2>3. CASE \E c \in SessionCalls : CalledTool(c) \/ EndedTool(c) BY <2>3 DEF CallsMoved
  <2> QED BY <2>1, <2>2, <2>3
<1> QED BY <1>1, <1>2

LEMMA QuietCalls ==
  \A o : \A e \in {Message, Cancellation, Fatal} : SameCalls(o, o) /\ SameCalls(o, Put(o, e))
BY QuietEvents, PutQuiet, SameRefl

LEMMA PiMoves == BaseInv /\ PiStep => CallsMoved
<1> SUFFICES ASSUME BaseInv, PiStep PROVE CallsMoved OBVIOUS
<1>0. AdapterOK /\ Typed /\ AtPlace BY SameBase
<1>1. UNCHANGED <<backend, open>>
  BY DEF PiStep, PiNext, PiCreate, PiCreateThrows, PiCompacts, PiCallback, PiContinue,
    PiPrompted, PiFlushed, streamVars, PiFails
<1>2. CASE PiCallback BY <1>1, <1>2, CallbackMoves DEF PiCallback, Roles, streamVars
<1>3. ~PiCallback => SameCalls(out, out')
  <2>1. ~PiCallback => out' = out \/ \E e \in {Message, Cancellation, Fatal} : out' = Put(out, e)
    BY DEF PiStep, PiNext, PiCreate, PiCreateThrows, PiCompacts, PiContinue,
      PiPrompted, PiFlushed, streamVars, PiFails
  <2> QED BY <2>1, QuietCalls
<1>4. CASE PiCreate
  <2>1. CallsGone
    BY <1>0, <1>4, FreshSession
      DEF PiCreate, OpenSession, AtPlace, WithSession, CallsGone, NoSession, Prompt
  <2> QED BY <1>1, <1>3, <1>4, <2>1 DEF CallsMoved, PiCreate, PiCallback
<1>5. CASE PiFlushed
  <2>1. CallsGone
    BY <1>0, <1>5 DEF PiFlushed, CloseSession, adapterVars, AtPlace, CallsGone, NoSession
  <2> QED BY <1>1, <1>3, <1>5, <2>1 DEF CallsMoved, PiFlushed, PiCallback
<1>6. CASE PiCompacts \/ PiPrompted \/ PiCreateThrows \/ PiContinue
  <2>1. QueueSilent
    <3>1. queue' = queue \/ \E e \in {Compaction, Recoverable} : queue' = Append(queue, e)
      BY <1>6 DEF PiCompacts, PiPrompted, PiCreateThrows, PiContinue, adapterVars
    <3>2. \A e \in {Compaction, Recoverable} : e \in Chained /\ ToolFree(e)
      BY ChainedEvents, FreeEvents
    <3> QED BY <1>0, <3>1, <3>2, AppendedFree DEF QueueSilent
  <2>2. UNCHANGED <<session.running, session.used>>
    <3>1. CASE PiCompacts
      BY <1>0, <3>1, FreshSession DEF PiCompacts, AtPlace, PiFails
    <3>2. CASE PiContinue
      BY <1>0, <3>2, FreshSession DEF PiContinue, Settled, AtPlace, Typed, SessionType
    <3>3. CASE PiPrompted \/ PiCreateThrows
      BY <3>3 DEF PiPrompted, PiCreateThrows, sessionVars
    <3> QED BY <1>6, <3>1, <3>2, <3>3
  <2>3. CASE PiCallback BY <1>2, <2>3
  <2> QED BY <1>1, <1>3, <2>1, <2>2, <2>3 DEF CallsMoved, CallsKept
<1> QED BY <1>2, <1>4, <1>5, <1>6 DEF PiStep, PiNext

LEMMA SameBackend == [Next]_vars => backend' = backend
<1> SUFFICES ASSUME [Next]_vars PROVE backend' = backend OBVIOUS
<1>1. CASE PiStep \/ SupervisedStep \/ SupervisorStep \/ VercelStep
  BY <1>1 DEF PiStep, SupervisedStep, SupervisorStep, VercelStep
<1>2. CASE ChainStep \/ Refuse \/ Finish \/ Cancel \/ Disconnect \/ UNCHANGED vars
  BY <1>2 DEF ChainStep, Refuse, Finish, Cancel, Disconnect, vars
<1> QED BY <1>1, <1>2 DEF Next

LEMMA SameCallsJoin ==
  ASSUME NEW o, NEW p, NEW q, SameCalls(o, p), SameCalls(p, q)
  PROVE  SameCalls(o, q)
BY DEF SameCalls

(* The markers that an interruption cites are there: it is written when the chain *)
(* has drained, or right after its verdict.                                *)
LEMMA EndMoves ==
  ASSUME BaseInv, MarkerCited, StudentEnds, backend' = backend
  PROVE  CallsMoved
<1>1. /\ at = "studentSettled" /\ queue = <<>> /\ queue' = <<>> /\ open' = open /\ segment' = segment
  BY EndChange
<1>2. PICK o \in {out, Put(out, Cancellation), Put(out, Fatal)} : EndOf(o) BY EndChange
<1>3. SameCalls(out, o) /\ o.seen.marked = out.seen.marked
  BY QuietEvents, PutQuiet, SameRefl DEF SameVerdicts
<1>4. session.running = {} /\ session'.running = {}
  BY <1>1, <1>2 DEF BaseInv, AtPlace, EndOf, Ended, NoSession
<1>5. out' = o \/ (segment.decision \in Interventions /\ out' = HandOver(o, segment.marker))
  BY <1>2 DEF EndOf, Ended
<1>6. ~open \/ segment.decision \notin Interventions \/ segment.marker \in o.seen.marked
  BY <1>1, <1>3 DEF MarkerCited, Slots
<1>7. segment.decision \in Interventions => SameCalls(o, HandOver(o, segment.marker))
  BY <1>6, PutHandOver
<1>8. SameCalls(out, out') BY <1>3, <1>5, <1>7, SameCallsJoin
<1> QED BY <1>1, <1>4, <1>8 DEF CallsMoved, CallsGone

LEMMA FinalMoves ==
  ASSUME BaseInv, FinalResolves, backend' = backend
  PROVE  CallsMoved
<1>1. /\ at = "finalCheck" /\ queue = <<>> /\ queue' = <<>> /\ open' = open
      /\ \E v \in Verdicts : \E m, r : FinalEnd(v, m, r)
  BY FinalChange
<1>2. PICK v \in Verdicts : \E m, r : FinalEnd(v, m, r) BY <1>1
<1>3. PICK m, r : FinalEnd(v, m, r) BY <1>2
<1> DEFINE p == Put(out, Verdict(v, m))
           o == Put(p, Usage("supervisor"))
<1>4. SameCalls(out, p) /\ (open /\ v \in Interventions => m \in p.seen.marked)
  <2>1. SameCalls(out, p) BY PutVerdict
  <2>2. open => p.seen.marked = IF v \in Interventions THEN out.seen.marked \cup {m} ELSE out.seen.marked
    BY PutVerdict
  <2> QED BY <2>1, <2>2
<1>5. Quiet(Usage("supervisor")) BY QuietEvents
<1> HIDE DEF p
<1>6. SameCalls(p, o) /\ o.seen.marked = p.seen.marked BY <1>5, PutQuiet DEF SameVerdicts
<1>7. session.running = {} /\ session'.running = {}
  BY <1>1, <1>3 DEF BaseInv, AtPlace, FinalEnd, Ended, NoSession
<1>8. out' = o \/ (v \in Interventions /\ out' = HandOver(o, m))
  BY <1>3 DEF FinalEnd, Ended, p
<1> HIDE DEF o
<1>9. v \in Interventions => SameCalls(o, HandOver(o, m)) BY <1>4, <1>6, PutHandOver
<1>10. SameCalls(out, o) BY <1>4, <1>6, SameCallsJoin
<1>11. SameCalls(out, out') BY <1>8, <1>9, <1>10, SameCallsJoin
<1> QED BY <1>1, <1>7, <1>11 DEF CallsMoved, CallsGone

LEMMA CheckMoves ==
  ASSUME BaseInv, CheckResolves, backend' = backend
  PROVE  CallsMoved
<1>1. PICK v \in Verdicts, m \in MarkerIds : Judged(v, m) BY CheckChange
<1>2. UNCHANGED <<out, open, session>> BY CheckChange
<1>3. Verdict(v, m) \in Chained /\ Usage("supervisor") \in Chained BY ChainedEvents
<1>4. <<Verdict(v, m), Usage("supervisor")>> \in Seq(Chained) /\ Len(<<Verdict(v, m), Usage("supervisor")>>) = 2
      /\ <<Verdict(v, m), Usage("supervisor")>>[1] = Verdict(v, m)
      /\ <<Verdict(v, m), Usage("supervisor")>>[2] = Usage("supervisor")
  BY <1>3, Pairs
<1>5. \A i \in 1..2 : ToolFree(<<Verdict(v, m), Usage("supervisor")>>[i]) BY <1>4, FreeEvents
<1>6. Longer(<<Verdict(v, m), Usage("supervisor")>>) BY <1>1 DEF Judged, Longer
<1>7. QueueSilent BY <1>4, <1>5, <1>6 DEF QueueSilent
<1> QED BY <1>2, <1>7, SameRefl DEF CallsMoved, CallsKept

LEMMA SupervisedMoves == BaseInv /\ MarkerCited /\ (SupervisedStep \/ SupervisorStep) => CallsMoved
<1> SUFFICES ASSUME BaseInv, MarkerCited, SupervisedStep \/ SupervisorStep PROVE CallsMoved OBVIOUS
<1>0. AdapterOK /\ Typed /\ AtPlace BY SameBase
<1>1. backend' = backend BY DEF SupervisedStep, SupervisorStep
<1>2. CASE StudentEnds BY <1>1, <1>2, EndMoves
<1>3. CASE FinalResolves BY <1>1, <1>3, FinalMoves
<1>4. CASE CheckResolves BY <1>1, <1>4, CheckMoves
<1>5. CASE StudentCallback \/ TeacherCallback \/ StudentDelta
  <2>1. UNCHANGED <<open, out>> BY <1>5 DEF StudentCallback, TeacherCallback, StudentDelta, streamVars
  <2>2. \E role \in Roles, planned \in BOOLEAN : Callback(role, planned) \/ OnDelta(role)
    BY <1>0, <1>5, SegmentFields DEF StudentCallback, TeacherCallback, StudentDelta, Roles
  <2> QED BY <1>1, <2>1, <2>2, CallbackMoves
<1>6. CASE StudentCreate \/ TeacherCreate
  <2>1. queue = <<>> /\ session = NoSession
    BY <1>0, <1>6 DEF StudentCreate, TeacherCreate, AtPlace, WithSession
  <2>2. CallsGone
    BY <1>6, <2>1, FreshSession DEF StudentCreate, TeacherCreate, OpenSession, CallsGone
  <2>3. out' = out /\ open' = open BY <1>6 DEF StudentCreate, TeacherCreate, streamVars
  <2> QED BY <1>1, <2>2, <2>3, SameRefl DEF CallsMoved
<1>7. CASE FinalAborted \/ TeacherFlushed
  <2>1. queue = <<>> /\ queue' = <<>> /\ session.running = {}
    BY <1>0, <1>7 DEF FinalAborted, TeacherFlushed, AtPlace, adapterVars
  <2>2. session'.running = {} BY <1>7, FreshSession DEF FinalAborted, TeacherFlushed, CloseSession
  <2>3. open' = open /\ (out' = out \/ out' = Put(out, Cancellation))
    BY <1>7 DEF FinalAborted, TeacherFlushed, streamVars
  <2> QED BY <1>1, <2>1, <2>2, <2>3, QuietCalls DEF CallsMoved, CallsGone
<1>8. CASE SupervisedOpen \/ CreateThrows \/ CheckAborted \/ StudentSettles \/ AskOnceMore \/ TeacherSettles
  <2>1. UNCHANGED <<queue, session, open>>
    BY <1>8 DEF SupervisedOpen, CreateThrows, CheckAborted, StudentSettles, AskOnceMore, TeacherSettles,
      adapterVars, sessionVars, streamVars
  <2>2. out' = out \/ \E e \in {Message, Cancellation, Fatal} : out' = Put(out, e)
    BY <1>8 DEF SupervisedOpen, CreateThrows, CheckAborted, StudentSettles, AskOnceMore, TeacherSettles,
      streamVars
  <2> QED BY <1>1, <2>1, <2>2, QuietCalls DEF CallsMoved, CallsKept, QueueSilent
<1> QED BY <1>2, <1>3, <1>4, <1>5, <1>6, <1>7, <1>8
        DEF SupervisedStep, SupervisedNext, SupervisorStep, Supervisor

LEMMA CommonMoves == BaseInv /\ CommonAside => CallsMoved
<1> SUFFICES ASSUME BaseInv, CommonAside PROVE CallsMoved OBVIOUS
<1>1. /\ UNCHANGED <<backend, session, queue>>
      /\ open' => open
      /\ out' = out \/ out' = Put(out, Fatal)
  BY DEF CommonAside, Refuse, Finish, Cancel, Disconnect, Abort, vars, streamVars, adapterVars, sessionVars
<1> QED BY <1>1, QuietCalls DEF CallsMoved, CallsKept, QueueSilent

LEMMA InitCalls == Init => CallsCited /\ FaultsKnown
<1> SUFFICES ASSUME Init PROVE CallsCited /\ FaultsKnown OBVIOUS
<1>1. Slots = {} /\ out.seen.pending = {} /\ out.seen.faults = {} /\ session.running = {}
  BY DEF Init, SessionInit, NothingOut, NewReader, NoSession, Slots
<1> QED BY <1>1 DEF CallsCited, FaultsKnown, CallsQueued, ResultsQueued, QueuedOnce, CallsPending,
                    CallsRunning

CallsInv == CallsCited /\ FaultsKnown
LEMMA StepCalls == BaseInv /\ MarkerCited /\ CallsInv /\ [Next]_vars => CallsInv'
<1> SUFFICES ASSUME BaseInv, MarkerCited, CallsCited, FaultsKnown, [Next]_vars
             PROVE  CallsCited' /\ FaultsKnown'
  BY DEF CallsInv
<1>0. backend' = backend /\ Typed BY SameBackend DEF BaseInv
<1>1. CASE ~NotVercel BY <1>0, <1>1 DEF CallsCited, FaultsKnown, NotVercel
<1>2. CASE ChainStep BY <1>2, CallsChain
<1>3. CASE CallsMoved
  <2>1. CASE SameCalls(out, out') /\ (CallsKept \/ CallsGone)
    <3>1. CallsCited' BY <1>0, <1>3, <2>1, KeptCited, GoneCited DEF SameCalls, CallsMoved
    <3>2. FaultsKnown' BY <1>0, <2>1 DEF FaultsKnown, SameCalls, NotVercel
    <3> QED BY <3>1, <3>2
  <2>2. CASE out' = out /\ open' = open /\ \E c \in SessionCalls : CalledTool(c) \/ EndedTool(c)
    <3>1. CallsCited' BY <1>0, <2>2, CalledCited, EndedCited
    <3>2. FaultsKnown' BY <1>0, <2>2 DEF FaultsKnown, NotVercel
    <3> QED BY <3>1, <3>2
  <2> QED BY <1>3, <2>1, <2>2 DEF CallsMoved
<1>4. CASE VercelStep
  <2>1. at \in VercelPlaces
    BY <1>4 DEF VercelStep, VercelNext, VercelPlaces, VercelOpen, TextPart, FinishPart, StreamFails,
      StreamEnds, InputPart, CallPart, ResultPart, FlushInput, Flushing
  <2>2. ~NotVercel BY <2>1, Where DEF NotVercel
  <2> QED BY <1>1, <2>2
<1> QED BY <1>2, <1>3, <1>4, PiMoves, SupervisedMoves, CommonMoves DEF Next, CommonAside

-----------------------------------------------------------------------------
(* The calls of a Vercel stream. *)

(* An event that nothing speaks against. *)
Fits(s, e) ==
  /\ e.name \notin {"student_interruption", "teacher_continuation"}
  /\ e.name = "tool_call" => e.id \notin s.pending
  /\ e.name = "tool_result" => e.id \in s.pending
LEMMA PutFitting ==
  ASSUME NEW o, NEW e, o.seen.faults = {}, ~o.seen.terminal, open => Fits(o.seen, e)
  PROVE  /\ Put(o, e).seen.faults = {}
         /\ e.name \notin {"error", "cancellation"} => ~Put(o, e).seen.terminal
         /\ open => Put(o, e).seen.pending =
              (IF e.name = "tool_call" THEN o.seen.pending \cup {e.id}
               ELSE IF e.name = "tool_result" THEN o.seen.pending \ {e.id} ELSE o.seen.pending)
<1>1. CASE ~open
  <2>1. Put(o, e) = o BY <1>1 DEF Put
  <2> QED BY <1>1, <2>1
<1>2. CASE open
  <2>1. FaultsOf(o.seen, e) = {} BY <1>2 DEF FaultsOf, Fits
  <2>2. Put(o, e).seen.faults = o.seen.faults \cup FaultsOf(o.seen, e) BY <1>2, PutFields
  <2>3. Put(o, e).seen = Read(o.seen, e) BY <1>2, PutFields
  <2>4. Read(o.seen, e).terminal <=>
              \/ e.name = "cancellation"
              \/ e.name = "error" /\ e.what = "fatal"
              \/ o.seen.terminal /\ e.name # "error"
    BY ReadFields
  <2>5. Put(o, e).seen.pending =
              (IF e.name = "tool_call" THEN o.seen.pending \cup {e.id}
               ELSE IF e.name = "tool_result" THEN o.seen.pending \ {e.id} ELSE o.seen.pending)
    BY <1>2, PutFields
  <2>6. Put(o, e).seen.faults = {} BY <2>1, <2>2
  <2>7. e.name \notin {"error", "cancellation"} => ~Put(o, e).seen.terminal BY <2>3, <2>4
  <2> QED BY <2>5, <2>6, <2>7
<1> QED BY <1>1, <1>2

LEMMA PutCall ==
  ASSUME NEW o, NEW c, o.seen.faults = {}, ~o.seen.terminal, open => CallId(c) \notin o.seen.pending
  PROVE  /\ Put(o, ToolCall(c)).seen.faults = {} /\ ~Put(o, ToolCall(c)).seen.terminal
         /\ open => Put(o, ToolCall(c)).seen.pending = o.seen.pending \cup {CallId(c)}
<1> DEFINE e == ToolCall(c)
<1>1. e.name = "tool_call" /\ e.id = CallId(c) BY CallIds
<1> HIDE DEF e
<1>2. open => Fits(o.seen, e) BY <1>1 DEF Fits
<1>3. /\ Put(o, e).seen.faults = {}
      /\ e.name \notin {"error", "cancellation"} => ~Put(o, e).seen.terminal
      /\ open => Put(o, e).seen.pending =
           (IF e.name = "tool_call" THEN o.seen.pending \cup {e.id}
            ELSE IF e.name = "tool_result" THEN o.seen.pending \ {e.id} ELSE o.seen.pending)
  BY <1>2, PutFitting
<1>4. /\ Put(o, e).seen.faults = {} /\ ~Put(o, e).seen.terminal
      /\ open => Put(o, e).seen.pending = o.seen.pending \cup {CallId(c)}
  BY <1>1, <1>3
<1> QED BY <1>4 DEF e

LEMMA PutResult ==
  ASSUME NEW o, NEW c, o.seen.faults = {}, ~o.seen.terminal, open => CallId(c) \in o.seen.pending
  PROVE  /\ Put(o, ToolResult(c)).seen.faults = {} /\ ~Put(o, ToolResult(c)).seen.terminal
         /\ open => Put(o, ToolResult(c)).seen.pending = o.seen.pending \ {CallId(c)}
<1> DEFINE e == ToolResult(c)
<1>1. e.name = "tool_result" /\ e.id = CallId(c) BY CallIds
<1> HIDE DEF e
<1>2. open => Fits(o.seen, e) BY <1>1 DEF Fits
<1>3. /\ Put(o, e).seen.faults = {}
      /\ e.name \notin {"error", "cancellation"} => ~Put(o, e).seen.terminal
      /\ open => Put(o, e).seen.pending =
           (IF e.name = "tool_call" THEN o.seen.pending \cup {e.id}
            ELSE IF e.name = "tool_result" THEN o.seen.pending \ {e.id} ELSE o.seen.pending)
  BY <1>2, PutFitting
<1>4. /\ Put(o, e).seen.faults = {} /\ ~Put(o, e).seen.terminal
      /\ open => Put(o, e).seen.pending = o.seen.pending \ {CallId(c)}
  BY <1>1, <1>3
<1> QED BY <1>4 DEF e

(* Events that are not about calls. *)
LEMMA PutAside ==
  ASSUME NEW o, NEW e \in {Message, Delta("assistant"), Usage("assistant"), Cancellation, Fatal},
         o.seen.faults = {}, ~o.seen.terminal
  PROVE  /\ Put(o, e).seen.faults = {} /\ (open => Put(o, e).seen.pending = o.seen.pending)
         /\ e \notin {Cancellation, Fatal} => ~Put(o, e).seen.terminal
<1>1. e.name \in {"message", "delta", "usage", "cancellation", "error"}
  BY DEF Message, Delta, Usage, Cancellation, Fatal, Event
<1>2. e \notin {Cancellation, Fatal} => e.name \notin {"error", "cancellation"}
  BY DEF Message, Delta, Usage, Cancellation, Fatal, Event
<1>3. Fits(o.seen, e) BY <1>1 DEF Fits
<1> QED BY <1>1, <1>2, <1>3, PutFitting

LEMMA ToolsFields ==
  ASSUME Typed
  PROVE  /\ tools = [inputs |-> tools.inputs, emitted |-> tools.emitted, resolved |-> tools.resolved]
         /\ tools.inputs \subseteq StreamCalls /\ tools.emitted \subseteq StreamCalls
BY DEF Typed, ToolsType

Streamed(t) ==
  /\ t.emitted \subseteq t.inputs \cup Unannounced /\ t.resolved \subseteq t.emitted
Open(t) == {CallId(c) : c \in t.emitted \ t.resolved}

LEMMA OpenIds == \A t, c : CallId(c) \in Open(t) <=> c \in t.emitted \ t.resolved
BY CallIds DEF Open

LEMMA StreamPart ==
  ASSUME BaseInv, StreamCited, at = "vercelStream", NEW c \in StreamCalls,
         InputPart(c) \/ CallPart(c) \/ ResultPart(c), backend' = backend
  PROVE  StreamCited'
<1>0. Typed BY DEF BaseInv
<1>1. backend = "vercel" BY Where DEF VercelPlaces
<1>2. /\ out.seen.faults = {} /\ ~out.seen.terminal /\ Streamed(tools)
      /\ open => out.seen.pending = Open(tools)
  BY <1>1 DEF StreamCited, Streamed, Open
<1>3. at' = "vercelStream" /\ open' = open
  BY DEF InputPart, CallPart, ResultPart, Keep
<1> SUFFICES /\ out'.seen.faults = {} /\ ~out'.seen.terminal /\ Streamed(tools')
             /\ open => out'.seen.pending = Open(tools')
  BY <1>3 DEF StreamCited, Streamed, Open
<1>4. CASE InputPart(c)
  <2>1. tools' = [inputs |-> tools.inputs \cup {c}, emitted |-> tools.emitted, resolved |-> tools.resolved]
    BY <1>0, <1>4, ToolsFields DEF InputPart
  <2>2. Open(tools') = Open(tools) /\ out' = out BY <1>4, <2>1 DEF Open, InputPart
  <2> QED BY <1>2, <2>1, <2>2 DEF Streamed
<1>5. CASE CallPart(c)
  <2>1. tools' = [inputs |-> tools.inputs, emitted |-> tools.emitted \cup {c}, resolved |-> tools.resolved]
    BY <1>0, <1>5, ToolsFields DEF CallPart
  <2>2. c \in tools.inputs \cup Unannounced /\ c \notin tools.emitted /\ out' = Put(out, ToolCall(c))
    BY <1>5 DEF CallPart
  <2>3. open => CallId(c) \notin out.seen.pending BY <1>2, <2>2, OpenIds
  <2>4. /\ out'.seen.faults = {} /\ ~out'.seen.terminal
        /\ open => out'.seen.pending = out.seen.pending \cup {CallId(c)}
    BY <1>2, <2>2, <2>3, PutCall
  <2>5. Streamed(tools') BY <1>2, <2>1, <2>2 DEF Streamed
  <2>6. tools'.emitted \ tools'.resolved = (tools.emitted \ tools.resolved) \cup {c}
    BY <1>2, <2>1, <2>2 DEF Streamed
  <2>7. Open(tools') = Open(tools) \cup {CallId(c)} BY <2>6 DEF Open
  <2> QED BY <1>2, <2>4, <2>5, <2>7
<1>6. CASE ResultPart(c)
  <2>1. tools' = [inputs |-> tools.inputs, emitted |-> tools.emitted, resolved |-> tools.resolved \cup {c}]
    BY <1>0, <1>6, ToolsFields DEF ResultPart
  <2>2. c \in tools.emitted \ tools.resolved /\ out' = Put(out, ToolResult(c))
    BY <1>6 DEF ResultPart
  <2>3. open => CallId(c) \in out.seen.pending BY <1>2, <2>2, OpenIds
  <2>4. /\ out'.seen.faults = {} /\ ~out'.seen.terminal
        /\ open => out'.seen.pending = out.seen.pending \ {CallId(c)}
    BY <1>2, <2>2, <2>3, PutResult
  <2>5. Streamed(tools') BY <1>2, <2>1, <2>2 DEF Streamed
  <2>6. tools'.emitted \ tools'.resolved = (tools.emitted \ tools.resolved) \ {c} BY <2>1
  <2>7. Open(tools') = Open(tools) \ {CallId(c)} BY <2>6, CallIds DEF Open
  <2> QED BY <1>2, <2>4, <2>5, <2>7
<1> QED BY <1>4, <1>5, <1>6

LEMMA StreamFlush ==
  ASSUME BaseInv, StreamCited, NEW c \in StreamCalls, FlushInput(c), backend' = backend
  PROVE  StreamCited'
<1>0. Typed /\ at \in {"vercelFails", "vercelAborts"} BY DEF BaseInv, FlushInput, Flushing
<1>1. backend = "vercel" BY <1>0, Where DEF VercelPlaces
<1>2. /\ out.seen.faults = {} /\ ~out.seen.terminal /\ Streamed(tools)
      /\ open => out.seen.pending = Open(tools)
  BY <1>0, <1>1 DEF StreamCited, Streamed, Open
<1>3. at' = at /\ open' = open BY DEF FlushInput, Keep
<1> SUFFICES /\ out'.seen.faults = {} /\ ~out'.seen.terminal /\ Streamed(tools')
             /\ open => out'.seen.pending = Open(tools')
  BY <1>0, <1>3 DEF StreamCited, Streamed, Open
<1>4. tools' = [inputs |-> tools.inputs, emitted |-> tools.emitted \cup {c},
                resolved |-> tools.resolved \cup {c}]
  BY <1>0, ToolsFields DEF FlushInput
<1>5. c \in tools.inputs /\ c \notin tools.resolved BY DEF FlushInput, Unanswered
<1> DEFINE o == IF c \in tools.emitted THEN out ELSE Put(out, ToolCall(c))
<1>6. out' = Put(o, ToolResult(c)) BY DEF FlushInput, Failing
<1>7. /\ o.seen.faults = {} /\ ~o.seen.terminal
      /\ open => o.seen.pending = Open(tools) \cup {CallId(c)}
  <2>1. CASE c \in tools.emitted
    <3>1. CallId(c) \in Open(tools) BY <1>5, <2>1, OpenIds
    <3> QED BY <1>2, <2>1, <3>1
  <2>2. CASE c \notin tools.emitted
    <3>1. open => CallId(c) \notin out.seen.pending BY <1>2, <2>2, OpenIds
    <3>2. /\ Put(out, ToolCall(c)).seen.faults = {} /\ ~Put(out, ToolCall(c)).seen.terminal
          /\ open => Put(out, ToolCall(c)).seen.pending = out.seen.pending \cup {CallId(c)}
      BY <1>2, <3>1, PutCall
    <3> QED BY <1>2, <2>2, <3>2
  <2> QED BY <2>1, <2>2
<1> HIDE DEF o
<1>8. open => CallId(c) \in o.seen.pending BY <1>7
<1>9. /\ out'.seen.faults = {} /\ ~out'.seen.terminal
      /\ open => out'.seen.pending = o.seen.pending \ {CallId(c)}
  BY <1>6, <1>7, <1>8, PutResult
<1>10. Streamed(tools') BY <1>2, <1>4, <1>5 DEF Streamed
<1>11. tools'.emitted \ tools'.resolved = (tools.emitted \ tools.resolved) \ {c} BY <1>4
<1>12. Open(tools') = Open(tools) \ {CallId(c)} BY <1>11, CallIds DEF Open
<1> QED BY <1>7, <1>9, <1>10, <1>12

LEMMA StepStream == BaseInv /\ StreamCited /\ [Next]_vars => StreamCited'
<1> SUFFICES ASSUME BaseInv, StreamCited, [Next]_vars, backend = "vercel" PROVE StreamCited'
  BY SameBackend DEF StreamCited
<1>0. backend' = "vercel" /\ Typed BY SameBackend DEF BaseInv
<1>1. at \in VercelPlaces \cup {"returned", "thrown", "done"} /\ queue = <<>>
  BY DEF BaseInv, AtPlace, VercelPlaces, WithSession
<1>2. /\ out.seen.faults = {} /\ Streamed(tools) /\ (out.seen.terminal => at \in {"returned", "done"})
      /\ open => out.seen.pending = Open(tools)
      /\ at \in {"vercelOpen", "thrown"} => tools = NoTools
      /\ at \in {"returned", "done"} => tools.emitted \ tools.resolved \subseteq Unannounced
  BY DEF StreamCited, Streamed, Open
<1>3. CASE VercelStep
  <2>1. ASSUME NEW c \in StreamCalls, InputPart(c) \/ CallPart(c) \/ ResultPart(c) PROVE StreamCited'
    BY <1>0, <2>1, StreamPart DEF InputPart, CallPart, ResultPart
  <2>2. ASSUME NEW c \in StreamCalls, FlushInput(c) PROVE StreamCited'
    BY <1>0, <2>2, StreamFlush
  <2>3. CASE VercelOpen \/ TextPart \/ FinishPart \/ StreamFails \/ StreamEnds
    <3>1. tools' = tools /\ open' = open /\ ~out.seen.terminal
      BY <1>2, <2>3 DEF VercelOpen, TextPart, FinishPart, StreamFails, StreamEnds, vercelVars, Keep, Flushing
    <3>2. \/ out' = out /\ at' # "returned"
          \/ \E e \in {Message, Delta("assistant"), Usage("assistant")} : out' = Put(out, e)
          \/ at' = "returned" /\ \E e \in {Cancellation, Fatal} : out' = Put(out, e)
      BY <2>3 DEF VercelOpen, TextPart, FinishPart, StreamFails, StreamEnds
    <3>3. \A e \in {Message, Delta("assistant"), Usage("assistant")} : e \notin {Cancellation, Fatal}
      BY DEF Message, Delta, Usage, Cancellation, Fatal, Event
    <3>4. /\ out'.seen.faults = {} /\ (open => out'.seen.pending = out.seen.pending)
          /\ out'.seen.terminal => at' = "returned"
      BY <1>2, <3>1, <3>2, <3>3, PutAside
    <3>5. at' \in {"vercelOpen", "thrown"} => FALSE
      BY <2>3 DEF VercelOpen, TextPart, FinishPart, StreamFails, StreamEnds
    <3>6. at' \in {"returned", "done"} => tools.emitted \ tools.resolved \subseteq Unannounced
      BY <1>2, <2>3
        DEF VercelOpen, TextPart, FinishPart, StreamFails, StreamEnds, Unanswered, Streamed
    <3> QED BY <1>2, <3>1, <3>4, <3>5, <3>6 DEF StreamCited, Streamed, Open
  <2> QED BY <1>3, <2>1, <2>2, <2>3 DEF VercelStep, VercelNext
<1>4. CASE PiStep
  BY <1>1, <1>4 DEF PiStep, PiNext, PiCreate, PiCreateThrows, PiCompacts, PiCallback, PiContinue,
    PiPrompted, PiFlushed, VercelPlaces
<1>5. CASE SupervisedStep \/ SupervisorStep
  <2>1. ~Judging BY <1>1 DEF BaseInv, AtPlace, VercelPlaces
  <2> QED
    BY <1>1, <1>5, <2>1 DEF SupervisedStep, SupervisedNext, SupervisorStep, Supervisor, SupervisedOpen,
      StudentCreate, CreateThrows, StudentDelta, StudentCallback, CheckAborted, StudentSettles,
      StudentEnds, Flushed, AskOnceMore, FinalAborted, TeacherCreate, TeacherCallback, TeacherSettles,
      TeacherFlushed, CheckResolves, FinalResolves, VercelPlaces
<1>6. CASE ChainStep BY <1>1, <1>6 DEF ChainStep, Drain
<1>7. CASE Refuse
  <2>1. at = "vercelOpen" /\ at' = "thrown" /\ UNCHANGED <<tools, out, open>>
    BY <1>7 DEF Refuse, Starts, streamVars, vercelVars
  <2> QED BY <1>2, <2>1 DEF StreamCited, Streamed, Open
<1>8. CASE Finish
  <2>1. /\ at \in {"returned", "thrown"} /\ at' = "done" /\ UNCHANGED <<tools, open>>
        /\ out' = IF at = "thrown" THEN Put(out, Fatal) ELSE out
    BY <1>8 DEF Finish, vercelVars
  <2>2. CASE at = "returned" BY <1>2, <2>1, <2>2 DEF StreamCited, Streamed, Open
  <2>3. CASE at = "thrown"
    <3>1. out'.seen.faults = {} /\ (open => out'.seen.pending = out.seen.pending)
      BY <1>2, <2>1, <2>3, PutAside
    <3>2. tools.emitted = {} BY <1>2, <2>3 DEF NoTools
    <3> QED BY <1>2, <2>1, <3>1, <3>2 DEF StreamCited, Streamed, Open
  <2> QED BY <2>1, <2>2, <2>3
<1>9. CASE Cancel \/ Disconnect \/ UNCHANGED vars
  <2>1. UNCHANGED <<at, tools, out>> /\ (open' => open)
    BY <1>9 DEF Cancel, Disconnect, Abort, vars, vercelVars, streamVars
  <2> QED BY <1>2, <2>1 DEF StreamCited, Streamed, Open
<1> QED BY <1>3, <1>4, <1>5, <1>6, <1>7, <1>8, <1>9 DEF Next

LEMMA InitStream == Init => StreamCited
<1> SUFFICES ASSUME Init, backend = "vercel" PROVE StreamCited BY DEF StreamCited
<1>1. /\ at = "vercelOpen" /\ tools = NoTools
      /\ out.seen.faults = {} /\ out.seen.pending = {} /\ ~out.seen.terminal
  BY DEF Init, SessionInit, VercelInit, NothingOut, NewReader, Starts
<1>2. NoTools.emitted = {} /\ NoTools.resolved = {} BY DEF NoTools
<1> QED BY <1>1, <1>2 DEF StreamCited

TraceInv == MarkerCited /\ CallsInv /\ StreamCited

(* Every trace that a runtime writes cites what it should: validateRuntimeTrace   *)
(* finds at worst an event after a terminal one, and in a Vercel trace nothing.  *)
THEOREM TracesCited == Spec => []TracesAccepted
<1>1. Init => TraceInv BY InitCited, InitCalls, InitStream DEF TraceInv, CallsInv
<1>2. BaseInv /\ TraceInv /\ [Next]_vars => TraceInv'
  BY StepCited, StepCalls, StepStream DEF TraceInv, CallsInv
<1>3. TraceInv => TracesAccepted
  <2> SUFFICES ASSUME TraceInv PROVE TracesAccepted OBVIOUS
  <2>1. PiTraceCited BY DEF TraceInv, CallsInv, FaultsKnown, NotVercel, PiTraceCited
  <2>2. VercelTraceValid
    <3> SUFFICES ASSUME backend = "vercel"
                 PROVE  /\ out.seen.faults = {}
                        /\ at = "done" /\ open =>
                             out.seen.pending \subseteq {CallId(c) : c \in Unannounced}
      BY DEF VercelTraceValid
    <3>1. /\ out.seen.faults = {}
          /\ open => out.seen.pending = {CallId(c) : c \in tools.emitted \ tools.resolved}
          /\ at = "done" => tools.emitted \ tools.resolved \subseteq Unannounced
      BY DEF TraceInv, StreamCited
    <3> QED BY <3>1
  <2> QED BY <2>1, <2>2 DEF TracesAccepted
<1> QED BY <1>1, <1>2, <1>3, BaseHolds, PTL DEF Spec

-----------------------------------------------------------------------------
(* Every variable keeps its type, and the budgets hold: no more nudges reach a    *)
(* client than the request allows, no more continuations are asked for.       *)
THEOREM TypeCorrect == Spec => []TypeOK
<1> DEFINE Inv == BaseInv /\ TraceInv /\ NudgesInv /\ AnswerInv
<1>1. Init => Inv
  BY InitBase, InitCited, InitCalls, InitStream, InitNudges, InitAnswer DEF TraceInv, CallsInv
<1>2. Inv /\ [Next]_vars => Inv'
  BY StepBase, StepCited, StepCalls, StepStream, StepNudges, StepAnswer DEF TraceInv, CallsInv
<1>3. Inv => TypeOK
  <2> SUFFICES ASSUME Inv PROVE TypeOK OBVIOUS
  <2>1. Typed /\ AtPlace BY DEF BaseInv
  <2>2. out.seen.faults \subseteq Faults
    <3>1. out.seen.faults \subseteq {"follows_terminal"}
      BY DEF TraceInv, CallsInv, FaultsKnown, StreamCited, NotVercel
    <3> QED BY <3>1 DEF Faults
  <2>3. out.student \in Nat BY DEF AnswerInv
  <2>4. out.nudges \in 0..MaxNudges BY SupervisedAssumption DEF NudgesInv
  <2>5. /\ session.phase \in {"none", "streaming", "tools", "ended", "resolved", "rejected"}
        /\ session.running \subseteq session.used /\ session.used \subseteq SessionCalls
    BY <2>1 DEF Typed, AtPlace, SessionType
  <2>6. run.nudges \in 0..MaxNudges /\ run.markers \in Nat /\ run.boundaries \in Nat
    BY <2>1, RunFields
  <2>7. segment.checked \in 0..segment.partial BY <2>1, SegmentFields DEF AtPlace
  <2>8. segment.judging \in {NoCheck} \cup 0..(run.boundaries - 1)
    BY <2>1, <2>6, SegmentFields DEF AtPlace, Judging
  <2>9. segment.decision \in Verdicts \cup {"none"} BY <2>1, SegmentFields
  <2>10. tools.resolved \subseteq tools.emitted \cup tools.inputs BY <2>1 DEF AtPlace
  <2> QED BY <2>1, <2>2, <2>3, <2>4, <2>5, <2>6, <2>7, <2>8, <2>9, <2>10 DEF TypeOK, Typed
<1> QED BY <1>1, <1>2, <1>3, PTL DEF Spec

-----------------------------------------------------------------------------
(* How a run ended is told. *)

LEMMA ToldEvents ==
  /\ \A o : SameTold(o, o)
  /\ \A o : \A e \in {Message, Cancellation, Fatal} : SameTold(o, Put(o, e))
  /\ \A o : \A e \in {Cancellation, Fatal} : open => Put(o, e).seen.terminal \/ Put(o, e).excused
  /\ \A o, p, q : SameTold(o, p) /\ SameTold(p, q) => SameTold(o, q)
<1>1. \A e \in {Message, Cancellation, Fatal} : e # Recoverable /\ (e.name = "error" => e = Fatal)
  BY DEF Message, Cancellation, Fatal, Recoverable, Event
<1>2. ASSUME NEW o, NEW e \in {Message, Cancellation, Fatal} PROVE SameTold(o, Put(o, e))
  BY <1>1, PutTold DEF SameTold
<1>3. ASSUME NEW o, NEW e \in {Cancellation, Fatal}
      PROVE  open => Put(o, e).seen.terminal \/ Put(o, e).excused
  BY <1>1, PutTold DEF Ending
<1> QED BY <1>2, <1>3, SameRefl DEF SameTold

(* A step other than one of the chain forgets nothing that was said. *)
SaidKept ==
  said' => \/ said /\ \A i \in Slots : i \in Slots' /\ queue'[i] = queue[i]
           \/ \E i \in Slots' : Ending(queue'[i])
ExcuseFree ==
  backend = "supervised" =>
    \A i \in Slots' : (i \in Slots /\ queue'[i] = queue[i]) \/ queue'[i] # Recoverable
SaidMoved == (open' => open) /\ SameTold(out, out') /\ SaidKept /\ ExcuseFree

LEMMA SaidByCallback ==
  ASSUME BaseInv, NEW role \in Roles, NEW planned \in BOOLEAN, Callback(role, planned) \/ OnDelta(role)
  PROVE  SaidKept /\ ExcuseFree
<1>0. Typed BY DEF BaseInv
<1>1. ASSUME NEW e \in Chained, queue' = Append(queue, e), said' = said, e # Recoverable
      PROVE  SaidKept /\ ExcuseFree
  BY <1>0, <1>1, AppendedSlots DEF SaidKept, ExcuseFree
<1>2. \A r, c : Delta(r) # Recoverable /\ ToolCall(c) # Recoverable /\ ToolResult(c) # Recoverable
  BY DEF Delta, ToolCall, ToolResult, Recoverable, Event
<1>3. CASE OnDelta(role)
  <2>1. Delta(role) \in Chained BY ChainedEvents
  <2>2. queue' = Append(queue, Delta(role)) /\ said' = said BY <1>0, <1>3, DeltaEffect
  <2> QED BY <1>1, <1>2, <2>1, <2>2
<1>4. ASSUME NEW c \in SessionCalls, CalledTool(c) \/ EndedTool(c) PROVE SaidKept /\ ExcuseFree
  <2>1. ToolCall(c) \in Chained /\ ToolResult(c) \in Chained BY ChainedEvents
  <2>2. said' = said /\ (queue' = Append(queue, ToolCall(c)) \/ queue' = Append(queue, ToolResult(c)))
    BY <1>4 DEF CalledTool, EndedTool
  <2> QED BY <1>1, <1>2, <2>1, <2>2
<1>5. CASE Reported(role)
  <2>1. PICK new \in Seq(Chained) :
          /\ Longer(new) /\ \A i \in 1..Len(new) : new[i] \in Reports(role)
          /\ said' => said \/ \E i \in 1..Len(new) : Ending(new[i])
    BY <1>5 DEF Reported
  <2>2. /\ Len(queue') = Len(queue) + Len(new) /\ Len(queue) \in Nat /\ Len(new) \in Nat
        /\ \A i \in 1..Len(queue) : queue'[i] = queue[i]
        /\ \A i \in 1..Len(new) : queue'[Len(queue) + i] = new[i]
    BY <1>0, <2>1, Lengthened, LenProperties DEF Typed
  <2>3. \A i \in Slots : i \in Slots' /\ queue'[i] = queue[i] BY <2>2 DEF Slots
  <2>4. \A i \in 1..Len(new) : Len(queue) + i \in Slots' /\ queue'[Len(queue) + i] = new[i]
    BY <2>2 DEF Slots
  <2>5. SaidKept BY <2>1, <2>3, <2>4 DEF SaidKept
  <2>6. ASSUME NEW i \in Slots' PROVE i \in Slots \/ queue'[i] # Recoverable
    <3>1. i \in Slots \/ i - Len(queue) \in 1..Len(new) BY <2>2 DEF Slots
    <3>2. ASSUME i - Len(queue) \in 1..Len(new) PROVE queue'[i] # Recoverable
      <4>1. Len(queue) + (i - Len(queue)) = i BY <2>2 DEF Slots
      <4>2. queue'[i] = new[i - Len(queue)] BY <2>2, <3>2, <4>1
      <4>3. queue'[i] \in Reports(role) BY <2>1, <3>2, <4>2
      <4>4. Recoverable \notin Reports(role)
        BY DEF Reports, Usage, Cancellation, Fatal, Compaction, Recoverable, Event
      <4> QED BY <4>3, <4>4
    <3> QED BY <3>1, <3>2
  <2>7. ExcuseFree BY <2>3, <2>6 DEF ExcuseFree
  <2> QED BY <2>5, <2>7
<1>6. Callback(role, planned) =>
        Reported(role) \/ \E c \in SessionCalls : CalledTool(c) \/ EndedTool(c)
  BY CallbackEffect
<1> QED BY <1>3, <1>4, <1>5, <1>6

LEMMA SaidQuietly ==
  ASSUME queue' = queue, said' => said
  PROVE  SaidKept /\ ExcuseFree
BY DEF SaidKept, ExcuseFree, Slots

LEMMA PiSaid == BaseInv /\ PiStep => SaidMoved
<1> SUFFICES ASSUME BaseInv, PiStep PROVE SaidMoved OBVIOUS
<1>0. Typed /\ backend = "pi"
  <2>1. at \in PiPlaces
    BY DEF PiStep, PiNext, PiCreate, PiCreateThrows, PiCompacts, PiCallback, PiContinue,
      PiPrompted, PiFlushed, PiPlaces
  <2> QED BY <2>1, Where DEF BaseInv
<1>1. open' = open
  BY DEF PiStep, PiNext, PiCreate, PiCreateThrows, PiCompacts, PiCallback, PiContinue,
    PiPrompted, PiFlushed, streamVars, PiFails
<1>2. SameTold(out, out')
  <2>1. out' = out \/ \E e \in {Message, Cancellation, Fatal} : out' = Put(out, e)
    BY DEF PiStep, PiNext, PiCreate, PiCreateThrows, PiCompacts, PiCallback, PiContinue,
      PiPrompted, PiFlushed, streamVars, PiFails
  <2> QED BY <2>1, ToldEvents
<1>3. SaidKept
  <2>1. CASE PiCreate BY <2>1 DEF PiCreate, OpenSession, SaidKept
  <2>2. CASE PiCallback BY <2>2, SaidByCallback DEF PiCallback, Roles
  <2>3. CASE PiCreateThrows \/ PiContinue \/ PiFlushed
    BY <2>3, SaidQuietly DEF PiCreateThrows, PiContinue, PiFlushed, adapterVars
  <2>4. CASE PiCompacts \/ PiPrompted
    <3>1. \/ queue' = queue /\ said' = said
          \/ queue' = Append(queue, Compaction) /\ said' = said
          \/ queue' = Append(queue, Recoverable)
      BY <2>4 DEF PiCompacts, PiPrompted
    <3>2. CASE queue' = queue /\ said' = said BY <3>2, SaidQuietly
    <3>3. CASE queue' = Append(queue, Compaction) /\ said' = said
      BY <1>0, <3>3, ChainedEvents, AppendedSlots DEF SaidKept
    <3>4. CASE queue' = Append(queue, Recoverable)
      <4>1. Len(queue) + 1 \in Slots' /\ queue'[Len(queue) + 1] = Recoverable
        BY <1>0, <3>4, ChainedEvents, AppendedSlots
      <4>2. Ending(Recoverable) BY DEF Ending
      <4> QED BY <4>1, <4>2 DEF SaidKept
    <3> QED BY <3>1, <3>2, <3>3, <3>4
  <2> QED BY <2>1, <2>2, <2>3, <2>4 DEF PiStep, PiNext
<1> QED BY <1>0, <1>1, <1>2, <1>3 DEF SaidMoved, ExcuseFree

LEMMA CommonSaid == BaseInv /\ CommonAside => SaidMoved
<1> SUFFICES ASSUME BaseInv, CommonAside PROVE SaidMoved OBVIOUS
<1>1. /\ UNCHANGED <<queue, said>>
      /\ open' => open
      /\ out' = out \/ out' = Put(out, Fatal)
  BY DEF CommonAside, Refuse, Finish, Cancel, Disconnect, Abort, vars, streamVars, adapterVars
<1> QED BY <1>1, ToldEvents, SaidQuietly DEF SaidMoved

LEMMA SupervisedSaid == BaseInv /\ (SupervisedStep \/ SupervisorStep) => SaidMoved
<1> SUFFICES ASSUME BaseInv, SupervisedStep \/ SupervisorStep PROVE SaidMoved OBVIOUS
<1>0. AdapterOK /\ Typed /\ AtPlace BY SameBase
<1>1. CASE StudentEnds
  <2>1. queue' = queue /\ open' = open /\ said' = said BY <1>1, EndChange
  <2>2. PICK o \in {out, Put(out, Cancellation), Put(out, Fatal)} : EndOf(o) BY <1>1, EndChange
  <2>3. out' = o \/ out' = HandOver(o, segment.marker) BY <2>2 DEF EndOf, Ended
  <2>4. SameTold(out, o) BY ToldEvents
  <2>5. SameTold(o, HandOver(o, segment.marker)) BY PutHandOver
  <2>6. SameTold(out, out') BY <2>3, <2>4, <2>5, ToldEvents
  <2> QED BY <2>1, <2>6, SaidQuietly DEF SaidMoved
<1>2. CASE FinalResolves
  <2>1. queue' = queue /\ open' = open /\ said' = said BY <1>2, FinalChange
  <2>2. PICK v \in Verdicts : \E m, r : FinalEnd(v, m, r) BY <1>2, FinalChange
  <2>3. PICK m, r : FinalEnd(v, m, r) BY <2>2
  <2> DEFINE p == Put(out, Verdict(v, m))
             o == Put(p, Usage("supervisor"))
  <2>4. SameTold(out, p) BY PutVerdict
  <2> HIDE DEF p
  <2>5. SameTold(p, o)
    <3>1. Usage("supervisor").name # "error" /\ Usage("supervisor") # Recoverable
      BY DEF Usage, Recoverable, Event
    <3> QED BY <3>1, PutTold DEF SameTold
  <2>6. out' = o \/ out' = HandOver(o, m) BY <2>3 DEF FinalEnd, Ended, p
  <2> HIDE DEF o
  <2>7. SameTold(o, HandOver(o, m)) BY PutHandOver
  <2>8. SameTold(out, o) BY <2>4, <2>5, ToldEvents
  <2>9. SameTold(out, out') BY <2>6, <2>7, <2>8, ToldEvents
  <2> QED BY <2>1, <2>9, SaidQuietly DEF SaidMoved
<1>3. CASE CheckResolves
  <2>1. PICK v \in Verdicts, m \in MarkerIds : Judged(v, m) BY <1>3, CheckChange
  <2>2. UNCHANGED <<out, open, said>> BY <1>3, CheckChange
  <2>3. /\ \A i \in Slots : i \in Slots' /\ queue'[i] = queue[i]
        /\ queue'[Len(queue) + 1] = Verdict(v, m) /\ queue'[Len(queue) + 2] = Usage("supervisor")
        /\ \A i \in Slots' : i \in Slots \/ i = Len(queue) + 1 \/ i = Len(queue) + 2
    BY <1>0, <2>1, JudgedQueue
  <2>4. Verdict(v, m) # Recoverable /\ Usage("supervisor") # Recoverable
    BY DEF Verdict, Usage, Recoverable, Event
  <2> QED BY <2>2, <2>3, <2>4, ToldEvents DEF SaidMoved, SaidKept, ExcuseFree
<1>4. CASE StudentCallback \/ TeacherCallback \/ StudentDelta
  <2>1. UNCHANGED <<open, out>> BY <1>4 DEF StudentCallback, TeacherCallback, StudentDelta, streamVars
  <2>2. \E role \in Roles, planned \in BOOLEAN : Callback(role, planned) \/ OnDelta(role)
    BY <1>0, <1>4, SegmentFields DEF StudentCallback, TeacherCallback, StudentDelta, Roles
  <2> QED BY <2>1, <2>2, SaidByCallback, ToldEvents DEF SaidMoved
<1>5. CASE StudentCreate \/ TeacherCreate
  <2>1. UNCHANGED <<open, out>> /\ queue' = <<>> /\ ~said'
    BY <1>5 DEF StudentCreate, TeacherCreate, OpenSession, streamVars
  <2>2. Slots' = {} BY <2>1 DEF Slots
  <2> QED BY <2>1, <2>2, ToldEvents DEF SaidMoved, SaidKept, ExcuseFree
<1>6. CASE \/ FinalAborted \/ TeacherFlushed \/ SupervisedOpen \/ CreateThrows \/ CheckAborted
           \/ StudentSettles \/ AskOnceMore \/ TeacherSettles
  <2>1. UNCHANGED <<queue, said, open>>
    BY <1>6 DEF SupervisedOpen, CreateThrows, CheckAborted, StudentSettles, AskOnceMore, TeacherSettles,
      FinalAborted, TeacherFlushed, adapterVars, streamVars
  <2>2. out' = out \/ \E e \in {Message, Cancellation, Fatal} : out' = Put(out, e)
    BY <1>6 DEF SupervisedOpen, CreateThrows, CheckAborted, StudentSettles, AskOnceMore, TeacherSettles,
      FinalAborted, TeacherFlushed, streamVars
  <2> QED BY <2>1, <2>2, ToldEvents, SaidQuietly DEF SaidMoved
<1> QED BY <1>1, <1>2, <1>3, <1>4, <1>5, <1>6
        DEF SupervisedStep, SupervisedNext, SupervisorStep, Supervisor

(* What was said, and that a supervised run never reports a recoverable error. *)
LEMMA MovedSaid ==
  ASSUME BaseInv, SaidTold, NeverExcused, SaidMoved, backend' = backend
  PROVE  SaidTold' /\ NeverExcused'
<1>1. SaidTold'
  <2> SUFFICES ASSUME NotVercel, open, said', ~Told', SaidTold, SaidMoved
               PROVE  \E i \in Slots' : Ending(queue'[i])
    BY DEF SaidTold, SaidMoved, NotVercel
  <2>1. ~Told BY DEF SaidMoved, SameTold, Told
  <2>2. CASE said /\ \A i \in Slots : i \in Slots' /\ queue'[i] = queue[i]
    <3>1. \E i \in Slots : Ending(queue[i]) BY <2>1, <2>2 DEF SaidTold
    <3> QED BY <2>2, <3>1
  <2>3. CASE \E i \in Slots' : Ending(queue'[i]) BY <2>3
  <2> QED BY <2>2, <2>3 DEF SaidMoved, SaidKept
<1>2. NeverExcused' BY DEF NeverExcused, SaidMoved, SameTold, ExcuseFree
<1> QED BY <1>1, <1>2

LEMMA ChainSaid ==
  ASSUME BaseInv, SaidTold, NeverExcused, ChainStep
  PROVE  SaidTold' /\ NeverExcused' /\ (Told => Told')
<1>0. /\ queue[1] \in Chained /\ out' = Put(out, queue[1]) /\ 1 \in Slots
      /\ \A i \in Slots' : i + 1 \in Slots /\ queue'[i] = queue[i + 1]
      /\ \A i \in Slots : i = 1 \/ (i - 1 \in Slots' /\ queue'[i - 1] = queue[i])
      /\ UNCHANGED <<backend, open, said>>
  BY ChainChange
<1>1. queue[1].name = "error" => queue[1] = Fatal \/ queue[1] = Recoverable BY <1>0, ChainedEffect
<1>2. /\ Told => Told'
      /\ queue[1] # Recoverable => (out'.excused => out.excused)
      /\ open /\ Ending(queue[1]) => Told'
  <2> DEFINE e == queue[1]
  <2>1. e.name = "error" => e = Fatal \/ e = Recoverable BY <1>1
  <2>2. out' = Put(out, e) BY <1>0
  <2> HIDE DEF e
  <2>3. /\ out.seen.terminal \/ out.excused => Put(out, e).seen.terminal \/ Put(out, e).excused
        /\ e # Recoverable => (Put(out, e).excused => out.excused)
        /\ open /\ Ending(e) => Put(out, e).seen.terminal \/ Put(out, e).excused
    BY <2>1, PutTold
  <2>4. /\ Told => Told'
        /\ e # Recoverable => (out'.excused => out.excused)
        /\ open /\ Ending(e) => Told'
    BY <2>2, <2>3 DEF Told
  <2> QED BY <2>4 DEF e
<1>3. SaidTold'
  <2> SUFFICES ASSUME NotVercel, open, said, ~Told' PROVE \E i \in Slots' : Ending(queue'[i])
    BY <1>0 DEF SaidTold, NotVercel
  <2>1. PICK i \in Slots : Ending(queue[i]) BY <1>2 DEF SaidTold
  <2>2. i # 1 BY <1>2, <2>1
  <2> QED BY <1>0, <2>1, <2>2
<1>4. NeverExcused' BY <1>0, <1>2 DEF NeverExcused
<1> QED BY <1>2, <1>3, <1>4

(* A teacher takes over only after the client read of the interruption. *)
TeacherPlaces == {"teacherCreate", "teacher", "teacherFlush"}
LEMMA StepHandedOver ==
  ASSUME BaseInv, HandedOver, [Next]_vars
  PROVE  HandedOver'
<1>0. backend' = backend BY SameBackend
<1>1. CASE Indifferent
  <2>1. at' \in TeacherPlaces => at \in TeacherPlaces
    BY <1>1 DEF Indifferent, Moved, Moves, TeacherPlaces, SupervisedPlaces
  <2> QED BY <1>0, <1>1, <2>1 DEF HandedOver, Indifferent, SameVerdicts, TeacherPlaces
<1>2. CASE StudentCreate
  BY <1>2, CreateChange DEF HandedOver
<1>3. CASE StudentDelta BY <1>3, DeltaChange DEF HandedOver
<1>4. CASE CheckResolves BY <1>4, CheckChange DEF HandedOver
<1>5. CASE StudentEnds
  <2>1. open' = open BY <1>5, EndChange
  <2>2. PICK o : EndOf(o) BY <1>5, EndChange
  <2>3. at' = "returned" \/ at' = "studentCreate" \/ out' = HandOver(o, segment.marker)
    BY <2>2 DEF EndOf, Ended
  <2>4. open => HandOver(o, segment.marker).seen.interrupted = o.seen.interrupted \cup {segment.marker}
    BY PutHandOver
  <2> QED BY <2>1, <2>3, <2>4 DEF HandedOver
<1>6. CASE FinalResolves
  <2>1. open' = open BY <1>6, FinalChange
  <2>2. PICK v \in Verdicts : \E m, r : FinalEnd(v, m, r) BY <1>6, FinalChange
  <2>3. PICK m, r : FinalEnd(v, m, r) BY <2>2
  <2> DEFINE o == Put(Put(out, Verdict(v, m)), Usage("supervisor"))
  <2>4. at' = "returned" \/ at' = "studentCreate" \/ out' = HandOver(o, m)
    BY <2>3 DEF FinalEnd, Ended
  <2> HIDE DEF o
  <2>5. open => HandOver(o, m).seen.interrupted = o.seen.interrupted \cup {m} BY PutHandOver
  <2> QED BY <2>1, <2>4, <2>5 DEF HandedOver
<1>7. CASE ChainStep
  <2>1. /\ queue[1] \in Chained /\ out' = Put(out, queue[1])
        /\ UNCHANGED <<backend, open, at>>
    BY <1>7, ChainChange
  <2>2. out'.seen.interrupted = out.seen.interrupted
    <3>1. queue[1].name # "student_interruption"
      BY <2>1 DEF Chained, Verdict, Delta, Usage, ToolCall, ToolResult, Compaction, Cancellation,
        Fatal, Recoverable, Event
    <3>2. \A e : e.name # "student_interruption" => Put(out, e).seen.interrupted = out.seen.interrupted
      BY PutUninterrupted
    <3> QED BY <2>1, <3>1, <3>2
  <2> QED BY <2>1, <2>2 DEF HandedOver
<1> QED BY <1>1, <1>2, <1>3, <1>4, <1>5, <1>6, <1>7, StepKinds DEF Concerned

(* How a run comes to its end, or stays there. *)
LEMMA Arrives ==
  ASSUME BaseInv, [Next]_vars, at' \in {"returned", "done"}
  PROVE  \/ Finish
         \/ at \in {"returned", "done"} /\ UNCHANGED <<at, out, open, signal, stop, segment>>
         \/ backend = "pi" /\ PiFlushed
         \/ backend = "supervised" /\ (StudentEnds \/ FinalResolves \/ FinalAborted \/ TeacherFlushed)
         \/ backend = "vercel"
<1>0. AdapterOK /\ Typed /\ AtPlace BY SameBase
<1>1. CASE PiStep
  <2>1. PiFlushed
    BY <1>1 DEF PiStep, PiNext, PiCreate, PiCreateThrows, PiCompacts, PiCallback, PiContinue, PiPrompted,
      PiFails
  <2> QED BY <2>1, Where DEF PiFlushed, PiPlaces
<1>2. CASE SupervisedStep \/ SupervisorStep
  <2>1. StudentEnds \/ FinalResolves \/ FinalAborted \/ TeacherFlushed
    BY <1>0, <1>2 DEF SupervisedStep, SupervisedNext, SupervisorStep, Supervisor, SupervisedOpen,
      StudentCreate, CreateThrows, StudentDelta, StudentCallback, CheckAborted, StudentSettles,
      AskOnceMore, TeacherCreate, TeacherCallback, TeacherSettles, CheckResolves, AtPlace
  <2>2. at \in SupervisedPlaces
    BY <2>1 DEF StudentEnds, Flushed, FinalResolves, FinalAborted, TeacherFlushed, SupervisedPlaces
  <2> QED BY <2>1, <2>2, Where
<1>3. CASE VercelStep
  <2>1. at \in VercelPlaces
    BY <1>3 DEF VercelStep, VercelNext, VercelPlaces, VercelOpen, TextPart, FinishPart, StreamFails,
      StreamEnds, InputPart, CallPart, ResultPart, FlushInput, Flushing
  <2> QED BY <2>1, Where
<1>4. CASE ChainStep
  <2>1. queue # <<>> /\ at' = at BY <1>4 DEF ChainStep, Drain
  <2> QED BY <1>0, <2>1 DEF AtPlace, WithSession
<1>5. CASE Refuse \/ Cancel \/ Disconnect BY <1>5 DEF Refuse, Cancel, Disconnect, Ongoing
<1>6. CASE UNCHANGED vars BY <1>6 DEF vars, streamVars, adapterVars, supervisedVars
<1> QED BY <1>1, <1>2, <1>3, <1>4, <1>5, <1>6 DEF Next

LEMMA FinishTold ==
  ASSUME Finish
  PROVE  /\ open' = open /\ UNCHANGED <<signal, stop, segment>>
         /\ \/ at = "returned" /\ out' = out
            \/ at = "thrown" /\ (open => Told')
<1>1. open' = open /\ UNCHANGED <<signal, stop, segment>> BY DEF Finish, adapterVars, supervisedVars
<1>2. \/ at = "returned" /\ out' = out
      \/ at = "thrown" /\ out' = Put(out, Fatal)
  BY DEF Finish
<1>3. open => Put(out, Fatal).seen.terminal \/ Put(out, Fatal).excused BY ToldEvents
<1> QED BY <1>1, <1>2, <1>3 DEF Told

LEMMA StudentArrives ==
  ASSUME BaseInv, EndInv, NeverExcused', [Next]_vars
  PROVE  StudentTold'
<1>0. backend' = backend BY SameBackend
<1> SUFFICES ASSUME backend = "supervised", open', at' \in {"returned", "done"},
                    out'.seen.interrupted = {}, signal' \/ (segment'.failed /\ segment'.decision = "none")
             PROVE  Told'
  <2>1. ~out'.excused \/ backend # "supervised" BY <1>0 DEF NeverExcused
  <2> QED BY <1>0, <2>1 DEF StudentTold, Told
<1>1. CASE Finish
  <2>1. CASE at = "returned" /\ out' = out BY <1>1, <2>1, FinishTold DEF EndInv, StudentTold, Told
  <2> QED BY <1>1, <2>1, FinishTold
<1>2. CASE at \in {"returned", "done"} /\ UNCHANGED <<at, out, open, signal, stop, segment>>
  BY <1>2 DEF EndInv, StudentTold, Told
<1>3. CASE StudentEnds
  <2>1. queue = <<>> /\ UNCHANGED <<open, signal, segment>> BY <1>3, EndChange
  <2> DEFINE o == IF ~said /\ signal THEN Put(out, Cancellation)
                  ELSE IF ~said /\ segment.failed /\ segment.decision = "none" THEN Put(out, Fatal)
                  ELSE out
  <2>2. EndOf(o) BY <1>3, EndChange
  <2>3. out' = o BY <2>2 DEF EndOf, Ended
  <2>4. said => Told BY <2>1 DEF EndInv, SaidTold, NotVercel, Slots
  <2>5. \A e \in {Cancellation, Fatal} : Put(out, e).seen.terminal \/ Put(out, e).excused
    BY <2>1, ToldEvents
  <2>6. o.seen.terminal \/ o.excused BY <2>1, <2>4, <2>5 DEF Told
  <2> HIDE DEF o
  <2> QED BY <2>3, <2>6 DEF Told
<1>4. CASE FinalResolves BY <1>4, FinalChange
<1>5. CASE FinalAborted
  <2>1. open' = open /\ out' = Put(out, Cancellation) BY <1>5 DEF FinalAborted
  <2> QED BY <2>1, ToldEvents DEF Told
<1>6. CASE TeacherFlushed
  <2>1. out' = out /\ open' = open /\ at = "teacherFlush" BY <1>6 DEF TeacherFlushed, streamVars
  <2> QED BY <2>1 DEF EndInv, HandedOver
<1> QED BY <1>1, <1>2, <1>3, <1>4, <1>5, <1>6, Arrives

LEMMA CutArrives ==
  ASSUME BaseInv, EndInv, [Next]_vars
  PROVE  CutTold'
<1>0. backend' = backend BY SameBackend
<1> SUFFICES ASSUME backend = "pi", open', at' \in {"returned", "done"}, Truncated'
             PROVE  Told'
  BY <1>0 DEF CutTold
<1>1. CASE Finish
  <2>1. CASE at = "returned" /\ out' = out
    BY <1>1, <2>1, FinishTold DEF EndInv, CutTold, Told, Truncated
  <2> QED BY <1>1, <2>1, FinishTold
<1>2. CASE at \in {"returned", "done"} /\ UNCHANGED <<at, out, open, signal, stop, segment>>
  BY <1>2 DEF EndInv, CutTold, Told, Truncated
<1>3. CASE PiFlushed
  <2>1. at = "piFlush" /\ queue = <<>> /\ UNCHANGED <<open, out, stop>>
    BY <1>3 DEF PiFlushed, streamVars, adapterVars
  <2>2. said BY <2>1 DEF EndInv, CutSaid, Truncated
  <2>3. Told BY <2>1, <2>2 DEF EndInv, SaidTold, NotVercel, Slots
  <2> QED BY <2>1, <2>3 DEF Told
<1> QED BY <1>1, <1>2, <1>3, Arrives

LEMMA CutSays ==
  ASSUME BaseInv, EndInv, [Next]_vars
  PROVE  CutSaid'
<1>0. backend' = backend /\ AtPlace BY SameBackend DEF BaseInv
<1> SUFFICES ASSUME backend = "pi", at' = "piFlush", Truncated' PROVE said'
  BY <1>0 DEF CutSaid
<1>1. CASE PiStep
  <2>1. CASE PiPrompted BY <2>1 DEF PiPrompted, PiFails, Truncated
  <2>2. CASE PiCompacts BY <1>0, <2>2 DEF PiCompacts, PiFails, Truncated, AtPlace
  <2> QED BY <1>1, <2>1, <2>2 DEF PiStep, PiNext, PiCreate, PiCreateThrows, PiCallback, PiContinue, PiFlushed
<1>2. CASE at = "piFlush" /\ UNCHANGED <<said, stop>>
  BY <1>2 DEF EndInv, CutSaid, Truncated
<1>3. CASE SupervisedStep \/ SupervisorStep
  <2>1. at \in SupervisedPlaces
    BY <1>0, <1>3 DEF SupervisedStep, SupervisedNext, SupervisorStep, Supervisor, SupervisedOpen,
      StudentCreate, CreateThrows, StudentDelta, StudentCallback, CheckAborted, StudentSettles,
      StudentEnds, AskOnceMore, FinalAborted, FinalResolves, TeacherCreate, TeacherCallback,
      TeacherSettles, TeacherFlushed, CheckResolves, AtPlace, Flushed, SupervisedPlaces
  <2> QED BY <2>1, Where
<1>4. CASE VercelStep
  BY <1>4 DEF VercelStep, VercelNext, VercelOpen, TextPart, FinishPart, StreamFails,
      StreamEnds, InputPart, CallPart, ResultPart, FlushInput, Flushing
<1>5. CASE ChainStep \/ Refuse \/ Finish \/ Cancel \/ Disconnect \/ UNCHANGED vars
  <2>1. at = "piFlush" /\ UNCHANGED <<said, stop>>
    BY <1>5 DEF ChainStep, Refuse, Finish, Cancel, Disconnect, Abort, vars, adapterVars
  <2> QED BY <1>2, <2>1
<1> QED BY <1>1, <1>3, <1>4, <1>5 DEF Next

LEMMA InitEnd == Init => EndInv
<1> SUFFICES ASSUME Init PROVE EndInv OBVIOUS
<1>1. /\ at \in {"piCreate", "supervisedOpen", "vercelOpen"} /\ said = FALSE /\ Slots = {}
      /\ out.excused = FALSE
  BY BackendAssumption DEF Init, SessionInit, Starts, NothingOut, Slots
<1> QED BY <1>1 DEF EndInv, SaidTold, NeverExcused, HandedOver, StudentTold, CutSaid, CutTold

LEMMA StepEnd == BaseInv /\ EndInv /\ [Next]_vars => EndInv'
<1> SUFFICES ASSUME BaseInv, EndInv, [Next]_vars PROVE EndInv' OBVIOUS
<1>0. backend' = backend BY SameBackend
<1>1. SaidTold' /\ NeverExcused'
  <2>1. CASE PiStep \/ SupervisedStep \/ SupervisorStep \/ CommonAside
    BY <1>0, <2>1, PiSaid, SupervisedSaid, CommonSaid, MovedSaid DEF EndInv
  <2>2. CASE ChainStep BY <2>2, ChainSaid DEF EndInv
  <2>3. CASE VercelStep
    <3>1. at \in VercelPlaces
      BY <2>3 DEF VercelStep, VercelNext, VercelPlaces, VercelOpen, TextPart, FinishPart, StreamFails,
        StreamEnds, InputPart, CallPart, ResultPart, FlushInput, Flushing
    <3>2. backend = "vercel" BY <3>1, Where
    <3> QED BY <1>0, <3>2 DEF SaidTold, NeverExcused, NotVercel
  <2> QED BY <2>1, <2>2, <2>3 DEF Next, CommonAside
<1>2. HandedOver' BY StepHandedOver DEF EndInv
<1>3. StudentTold' BY <1>1, StudentArrives
<1> QED BY <1>1, <1>2, <1>3, CutSays, CutArrives DEF EndInv

(* How a run of a Pi runtime ended is not hidden from its client: a student that   *)
(* was stopped by the user or failed unjudged, and an answer that was cut short.  *)
THEOREM EndsTold == Spec => []EndReported
<1>1. EndInv => EndReported
  BY DEF EndInv, StudentTold, CutTold, Told, EndReported, StudentEndReported, TruncationReported
<1> QED BY <1>1, InitEnd, StepEnd, BaseHolds, PTL DEF Spec
=============================================================================
