--------------------------- MODULE SupervisedRun ---------------------------
(***************************************************************************)
(* runPiSupervisedConversation (src/src/runtime/conversation/pi-runtime.ts): *)
(* a student answers in segments, a supervisor judges the partial answer    *)
(* while it streams and once more when a segment ends unjudged.  A nudge     *)
(* starts another segment, an interruption hands over to a teacher.         *)
(*                                                                         *)
(* A judgement is a fetch: its answer may come at any time while the        *)
(* segment lasts, also after the student is done; it rejects once the       *)
(* signal has aborted, and it has no deadline.                             *)
(***************************************************************************)
EXTENDS PiSession

CONSTANT MaxNudges   \* supervision.max_nudges

ASSUME SupervisedAssumption == MaxNudges \in Nat

VARIABLES
  run,      \* locals of runPiSupervisedConversation
  segment   \* locals of runSupervisedStudentSegment

supervisedVars == <<run, segment>>

SupervisedPlaces ==
  {"supervisedOpen", "studentCreate", "student", "studentSettled", "finalCheck",
   "teacherCreate", "teacher", "teacherFlush"}

(* total counts the deltas of totalPartial. *)
NewRun == [total |-> 0, markers |-> 0, boundaries |-> 0, nudges |-> 0]

(* partial and checked count deltas; judging is the boundary of the check    *)
(* in flight, or NoCheck; decision is "none" until there is one.            *)
NoCheck == 0 - 1
NewSegment ==
  [partial |-> 0, checked |-> 0, asked |-> FALSE, judging |-> NoCheck, decision |-> "none",
   marker |-> NoId, planned |-> FALSE, failed |-> FALSE, completed |-> FALSE]

SupervisedInit == run = NewRun /\ segment = NewSegment

Judging == segment.judging # NoCheck

SupervisedOpen ==
  /\ at = "supervisedOpen"
  /\ at' = "studentCreate"
  /\ out' = Put(out, Message)
  /\ UNCHANGED <<signal, open, adapterVars, sessionVars, supervisedVars>>

-----------------------------------------------------------------------------
(* A segment of the student. *)

StudentCreate ==
  /\ at = "studentCreate"
  /\ at' = "student"
  /\ OpenSession
  /\ segment' = NewSegment
  /\ UNCHANGED <<signal, streamVars, run>>

(* onTextDelta: a boundary may be due with this delta, unless a decision was *)
(* made or a check is in flight.                                           *)
StudentDelta ==
  /\ at = "student"
  /\ OnDelta("student")
  /\ LET longer == [segment EXCEPT !.partial = @ + 1]
     IN \/ /\ segment' = longer
           /\ UNCHANGED run
        \/ /\ segment.decision = "none" /\ ~Judging /\ ~signal
           /\ segment' = [longer EXCEPT !.checked = longer.partial, !.asked = TRUE,
                                        !.judging = run.boundaries]
           /\ run' = [run EXCEPT !.boundaries = @ + 1]
  /\ UNCHANGED <<at, signal, streamVars>>

StudentCallback ==
  /\ at = "student"
  /\ Callback("student", segment.planned)
  /\ UNCHANGED <<at, signal, streamVars, supervisedVars>>

(* What a supervisor answers, with the nudge budget applied.  An answer that *)
(* cannot be read counts as continue.                                      *)
AllowNudge == run.nudges < MaxNudges
Degraded(v) == IF v = "nudge" /\ ~AllowNudge THEN "continue" ELSE v
MarkerOf(v, boundary) ==
  IF v \in Interventions THEN InterventionMarker(run.markers) ELSE VerdictMarker(boundary)

(* The check of a streaming boundary resolves.  An unavailable supervisor    *)
(* counts as a decision to continue.                                       *)
CheckResolves ==
  /\ Judging /\ ~signal
  /\ \E answer \in Verdicts, unavailable \in BOOLEAN :
       LET v == Degraded(answer)
           marker == MarkerOf(v, segment.judging)
           decided == v # "continue"
       IN /\ unavailable => answer = "continue"
          /\ queue' = queue \o <<Verdict(v, marker), Usage("supervisor")>>
          /\ segment' = [segment EXCEPT
                           !.judging = NoCheck,
                           !.decision = IF decided \/ unavailable THEN v ELSE @,
                           !.marker = IF decided THEN marker ELSE @,
                           !.planned = @ \/ decided]
          /\ aborting' = (aborting \/ (decided /\ session.phase \in {"streaming", "tools", "ended"}))
  /\ UNCHANGED <<at, signal, streamVars, said, stop, session, listening, run>>

(* Its fetch was aborted with the run: no verdict. *)
CheckAbortedNever ==
  /\ Judging /\ signal
  /\ UNCHANGED <<at, signal, streamVars, adapterVars, sessionVars, supervisedVars>>

CheckAborted ==
  /\ Judging /\ signal
  /\ segment' = [segment EXCEPT !.judging = NoCheck]
  /\ UNCHANGED <<at, signal, streamVars, adapterVars, sessionVars, run>>

(* The student counts as completed if no verdict had stopped it by now; a    *)
(* check in flight may still come to one.                                  *)
StudentSettles ==
  /\ at = "student" /\ Settled
  /\ at' = "studentSettled"
  /\ segment' = [segment EXCEPT !.failed = session.phase = "rejected",
                                !.completed = session.phase = "resolved" /\ ~segment.planned]
  /\ UNCHANGED <<signal, streamVars, adapterVars, sessionVars, run>>

-----------------------------------------------------------------------------
(* The end of a segment, and what the run does next. *)

(* The next segment; student_interruption and teacher_continuation. *)
NextSegmentSameMarker(r) == [r EXCEPT !.nudges = @ + 1]
NextSegment(r) == [r EXCEPT !.markers = @ + 1, !.nudges = @ + 1]
HandOver(o, marker) == Put(Put(o, Interruption(marker)), Continuation(marker))

(* o is the stream and r the locals of the run so far. *)
EndSegment(o, r, decision, marker, terminal) ==
  /\ LET longer == [r EXCEPT !.total = @ + segment.partial]
     IN \/ /\ terminal \/ decision \notin Interventions
           /\ at' = "returned"
           /\ run' = longer
           /\ out' = o
        \/ /\ ~terminal /\ decision = "nudge" /\ ~segment.completed
           /\ at' = "studentCreate"
           /\ run' = NextSegment(longer)
           /\ out' = o
        \/ /\ ~terminal /\ decision \in Interventions
           /\ decision = "nudge" => segment.completed
           /\ at' = "teacherCreate"
           /\ run' = longer
           /\ out' = HandOver(o, marker)
  /\ CloseSession

(* No check is in flight, and the chain has drained. *)
FlushedUnwritten == at = "studentSettled" /\ ~Judging
Flushed == at = "studentSettled" /\ ~Judging /\ queue = <<>>

FinalCheckDue ==
  /\ segment.decision = "none" /\ ~signal /\ ~segment.failed
  /\ segment.partial # segment.checked \/ ~segment.asked

StudentEnds ==
  /\ Flushed /\ ~FinalCheckDue
  /\ LET undecided == segment.decision = "none"
         o == CASE said -> out
                [] ~said /\ signal -> Put(out, Cancellation)
                [] ~said /\ ~signal /\ segment.failed /\ undecided -> Put(out, Fatal)
                [] OTHER -> out
     IN EndSegment(o, run, segment.decision, segment.marker,
                   signal \/ said \/ (undecided /\ segment.failed))
  /\ UNCHANGED <<signal, open, adapterVars, segment>>

(* The partial was not judged as it is now: ask once more. *)
AskOnceMore ==
  /\ Flushed /\ FinalCheckDue
  /\ at' = "finalCheck"
  /\ UNCHANGED <<signal, streamVars, adapterVars, sessionVars, supervisedVars>>

FinalResolves ==
  /\ at = "finalCheck" /\ ~signal
  /\ \E answer \in Verdicts :
       LET v == Degraded(answer)
           marker == MarkerOf(v, run.boundaries)
       IN EndSegment(Put(Put(out, Verdict(v, marker)), Usage("supervisor")),
                     [run EXCEPT !.boundaries = @ + 1], v, marker, said)
  /\ UNCHANGED <<signal, open, adapterVars, segment>>

FinalAbortedSilently ==
  /\ at = "finalCheck" /\ signal
  /\ at' = "returned"
  /\ CloseSession
  /\ UNCHANGED <<signal, streamVars, adapterVars, supervisedVars>>

FinalAborted ==
  /\ at = "finalCheck" /\ signal
  /\ out' = Put(out, Cancellation)
  /\ at' = "returned"
  /\ CloseSession
  /\ UNCHANGED <<signal, open, adapterVars, supervisedVars>>

-----------------------------------------------------------------------------
(* The teacher: a session of its own.  Its catch block writes directly.     *)

TeacherCreate ==
  /\ at = "teacherCreate"
  /\ at' = "teacher"
  /\ OpenSession
  /\ UNCHANGED <<signal, streamVars, supervisedVars>>

TeacherCallback ==
  /\ at = "teacher"
  /\ OnDelta("teacher") \/ Callback("teacher", FALSE)
  /\ UNCHANGED <<at, signal, streamVars, supervisedVars>>

TeacherSettles ==
  /\ at = "teacher" /\ Settled
  /\ at' = "teacherFlush"
  /\ out' = IF session.phase = "rejected" /\ ~said
            THEN Put(out, IF signal THEN Cancellation ELSE Fatal) ELSE out
  /\ UNCHANGED <<signal, open, adapterVars, sessionVars, supervisedVars>>

TeacherFlushed ==
  /\ at = "teacherFlush" /\ queue = <<>>
  /\ at' = "returned"
  /\ CloseSession
  /\ UNCHANGED <<signal, streamVars, adapterVars, supervisedVars>>

(* createPiRuntimeSession throws, for the student or for the teacher. *)
CreateThrows ==
  /\ at \in {"studentCreate", "teacherCreate"}
  /\ at' = "thrown"
  /\ UNCHANGED <<signal, streamVars, adapterVars, sessionVars, supervisedVars>>

Supervisor == CheckResolves \/ FinalResolves
SupervisedNext ==
  \/ SupervisedOpen \/ StudentCreate \/ CreateThrows
  \/ StudentDelta \/ StudentCallback \/ CheckAborted \/ StudentSettles
  \/ StudentEnds \/ AskOnceMore \/ FinalAborted
  \/ TeacherCreate \/ TeacherCallback \/ TeacherSettles \/ TeacherFlushed
=============================================================================
