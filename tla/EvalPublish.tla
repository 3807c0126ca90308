---------------------------- MODULE EvalPublish ----------------------------
(***************************************************************************)
(* Checking and publishing one eval project: `understudy evals check`, and  *)
(* `evals publish` with --preview or with --expect-release-id, which both   *)
(* run the check again (src/src/evals/check.ts, publish.ts,                *)
(* module-sandbox.ts).                                                     *)
(*                                                                         *)
(* Nothing is locked: a coding agent edits the artifacts and the owner      *)
(* writes the approval while commands read them, and commands overlap.  An  *)
(* artifact that is hashed is read once more for its contents, the modules  *)
(* are read once and executed from memory, and the publication reads all    *)
(* of them again.  A hash is the contents; an edit gives an artifact        *)
(* contents that it never had before.                                      *)
(***************************************************************************)
EXTENDS Naturals, FiniteSets

CONSTANTS
  Checkers,   \* slots for processes that run `evals check`, each reused
  Publishers, \* slots for processes that run `evals publish`
  NumFiles,   \* artifacts of a release, in the order in which a check reads them
  ReadOnce,   \* those that are hashed and used from one read: the module trees
  Broken,     \* contents with which the fixtures fail, as <<artifact, version>>
  MaxEdits,   \* bound: edits of an artifact
  MaxTime,    \* bound: ticks of the millisecond clock
  None

Commands == Checkers \cup Publishers
Files == 1..NumFiles
Versions == 0..MaxEdits
Times == 0..MaxTime

Contents == [Files -> Versions]
Partial == [Files -> Versions \cup {None}]
Unread == [f \in Files |-> None]

(* checks/report.json of a passing check; two are the same report if they    *)
(* differ in their times only.  What a check prints for the owner.          *)
Reports == [files : Contents, at : Times]
Printed == [files : Contents, report : Reports]

(* approval.json: the version of artifact 1, the profile and the metric, for *)
(* which the owner has confirmed the intent, and the final approval.        *)
Finals == [files : Contents, report : Reports, at : Times]
Approvals == [intent : Versions, final : Finals \cup {None}]
Publications == [files : Contents, report : Reports, approval : Approvals]

ASSUME EvalPublishAssumption ==
  /\ Checkers \cap Publishers = {}
  /\ NumFiles \in Nat \ {0}
  /\ ReadOnce \subseteq Files
  /\ Broken \subseteq Files \X Versions
  /\ MaxEdits \in Nat /\ MaxTime \in Nat
  /\ None \notin Nat
  /\ None \notin Reports /\ None \notin Finals /\ None \notin Approvals
  /\ None \notin Publications

VARIABLES
  file,       \* file[f]: the contents of artifact f
  report,     \* checks/report.json, or None
  approval,   \* approval.json, or None
  clock,
  printed,    \* what checks have printed
  previews,   \* publications whose release id a preview has shown
  uploads,    \* publications that were uploaded
  at,         \* where a command is
  expect,     \* the publication whose release id the owner gave permission for;
              \* None is a preview
  before,     \* the approval that a publication read before its check
  hashed,     \* hashed[c][f]: what c hashed of artifact f
  used,       \* used[c][f]: what c replays the fixtures with
  now,        \* the time of the check
  claimed,    \* the approval as the check parsed it
  result,     \* the report that the check returns
  snap,       \* snap[c][f]: what c puts in the bundle
  replayed    \* history: contents that passed while they were the project's

projectVars == <<file, report, approval, clock>>
shownVars == <<printed, previews, uploads>>
readVars == <<hashed, used, now, claimed, replayed>>
bundleVars == <<result, snap>>
startVars == <<expect, before>>
vars == <<projectVars, shownVars, at, startVars, readVars, bundleVars>>

Init ==
  /\ file = [f \in Files |-> 0]
  /\ report = None /\ approval = None /\ clock = 0
  /\ printed = {} /\ previews = {} /\ uploads = {}
  /\ at = [c \in Commands |-> "off"]
  /\ expect = [c \in Commands |-> None]
  /\ before = [c \in Commands |-> None]
  /\ hashed = [c \in Commands |-> Unread]
  /\ used = [c \in Commands |-> Unread]
  /\ now = [c \in Commands |-> None]
  /\ claimed = [c \in Commands |-> None]
  /\ result = [c \in Commands |-> None]
  /\ snap = [c \in Commands |-> Unread]
  /\ replayed = {}

-----------------------------------------------------------------------------
(* The agent, the owner, and time. *)

Edit(f) ==
  /\ file[f] < MaxEdits
  /\ file' = [file EXCEPT ![f] = @ + 1]
  /\ UNCHANGED <<report, approval, clock, shownVars, at, startVars, readVars, bundleVars>>

ConfirmIntent ==
  /\ approval # None => approval.intent # file[1]
  /\ approval' = [intent |-> file[1], final |-> None]
  /\ UNCHANGED <<file, report, clock, shownVars, at, startVars, readVars, bundleVars>>

(* The owner copies the hashes that some check has printed for this intent. *)
Approve ==
  /\ approval # None
  /\ \E p \in printed :
       /\ p.files[1] = approval.intent
       /\ approval' = [approval EXCEPT !.final = [files |-> p.files, report |-> p.report, at |-> clock]]
  /\ UNCHANGED <<file, report, clock, shownVars, at, startVars, readVars, bundleVars>>

Tick ==
  /\ clock < MaxTime
  /\ clock' = clock + 1
  /\ UNCHANGED <<file, report, approval, shownVars, at, startVars, readVars, bundleVars>>

-----------------------------------------------------------------------------
(* A command. *)

Goto(c, place) == at' = [at EXCEPT ![c] = place]

(* It returns or throws, and forgets what it read. *)
Leave(c) ==
  /\ Goto(c, "off")
  /\ expect' = [expect EXCEPT ![c] = None]
  /\ before' = [before EXCEPT ![c] = None]
  /\ hashed' = [hashed EXCEPT ![c] = Unread]
  /\ used' = [used EXCEPT ![c] = Unread]
  /\ now' = [now EXCEPT ![c] = None]
  /\ claimed' = [claimed EXCEPT ![c] = None]
  /\ result' = [result EXCEPT ![c] = None]
  /\ snap' = [snap EXCEPT ![c] = Unread]

Start(c) ==
  /\ at[c] = "off"
  /\ Goto(c, IF c \in Checkers THEN "read" ELSE "before")
  /\ \/ UNCHANGED expect
     \/ c \in Publishers /\ \E p \in previews : expect' = [expect EXCEPT ![c] = p]
  /\ UNCHANGED <<projectVars, shownVars, before, readVars, bundleVars>>

(* An unreadable or invalid artifact, a file that changes under the read, a  *)
(* check child that crashes or times out, a kill.                           *)
Throw(c) ==
  /\ at[c] # "off"
  /\ Leave(c)
  /\ UNCHANGED <<projectVars, shownVars, replayed>>

ReadBefore(c) ==
  /\ at[c] = "before"
  /\ approval # None
  /\ before' = [before EXCEPT ![c] = approval]
  /\ Goto(c, "read")
  /\ UNCHANGED <<projectVars, shownVars, expect, readVars, bundleVars>>

(* The artifact that the check comes to: those before it are read. *)
Reaches(c, f) ==
  /\ at[c] = "read"
  /\ \A g \in Files : g < f => used[c][g] # None
  /\ f > 1 => now[c] # None

Hash(c) ==
  /\ \E f \in Files :
       /\ Reaches(c, f) /\ hashed[c][f] = None
       /\ hashed' = [hashed EXCEPT ![c][f] = file[f]]
       /\ used' = IF f \in ReadOnce THEN [used EXCEPT ![c][f] = file[f]] ELSE used
  /\ UNCHANGED <<projectVars, shownVars, at, startVars, now, claimed, replayed, bundleVars>>

Parse(c) ==
  /\ \E f \in Files :
       /\ Reaches(c, f) /\ hashed[c][f] # None /\ used[c][f] = None
       /\ used' = [used EXCEPT ![c][f] = file[f]]
  /\ UNCHANGED <<projectVars, shownVars, at, startVars, hashed, now, claimed, replayed, bundleVars>>

(* The check takes its time and the approval, whose intent must be for what  *)
(* it has hashed.                                                           *)
Intent(c) ==
  /\ at[c] = "read" /\ used[c][1] # None /\ now[c] = None
  /\ approval # None /\ approval.intent = hashed[c][1]
  /\ now' = [now EXCEPT ![c] = clock]
  /\ claimed' = [claimed EXCEPT ![c] = approval]
  /\ UNCHANGED <<projectVars, shownVars, at, startVars, hashed, used, replayed, bundleVars>>

(* Every fixture is replayed, twice, in a child process. *)
Replay(c) ==
  /\ at[c] = "read" /\ now[c] # None
  /\ \A f \in Files : used[c][f] # None /\ <<f, used[c][f]>> \notin Broken
  /\ replayed' = IF used[c] = file THEN replayed \cup {file} ELSE replayed
  /\ used' = [used EXCEPT ![c] = Unread]
  /\ Goto(c, "compare")
  /\ UNCHANGED <<projectVars, shownVars, startVars, hashed, now, claimed, bundleVars>>

(* A report that says the same is kept, unless it is from a later time. *)
CompareTimesOnly(c) ==
  LET same == report # None /\ report.at <= now[c] IN
  /\ at[c] = "compare"
  /\ result' = [result EXCEPT ![c] = IF same THEN report ELSE [files |-> hashed[c], at |-> now[c]]]
  /\ Goto(c, IF same THEN "bind" ELSE "write")
  /\ UNCHANGED <<projectVars, shownVars, startVars, readVars, snap>>

CompareForgetful(c) ==
  LET candidate == [files |-> hashed[c], at |-> now[c]]
      same == report # None /\ report.files = candidate.files /\ report.at <= candidate.at
  IN
  /\ at[c] = "compare"
  /\ IF same THEN UNCHANGED result ELSE result' = [result EXCEPT ![c] = candidate]
  /\ Goto(c, IF same THEN "bind" ELSE "write")
  /\ UNCHANGED <<projectVars, shownVars, startVars, readVars, snap>>

Compare(c) ==
  LET candidate == [files |-> hashed[c], at |-> now[c]]
      same == report # None /\ report.files = candidate.files /\ report.at <= candidate.at
  IN
  /\ at[c] = "compare"
  /\ result' = [result EXCEPT ![c] = IF same THEN report ELSE candidate]
  /\ Goto(c, IF same THEN "bind" ELSE "write")
  /\ UNCHANGED <<projectVars, shownVars, startVars, readVars, snap>>

Write(c) ==
  /\ at[c] = "write"
  /\ report' = result[c]
  /\ Goto(c, "bind")
  /\ UNCHANGED <<file, approval, clock, shownVars, startVars, readVars, bundleVars>>

(* Whether a final approval is for what the check hashed and for the report   *)
(* file as it is now, and later than the report.                            *)
Binds(c) ==
  LET final == claimed[c].final IN
  /\ final.files = hashed[c] /\ final.report = report
  /\ final.at > result[c].at /\ final.at <= now[c]

(* `evals check` ends: without a final approval, or with one that binds. *)
EndCheck(c) ==
  /\ at[c] = "bind" /\ c \in Checkers
  /\ claimed[c].final # None => Binds(c)
  /\ printed' = printed \cup {[files |-> hashed[c], report |-> report]}
  /\ Leave(c)
  /\ UNCHANGED <<projectVars, previews, uploads, replayed>>

(* A publication goes on only with one; else it throws, as it does later if   *)
(* the report file is not the report that its check returned.               *)
Bind(c) ==
  /\ at[c] = "bind" /\ c \in Publishers
  /\ claimed[c].final # None /\ Binds(c)
  /\ report = result[c]
  /\ now' = [now EXCEPT ![c] = None]
  /\ claimed' = [claimed EXCEPT ![c] = None]
  /\ Goto(c, "after")
  /\ UNCHANGED <<projectVars, shownVars, startVars, hashed, used, replayed, bundleVars>>

ReadAfter(c) ==
  /\ at[c] = "after"
  /\ approval = before[c]
  /\ Goto(c, "snapshot")
  /\ UNCHANGED <<projectVars, shownVars, startVars, readVars, bundleVars>>

Collect(c) ==
  /\ at[c] = "snapshot"
  /\ \E f \in Files :
       /\ snap[c][f] = None /\ file[f] = hashed[c][f]
       /\ \A g \in Files : g < f => snap[c][g] # None
       /\ snap' = [snap EXCEPT ![c][f] = file[f]]
  /\ UNCHANGED <<projectVars, shownVars, at, startVars, readVars, result>>

(* The report is the last artifact to be read.  Every hash of the bundle must *)
(* be the one that was checked.                                            *)
Confirmed(c) ==
  /\ \A f \in Files : snap[c][f] # None
  /\ report = result[c]
  /\ before[c].intent = snap[c][1]

(* The schema of a publication: it is complete, and its approval is for its   *)
(* artifacts.                                                              *)
Valid(p) ==
  /\ p.approval.final # None
  /\ p.approval.final.files = p.files /\ p.approval.final.report = p.report

Publication(c) == [files |-> snap[c], report |-> report, approval |-> before[c]]

Preview(c) ==
  /\ at[c] = "snapshot" /\ expect[c] = None
  /\ Confirmed(c) /\ Valid(Publication(c))
  /\ previews' = previews \cup {Publication(c)}
  /\ Leave(c)
  /\ UNCHANGED <<projectVars, printed, uploads, replayed>>

(* The release id is a hash of the publication.  Whether the service answers *)
(* changes nothing here.                                                    *)
Upload(c) ==
  /\ at[c] = "snapshot"
  /\ Confirmed(c) /\ Valid(Publication(c))
  /\ Publication(c) = expect[c]
  /\ uploads' = uploads \cup {Publication(c)}
  /\ Leave(c)
  /\ UNCHANGED <<projectVars, printed, previews, replayed>>

-----------------------------------------------------------------------------
Step(c) ==
  \/ Start(c) \/ Throw(c) \/ ReadBefore(c)
  \/ Hash(c) \/ Parse(c) \/ Intent(c) \/ Replay(c)
  \/ Compare(c) \/ Write(c) \/ EndCheck(c) \/ Bind(c)
  \/ ReadAfter(c) \/ Collect(c) \/ Preview(c) \/ Upload(c)

Next ==
  \/ \E f \in Files : Edit(f)
  \/ ConfirmIntent \/ Approve \/ Tick
  \/ \E c \in Commands : Step(c)

Spec == Init /\ [][Next]_vars
-----------------------------------------------------------------------------
(* Properties. *)

Places == {"off", "before", "read", "compare", "write", "bind", "after", "snapshot"}

TypeOK ==
  /\ file \in Contents
  /\ report \in Reports \cup {None}
  /\ approval \in Approvals \cup {None}
  /\ clock \in Times
  /\ printed \subseteq Printed
  /\ previews \subseteq Publications /\ uploads \subseteq Publications
  /\ at \in [Commands -> Places]
  /\ expect \in [Commands -> Publications \cup {None}]
  /\ before \in [Commands -> Approvals \cup {None}]
  /\ hashed \in [Commands -> Partial] /\ used \in [Commands -> Partial]
  /\ now \in [Commands -> Times \cup {None}]
  /\ claimed \in [Commands -> Approvals \cup {None}]
  /\ result \in [Commands -> Reports \cup {None}]
  /\ snap \in [Commands -> Partial]
  /\ replayed \subseteq Contents
  /\ \A c \in Commands : at[c] \in {"write", "bind", "after", "snapshot"} => result[c] # None

(* The release that a preview shows was replayed with success, and the        *)
(* project once was in exactly that state: it never mixes artifacts of before *)
(* and after an edit, nor carries one that the fixtures did not run with,   *)
(* although each is read up to three times and the project is never locked. *)
PreviewedWasReplayed ==
  \A p \in previews : p.files \in replayed

(* It carries an approval of exactly its artifacts and its report, given      *)
(* after that report was made.                                             *)
PreviewedWasApproved ==
  \A p \in previews :
    /\ p.report.files = p.files
    /\ p.approval.intent = p.files[1]
    /\ LET final == p.approval.final IN
         /\ final.files = p.files /\ final.report = p.report
         /\ final.at > p.report.at

(* Only what had been previewed is uploaded, though it is read anew. *)
UploadedWasPreviewed == uploads \subseteq previews

(* What is uploaded was replayed, approved and previewed. *)
UploadsAreSound == PreviewedWasReplayed /\ PreviewedWasApproved /\ UploadedWasPreviewed
=============================================================================
