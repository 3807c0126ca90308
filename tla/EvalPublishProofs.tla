------------------------- MODULE EvalPublishProofs -------------------------
(***************************************************************************)
(* Theorems about EvalPublish, for any number of commands, artifacts, edits *)
(* and ticks.                                                              *)
(***************************************************************************)
EXTENDS EvalPublish, TLAPS

-----------------------------------------------------------------------------
(* What a command has at each place. *)

Replayed == {"compare", "write", "bind", "after", "snapshot"}
Reported == {"write", "bind", "after", "snapshot"}
Bound == {"after", "snapshot"}

Has(c) ==
  /\ \A f \in Files : used[c][f] # None => hashed[c][f] # None
  /\ now[c] # None => claimed[c] # None
  /\ at[c] \in Replayed => hashed[c] \in Contents
  /\ at[c] \in Replayed \ Bound => now[c] # None
  /\ at[c] \in Bound \cup {"bind"} => report # None
  /\ at[c] \in Bound => c \notin Checkers
  /\ c \notin Checkers /\ at[c] \notin {"off", "before"} => before[c] # None

TypeInv == TypeOK /\ \A c \in Commands : Has(c)

-----------------------------------------------------------------------------
(* What it read is of some state of the file, and the files only get newer;   *)
(* after the replay, either that state was replayed when it was the project's *)
(* or the snapshot will not get past an artifact that was edited since.      *)

Older(c) ==
  \A f \in Files :
    /\ hashed[c][f] # None => hashed[c][f] <= file[f]
    /\ used[c][f] # None => hashed[c][f] <= used[c][f] /\ used[c][f] <= file[f]
    /\ snap[c][f] \in {None, hashed[c][f]}
    /\ at[c] # "snapshot" => snap[c][f] = None

Edited(c) == \E f \in Files : hashed[c][f] < file[f] /\ snap[c][f] = None

Kept(c) == at[c] \in Replayed => hashed[c] \in replayed \/ Edited(c)

ReplayInv ==
  /\ \A c \in Commands : Older(c) /\ Kept(c)
  /\ PreviewedWasReplayed

-----------------------------------------------------------------------------
(* Approvals only get later; what a publication has seen of them before its   *)
(* check, in it and after it tells that they are the same or later than the   *)
(* report.                                                                 *)

Final(a) == a # None /\ a.final # None

Sees(c) ==
  /\ claimed[c] # None => approval # None
  /\ Final(claimed[c]) => claimed[c].final.at <= clock
  /\ Final(claimed[c]) /\ Final(approval) => claimed[c].final.at <= approval.final.at
  /\ at[c] \in Reported => result[c].files = hashed[c]
  /\ at[c] = "after" => result[c].at < clock
  /\ at[c] = "after" /\ Final(approval) => result[c].at < approval.final.at
  /\ at[c] = "snapshot" /\ Final(before[c]) => result[c].at < before[c].final.at
  /\ expect[c] # None => expect[c] \in previews

ApprovalInv ==
  /\ Final(approval) => approval.final.at <= clock
  /\ \A c \in Commands : Sees(c)
  /\ PreviewedWasApproved /\ UploadedWasPreviewed

Inv == TypeInv /\ ReplayInv /\ ApprovalInv

-----------------------------------------------------------------------------
(* Types. *)

(* A vector of contents of which none is missing is a state of the project. *)
LEMMA Whole ==
  ASSUME NEW v \in Partial, \A f \in Files : v[f] # None
  PROVE  v \in Contents
BY DEF Partial, Contents

LEMMA ContentsArePartial == Contents \subseteq Partial /\ Unread \in Partial
BY DEF Contents, Partial, Unread

(* A step of one command leaves the others where they are. *)
LEMMA OthersStay ==
  ASSUME TypeOK, NEW c \in Commands, Step(c), NEW d \in Commands, d # c
  PROVE  /\ at'[d] = at[d] /\ expect'[d] = expect[d] /\ before'[d] = before[d]
         /\ hashed'[d] = hashed[d] /\ used'[d] = used[d] /\ now'[d] = now[d]
         /\ claimed'[d] = claimed[d] /\ result'[d] = result[d] /\ snap'[d] = snap[d]
<1> USE DEF TypeOK, Goto, Leave, projectVars, shownVars, startVars, readVars, bundleVars
<1>1. CASE Start(c) BY <1>1 DEF Start
<1>2. CASE Throw(c) BY <1>2 DEF Throw
<1>3. CASE ReadBefore(c) BY <1>3 DEF ReadBefore
<1>4. CASE Hash(c) BY <1>4 DEF Hash
<1>5. CASE Parse(c) BY <1>5 DEF Parse
<1>6. CASE Intent(c) BY <1>6 DEF Intent
<1>7. CASE Replay(c) BY <1>7 DEF Replay
<1>8. CASE Compare(c) BY <1>8 DEF Compare
<1>9. CASE Write(c) BY <1>9 DEF Write
<1>10. CASE EndCheck(c) BY <1>10 DEF EndCheck
<1>11. CASE Bind(c) BY <1>11 DEF Bind
<1>12. CASE ReadAfter(c) BY <1>12 DEF ReadAfter
<1>13. CASE Collect(c) BY <1>13 DEF Collect
<1>14. CASE Preview(c) BY <1>14 DEF Preview
<1>15. CASE Upload(c) BY <1>15 DEF Upload
<1> QED
  BY <1>1, <1>2, <1>3, <1>4, <1>5, <1>6, <1>7, <1>8, <1>9, <1>10, <1>11, <1>12, <1>13, <1>14,
     <1>15 DEF Step

(* No step of a command edits, writes the approval or stops the clock; reports  *)
(* do not disappear.                                                       *)
LEMMA ProjectStays ==
  ASSUME TypeOK, NEW c \in Commands, Step(c)
  PROVE  /\ file' = file /\ approval' = approval /\ clock' = clock
         /\ report # None => report' # None
         /\ replayed \subseteq replayed' /\ previews \subseteq previews'
<1> USE DEF TypeOK, projectVars, shownVars, readVars
<1>1. CASE Start(c) BY <1>1 DEF Start
<1>2. CASE Throw(c) BY <1>2 DEF Throw
<1>3. CASE ReadBefore(c) BY <1>3 DEF ReadBefore
<1>4. CASE Hash(c) BY <1>4 DEF Hash
<1>5. CASE Parse(c) BY <1>5 DEF Parse
<1>6. CASE Intent(c) BY <1>6 DEF Intent
<1>7. CASE Replay(c) BY <1>7 DEF Replay
<1>8. CASE Compare(c) BY <1>8 DEF Compare
<1>9. CASE Write(c) BY <1>9 DEF Write
<1>10. CASE EndCheck(c) BY <1>10 DEF EndCheck
<1>11. CASE Bind(c) BY <1>11 DEF Bind
<1>12. CASE ReadAfter(c) BY <1>12 DEF ReadAfter
<1>13. CASE Collect(c) BY <1>13 DEF Collect
<1>14. CASE Preview(c) BY <1>14 DEF Preview
<1>15. CASE Upload(c) BY <1>15 DEF Upload
<1> QED
  BY <1>1, <1>2, <1>3, <1>4, <1>5, <1>6, <1>7, <1>8, <1>9, <1>10, <1>11, <1>12, <1>13, <1>14,
     <1>15 DEF Step

LEMMA TypeInit == Init => TypeInv
<1> SUFFICES ASSUME Init PROVE TypeInv
  OBVIOUS
<1>1. TypeOK
  BY EvalPublishAssumption
     DEF Init, TypeOK, Contents, Partial, Unread, Versions, Times, Places
<1>2. \A c \in Commands : Has(c)
  BY DEF Init, Has, Unread, Replayed, Bound
<1> QED BY <1>1, <1>2 DEF TypeInv

LEMMA LeaveTypes ==
  ASSUME TypeInv, NEW c \in Commands, Leave(c)
  PROVE  /\ at' \in [Commands -> Places]
         /\ expect' \in [Commands -> Publications \cup {None}]
         /\ before' \in [Commands -> Approvals \cup {None}]
         /\ hashed' \in [Commands -> Partial] /\ used' \in [Commands -> Partial]
         /\ now' \in [Commands -> Times \cup {None}]
         /\ claimed' \in [Commands -> Approvals \cup {None}]
         /\ result' \in [Commands -> Reports \cup {None}]
         /\ snap' \in [Commands -> Partial]
         /\ Has(c)'
         /\ \A d \in Commands : at'[d] \in Reported => result'[d] # None
<1>1. Unread \in Partial BY ContentsArePartial
<1>2. "off" \in Places BY DEF Places
<1>3. \A f \in Files : Unread[f] = None BY DEF Unread
<1> QED
  BY <1>1, <1>2, <1>3 DEF Leave, Goto, TypeInv, TypeOK, Has, Replayed, Bound, Reported

LEMMA StartTypes ==
  ASSUME TypeInv, NEW c \in Commands, Start(c)
  PROVE  TypeOK' /\ Has(c)'
BY ContentsArePartial, EvalPublishAssumption
   DEF Start, TypeInv, TypeOK, Has, Goto, projectVars, shownVars, startVars, readVars, bundleVars,
       Places, Replayed, Bound

LEMMA ThrowTypes ==
  ASSUME TypeInv, NEW c \in Commands, Throw(c)
  PROVE  TypeOK' /\ Has(c)'
<1>1. Leave(c) BY DEF Throw
<1> QED
  BY <1>1, LeaveTypes
     DEF Throw, TypeInv, TypeOK, projectVars, shownVars, Reported

LEMMA ReadBeforeTypes ==
  ASSUME TypeInv, NEW c \in Commands, ReadBefore(c)
  PROVE  TypeOK' /\ Has(c)'
BY ContentsArePartial, EvalPublishAssumption
   DEF ReadBefore, TypeInv, TypeOK, Has, Goto, projectVars, shownVars, startVars, readVars, bundleVars,
       Places, Replayed, Bound

LEMMA HashTypes ==
  ASSUME TypeInv, NEW c \in Commands, Hash(c)
  PROVE  TypeOK' /\ Has(c)'
<1> USE DEF TypeInv, TypeOK, projectVars, shownVars, startVars, bundleVars
<1>1. PICK f \in Files :
        /\ Reaches(c, f) /\ hashed[c][f] = None
        /\ hashed' = [hashed EXCEPT ![c][f] = file[f]]
        /\ used' = IF f \in ReadOnce THEN [used EXCEPT ![c][f] = file[f]] ELSE used
  BY DEF Hash
<1>2. file[f] \in Versions /\ hashed[c] \in Partial /\ used[c] \in Partial
  BY DEF Contents
<1>3. at[c] = "read" BY <1>1 DEF Reaches
<1>4. hashed' \in [Commands -> Partial] /\ used' \in [Commands -> Partial]
  BY <1>1, <1>2 DEF Partial
<1>5. \A g \in Files : used'[c][g] # None => hashed'[c][g] # None
  BY <1>1, <1>2, EvalPublishAssumption DEF Has, Partial, Versions
<1>6. TypeOK' BY <1>4 DEF Hash
<1>7. Has(c)' BY <1>3, <1>5 DEF Hash, Has, Replayed, Bound
<1> QED BY <1>6, <1>7

LEMMA ParseTypes ==
  ASSUME TypeInv, NEW c \in Commands, Parse(c)
  PROVE  TypeOK' /\ Has(c)'
<1> USE DEF TypeInv, TypeOK, projectVars, shownVars, startVars, bundleVars
<1>1. PICK f \in Files :
        /\ Reaches(c, f) /\ hashed[c][f] # None
        /\ used' = [used EXCEPT ![c][f] = file[f]]
  BY DEF Parse
<1>2. file[f] \in Versions /\ used[c] \in Partial
  BY DEF Contents
<1>3. at[c] = "read" BY <1>1 DEF Reaches
<1>4. used' \in [Commands -> Partial]
  BY <1>1, <1>2 DEF Partial
<1>5. \A g \in Files : used'[c][g] # None => hashed'[c][g] # None
  BY <1>1, <1>2 DEF Parse, Has, Partial
<1>6. TypeOK' BY <1>4 DEF Parse
<1>7. Has(c)' BY <1>3, <1>5 DEF Parse, Has, Replayed, Bound
<1> QED BY <1>6, <1>7

LEMMA IntentTypes ==
  ASSUME TypeInv, NEW c \in Commands, Intent(c)
  PROVE  TypeOK' /\ Has(c)'
BY ContentsArePartial, EvalPublishAssumption
   DEF Intent, TypeInv, TypeOK, Has, Goto, projectVars, shownVars, startVars, readVars, bundleVars,
       Places, Replayed, Bound

LEMMA ReplayTypes ==
  ASSUME TypeInv, NEW c \in Commands, Replay(c)
  PROVE  TypeOK' /\ Has(c)'
<1> USE DEF TypeInv, TypeOK, projectVars, shownVars, startVars, bundleVars, Goto
<1>1. \A f \in Files : used[c][f] # None /\ hashed[c][f] # None
  BY DEF Replay, Has
<1>2. hashed[c] \in Contents BY <1>1, Whole
<1>3. replayed' \subseteq Contents BY DEF Replay
<1>4. used' \in [Commands -> Partial] /\ at' \in [Commands -> Places]
  BY ContentsArePartial DEF Replay, Places
<1>5. TypeOK' BY <1>3, <1>4 DEF Replay
<1>6. Has(c)' BY <1>2 DEF Replay, Has, Replayed, Bound, Unread
<1> QED BY <1>5, <1>6

LEMMA CompareTypes ==
  ASSUME TypeInv, NEW c \in Commands, Compare(c)
  PROVE  TypeOK' /\ Has(c)'
<1> USE DEF TypeInv, TypeOK, projectVars, shownVars, startVars, readVars, Goto
<1>1. hashed[c] \in Contents /\ now[c] \in Times
  BY DEF Compare, Has, Replayed, Bound
<1>2. [files |-> hashed[c], at |-> now[c]] \in Reports
  BY <1>1 DEF Reports
<1>3. PICK r \in Reports, place \in {"bind", "write"} :
        /\ result' = [result EXCEPT ![c] = r]
        /\ at' = [at EXCEPT ![c] = place]
        /\ place = "bind" => report # None
  BY <1>2, Zenon DEF Compare
<1>4. r # None /\ at[c] = "compare" BY EvalPublishAssumption DEF Compare
<1>5. result' \in [Commands -> Reports \cup {None}] /\ at' \in [Commands -> Places]
  BY <1>3 DEF Places
<1>6. TypeOK' BY <1>3, <1>4, <1>5 DEF Compare
<1>7. Has(c)' BY <1>3, <1>4 DEF Compare, Has, Replayed, Bound
<1> QED BY <1>6, <1>7

LEMMA WriteTypes ==
  ASSUME TypeInv, NEW c \in Commands, Write(c)
  PROVE  TypeOK' /\ Has(c)'
BY ContentsArePartial, EvalPublishAssumption
   DEF Write, TypeInv, TypeOK, Has, Goto, projectVars, shownVars, startVars, readVars, bundleVars,
       Places, Replayed, Bound

LEMMA EndCheckTypes ==
  ASSUME TypeInv, NEW c \in Commands, EndCheck(c)
  PROVE  TypeOK' /\ Has(c)'
<1>1. Leave(c) BY DEF EndCheck
<1>2. at[c] = "bind" /\ hashed[c] \in Contents /\ report \in Reports
  BY DEF EndCheck, TypeInv, TypeOK, Has, Replayed, Bound
<1>3. printed' \subseteq Printed BY <1>2 DEF EndCheck, Printed, TypeInv, TypeOK
<1> QED
  BY <1>1, <1>3, LeaveTypes DEF EndCheck, TypeInv, TypeOK, projectVars, Reported

LEMMA BindTypes ==
  ASSUME TypeInv, NEW c \in Commands, Bind(c)
  PROVE  TypeOK' /\ Has(c)'
BY ContentsArePartial, EvalPublishAssumption
   DEF Bind, TypeInv, TypeOK, Has, Goto, projectVars, shownVars, startVars, readVars, bundleVars,
       Places, Replayed, Bound

LEMMA ReadAfterTypes ==
  ASSUME TypeInv, NEW c \in Commands, ReadAfter(c)
  PROVE  TypeOK' /\ Has(c)'
BY ContentsArePartial, EvalPublishAssumption
   DEF ReadAfter, TypeInv, TypeOK, Has, Goto, projectVars, shownVars, startVars, readVars, bundleVars,
       Places, Replayed, Bound

LEMMA CollectTypes ==
  ASSUME TypeInv, NEW c \in Commands, Collect(c)
  PROVE  TypeOK' /\ Has(c)'
<1> USE DEF TypeInv, TypeOK, projectVars, shownVars, startVars, readVars
<1>1. PICK f \in Files : snap' = [snap EXCEPT ![c][f] = file[f]]
  BY DEF Collect
<1>2. file[f] \in Versions /\ snap[c] \in Partial BY DEF Contents
<1>3. snap' \in [Commands -> Partial] BY <1>1, <1>2 DEF Partial
<1>4. TypeOK' BY <1>3 DEF Collect
<1>5. Has(c)' BY DEF Collect, Has
<1> QED BY <1>4, <1>5

LEMMA PublicationIsOne ==
  ASSUME TypeInv, NEW c \in Commands, at[c] = "snapshot", Confirmed(c)
  PROVE  Publication(c) \in Publications
<1> USE DEF TypeInv, TypeOK
<1>1. snap[c] \in Contents BY Whole DEF Confirmed
<1>2. report \in Reports BY DEF Has, Bound
<1>3. before[c] \in Approvals BY DEF Has, Bound
<1> QED BY <1>1, <1>2, <1>3 DEF Publication, Publications

LEMMA PreviewTypes ==
  ASSUME TypeInv, NEW c \in Commands, Preview(c)
  PROVE  TypeOK' /\ Has(c)'
<1>1. Leave(c) BY DEF Preview
<1>2. Publication(c) \in Publications BY PublicationIsOne DEF Preview
<1>3. previews' \subseteq Publications BY <1>2 DEF Preview, TypeInv, TypeOK
<1> QED
  BY <1>1, <1>3, LeaveTypes DEF Preview, TypeInv, TypeOK, projectVars, Reported

LEMMA UploadTypes ==
  ASSUME TypeInv, NEW c \in Commands, Upload(c)
  PROVE  TypeOK' /\ Has(c)'
<1>1. Leave(c) BY DEF Upload
<1>2. Publication(c) \in Publications BY PublicationIsOne DEF Upload
<1>3. uploads' \subseteq Publications BY <1>2 DEF Upload, TypeInv, TypeOK
<1> QED
  BY <1>1, <1>3, LeaveTypes DEF Upload, TypeInv, TypeOK, projectVars, Reported

LEMMA StepTypes ==
  ASSUME TypeInv, NEW c \in Commands, Step(c)
  PROVE  TypeInv'
<1>1. TypeOK' /\ Has(c)'
  BY StartTypes, ThrowTypes, ReadBeforeTypes, HashTypes, ParseTypes, IntentTypes, ReplayTypes,
     CompareTypes, WriteTypes, EndCheckTypes, BindTypes, ReadAfterTypes, CollectTypes,
     PreviewTypes, UploadTypes DEF Step
<1>2. ASSUME NEW d \in Commands, d # c PROVE Has(d)'
  BY <1>2, OthersStay, ProjectStays DEF TypeInv, Has
<1> QED BY <1>1, <1>2 DEF TypeInv

(* The agent, the owner and the clock leave commands alone. *)
LEMMA OutsideTypes ==
  ASSUME TypeInv, (\E f \in Files : Edit(f)) \/ ConfirmIntent \/ Approve \/ Tick
  PROVE  TypeInv'
<1> USE DEF TypeInv, TypeOK
<1>1. CASE \E f \in Files : Edit(f)
  <2>1. PICK f \in Files : Edit(f) BY <1>1
  <2>2. file[f] + 1 \in Versions
    BY <2>1, EvalPublishAssumption DEF Edit, Contents, Versions
  <2>3. file' \in Contents BY <2>1, <2>2 DEF Edit, Contents
  <2> QED
    BY <2>1, <2>3 DEF Edit, Has, shownVars, startVars, readVars, bundleVars
<1>2. CASE ConfirmIntent
  <2>1. file[1] \in Versions BY EvalPublishAssumption DEF Contents, Files
  <2>2. approval' \in Approvals BY <1>2, <2>1 DEF ConfirmIntent, Approvals
  <2> QED
    BY <1>2, <2>2 DEF ConfirmIntent, Has, shownVars, startVars, readVars, bundleVars
<1>3. CASE Approve
  <2>1. PICK p \in Printed :
          approval' = [approval EXCEPT !.final = [files |-> p.files, report |-> p.report, at |-> clock]]
    BY <1>3 DEF Approve
  <2>2. approval \in Approvals BY <1>3 DEF Approve
  <2>3. [files |-> p.files, report |-> p.report, at |-> clock] \in Finals
    BY DEF Printed, Finals
  <2>4. approval' \in Approvals BY <2>1, <2>2, <2>3 DEF Approvals
  <2> QED
    BY <1>3, <2>4 DEF Approve, Has, shownVars, startVars, readVars, bundleVars
<1>4. CASE Tick
  <2>1. clock' \in Times BY <1>4, EvalPublishAssumption DEF Tick, Times
  <2> QED
    BY <1>4, <2>1 DEF Tick, Has, shownVars, startVars, readVars, bundleVars
<1> QED BY <1>1, <1>2, <1>3, <1>4

LEMMA TypeNext == TypeInv /\ [Next]_vars => TypeInv'
<1> SUFFICES ASSUME TypeInv, [Next]_vars PROVE TypeInv'
  OBVIOUS
<1>1. CASE \E c \in Commands : Step(c) BY <1>1, StepTypes
<1>2. CASE (\E f \in Files : Edit(f)) \/ ConfirmIntent \/ Approve \/ Tick BY <1>2, OutsideTypes
<1>3. CASE UNCHANGED vars
  BY <1>3 DEF TypeInv, TypeOK, Has, vars, projectVars, shownVars, startVars, readVars, bundleVars
<1> QED BY <1>1, <1>2, <1>3 DEF Next
-----------------------------------------------------------------------------
(* What is previewed was replayed. *)

LEMMA Numbers ==
  /\ Versions \subseteq Nat /\ None \notin Versions
  /\ Times \subseteq Nat /\ None \notin Times
BY EvalPublishAssumption DEF Versions, Times

(* What commands hold of the artifacts, and the artifacts, are numbers. *)
LEMMA ReadsAreNumbers ==
  ASSUME TypeOK, NEW f \in Files
  PROVE  /\ file[f] \in Nat /\ file[f] # None
         /\ \A c \in Commands :
              /\ hashed[c][f] # None => hashed[c][f] \in Nat
              /\ used[c][f] # None => used[c][f] \in Nat
<1>1. file[f] \in Versions BY DEF TypeOK, Contents
<1>2. ASSUME NEW c \in Commands
      PROVE  hashed[c][f] \in Versions \cup {None} /\ used[c][f] \in Versions \cup {None}
  BY DEF TypeOK, Partial
<1> QED BY <1>1, <1>2, Numbers

LEMMA ReplayInit == Init => ReplayInv
BY DEF Init, ReplayInv, Older, Kept, Replayed, Unread, PreviewedWasReplayed

LEMMA LeaveReplay ==
  ASSUME TypeInv, NEW c \in Commands, Leave(c)
  PROVE  Older(c)' /\ Kept(c)'
BY DEF Leave, Goto, TypeInv, TypeOK, Older, Kept, Replayed, Unread

(* What the files had when it was hashed, they have now or had before. *)
LEMMA HashReplay ==
  ASSUME TypeInv, ReplayInv, NEW c \in Commands, Hash(c)
  PROVE  Older(c)' /\ Kept(c)'
<1> USE DEF TypeInv, TypeOK, projectVars, shownVars, startVars, bundleVars
<1>1. PICK f \in Files :
        /\ Reaches(c, f) /\ hashed[c][f] = None
        /\ hashed' = [hashed EXCEPT ![c][f] = file[f]]
        /\ used' = IF f \in ReadOnce THEN [used EXCEPT ![c][f] = file[f]] ELSE used
  BY DEF Hash
<1>2. file \in [Files -> Versions] /\ hashed[c] \in Partial /\ used[c] \in Partial
  BY DEF Contents
<1>3. at[c] = "read" /\ at'[c] = "read" /\ file' = file /\ snap' = snap
  BY <1>1 DEF Reaches, Hash
<1>4. used[c][f] = None BY <1>1 DEF Has
<1>5. ASSUME NEW g \in Files
      PROVE  /\ hashed'[c][g] = IF g = f THEN file[f] ELSE hashed[c][g]
             /\ used'[c][g] \in {used[c][g], hashed'[c][g]}
             /\ g # f => used'[c][g] = used[c][g]
  BY <1>1, <1>2 DEF Partial
<1>6. ASSUME NEW g \in Files
      PROVE  /\ hashed'[c][g] # None => hashed'[c][g] <= file[g]
             /\ used'[c][g] # None => hashed'[c][g] <= used'[c][g] /\ used'[c][g] <= file[g]
  <2>1. CASE g = f
    <3>1. file[f] \in Nat BY ReadsAreNumbers
    <3>2. hashed'[c][g] = file[g] /\ used'[c][g] \in {None, file[g]}
      BY <2>1, <1>4, <1>5
    <3> QED BY <2>1, <3>1, <3>2
  <2>2. CASE g # f
    BY <2>2, <1>5 DEF ReplayInv, Older
  <2> QED BY <2>1, <2>2
<1>7. Older(c)' BY <1>3, <1>6 DEF Older, ReplayInv
<1> QED BY <1>3, <1>7 DEF Kept, Replayed

LEMMA ParseReplay ==
  ASSUME TypeInv, ReplayInv, NEW c \in Commands, Parse(c)
  PROVE  Older(c)' /\ Kept(c)'
<1> USE DEF TypeInv, TypeOK, projectVars, shownVars, startVars, bundleVars
<1>1. PICK f \in Files :
        /\ Reaches(c, f) /\ hashed[c][f] # None
        /\ used' = [used EXCEPT ![c][f] = file[f]]
  BY DEF Parse
<1>2. file \in [Files -> Versions] /\ used[c] \in Partial
  BY DEF Contents
<1>3. /\ at[c] = "read" /\ at'[c] = "read" /\ file' = file /\ snap' = snap
      /\ hashed' = hashed
  BY <1>1 DEF Reaches, Parse
<1>4. ASSUME NEW g \in Files
      PROVE  used'[c][g] = IF g = f THEN file[f] ELSE used[c][g]
  BY <1>1, <1>2 DEF Partial
<1>5. ASSUME NEW g \in Files
      PROVE  used'[c][g] # None => hashed[c][g] <= used'[c][g] /\ used'[c][g] <= file[g]
  <2>1. CASE g = f
    <3>1. hashed[c][f] <= file[f] BY <1>1 DEF ReplayInv, Older
    <3>2. file[f] \in Nat BY ReadsAreNumbers
    <3> QED BY <2>1, <1>4, <3>1, <3>2
  <2>2. CASE g # f
    BY <2>2, <1>4 DEF ReplayInv, Older
  <2> QED BY <2>1, <2>2
<1>6. Older(c)' BY <1>3, <1>5 DEF Older, ReplayInv
<1> QED BY <1>3, <1>6 DEF Kept, Replayed

(* If the fixtures ran with other contents than were hashed, or with other ones *)
(* than the files have, then some artifact is newer than its hash.          *)
LEMMA ReplayReplay ==
  ASSUME TypeInv, ReplayInv, NEW c \in Commands, Replay(c)
  PROVE  Older(c)' /\ Kept(c)'
<1> USE DEF TypeInv, TypeOK
<1>1. /\ at[c] = "read" /\ at'[c] = "compare" /\ file' = file
      /\ snap' = snap /\ hashed' = hashed /\ used'[c] = Unread
  BY DEF Replay, projectVars, bundleVars, Goto
<1>2. Older(c)' BY <1>1 DEF Older, ReplayInv, Unread
<1>3. CASE hashed[c] = file
  <2>1. \A f \in Files : used[c][f] # None /\ hashed[c][f] # None
    BY DEF Replay, Has
  <2>2. ASSUME NEW f \in Files PROVE used[c][f] = file[f]
    <3>1. hashed[c][f] <= used[c][f] /\ used[c][f] <= file[f]
      BY <2>1 DEF ReplayInv, Older
    <3>2. used[c][f] \in Nat /\ file[f] \in Nat BY <2>1, ReadsAreNumbers
    <3> QED BY <3>1, <3>2, <1>3
  <2>3. used[c] = file
    BY <2>2, <1>3 DEF Contents, Partial
  <2> QED BY <2>3, <1>1, <1>2, <1>3 DEF Replay, Kept
<1>4. CASE hashed[c] # file
  <2>1. hashed[c] \in Contents
    BY Whole DEF Replay, Has
  <2>2. PICK f \in Files : hashed[c][f] # file[f]
    BY <2>1, <1>4 DEF Contents
  <2>3. hashed[c][f] # None BY DEF Replay, Has
  <2>4. hashed[c][f] < file[f] /\ snap[c][f] = None
    <3>1. hashed[c][f] <= file[f] BY <2>3 DEF ReplayInv, Older
    <3>2. hashed[c][f] \in Nat /\ file[f] \in Nat BY <2>3, ReadsAreNumbers
    <3>3. snap[c][f] = None BY <1>1 DEF ReplayInv, Older
    <3> QED BY <2>2, <3>1, <3>2, <3>3
  <2> QED BY <2>4, <1>1, <1>2 DEF Kept, Edited
<1> QED BY <1>3, <1>4

(* The snapshot does not get past an artifact that was edited. *)
LEMMA CollectReplay ==
  ASSUME TypeInv, ReplayInv, NEW c \in Commands, Collect(c)
  PROVE  Older(c)' /\ Kept(c)'
<1> USE DEF TypeInv, TypeOK
<1>1. PICK f \in Files :
        /\ snap[c][f] = None /\ file[f] = hashed[c][f]
        /\ snap' = [snap EXCEPT ![c][f] = file[f]]
  BY DEF Collect
<1>2. /\ at[c] = "snapshot" /\ at' = at /\ file' = file /\ hashed' = hashed
      /\ used' = used /\ replayed' = replayed
  BY DEF Collect, projectVars, readVars
<1>3. \A g \in Files : snap'[c][g] = IF g = f THEN file[f] ELSE snap[c][g]
  BY <1>1 DEF Partial
<1>4. Older(c)' BY <1>1, <1>2, <1>3 DEF Older, ReplayInv
<1>5. Edited(c) => Edited(c)'
  <2>1. SUFFICES ASSUME NEW g \in Files, hashed[c][g] < file[g], snap[c][g] = None
                 PROVE  Edited(c)'
    BY DEF Edited
  <2>2. file[f] \in Nat BY Numbers DEF Contents
  <2>3. g # f BY <1>1, <2>1, <2>2
  <2> QED BY <1>2, <1>3, <2>1, <2>3 DEF Edited
<1> QED BY <1>2, <1>4, <1>5 DEF Kept, ReplayInv

(* The snapshot is what was hashed. *)
LEMMA SnapshotWasHashed ==
  ASSUME TypeInv, ReplayInv, NEW c \in Commands, Confirmed(c)
  PROVE  snap[c] = hashed[c]
<1>1. snap[c] \in Partial /\ hashed[c] \in Partial BY DEF TypeInv, TypeOK
<1>2. \A f \in Files : snap[c][f] = hashed[c][f]
  BY DEF Confirmed, ReplayInv, Older
<1> QED BY <1>1, <1>2 DEF Partial

LEMMA PreviewReplay ==
  ASSUME TypeInv, ReplayInv, NEW c \in Commands, Preview(c)
  PROVE  PreviewedWasReplayed'
<1>1. snap[c] = hashed[c] BY SnapshotWasHashed DEF Preview
<1>2. ~ Edited(c) BY DEF Preview, Confirmed, Edited
<1>3. snap[c] \in replayed BY <1>1, <1>2 DEF ReplayInv, Kept, Preview, Replayed
<1> QED BY <1>3 DEF Preview, ReplayInv, PreviewedWasReplayed, Publication

LEMMA OnlyPreviewsShow ==
  ASSUME NEW c \in Commands, Step(c)
  PROVE  /\ Preview(c) \/ previews' = previews
         /\ Upload(c) \/ uploads' = uploads
BY DEF Step, Start, Throw, ReadBefore, Hash, Parse, Intent, Replay, Compare, Write, EndCheck,
   Bind, ReadAfter, Collect, Preview, Upload, shownVars

LEMMA StepReplay ==
  ASSUME TypeInv, ReplayInv, NEW c \in Commands, Step(c)
  PROVE  ReplayInv'
<1>1. ASSUME NEW d \in Commands, d # c PROVE Older(d)' /\ Kept(d)'
  BY <1>1, OthersStay, ProjectStays DEF TypeInv, ReplayInv, Older, Kept, Edited
<1>2. ASSUME Throw(c) \/ EndCheck(c) \/ Preview(c) \/ Upload(c)
      PROVE  Older(c)' /\ Kept(c)'
  BY <1>2, LeaveReplay DEF Throw, EndCheck, Preview, Upload
<1>3. ASSUME Start(c) \/ ReadBefore(c) \/ Intent(c)
      PROVE  Older(c)' /\ Kept(c)'
  <2>1. /\ file' = file /\ hashed' = hashed /\ used' = used /\ snap' = snap
        /\ at'[c] \in {"read", "before"} /\ at[c] # "snapshot"
    BY <1>3 DEF Start, ReadBefore, Intent, Goto, projectVars, readVars, bundleVars, TypeInv, TypeOK
  <2> QED BY <2>1 DEF ReplayInv, Older, Kept, Replayed
<1>4. ASSUME Compare(c) \/ Write(c) \/ Bind(c) \/ ReadAfter(c)
      PROVE  Older(c)' /\ Kept(c)'
  <2>1. /\ file' = file /\ hashed' = hashed /\ used' = used /\ snap' = snap
        /\ replayed' = replayed /\ at[c] \in Replayed /\ at[c] # "snapshot"
    BY <1>4 DEF Compare, Write, Bind, ReadAfter, projectVars, readVars, bundleVars, Replayed
  <2> QED BY <2>1 DEF ReplayInv, Older, Kept, Edited
<1>5. Older(c)' /\ Kept(c)'
  BY <1>2, <1>3, <1>4, HashReplay, ParseReplay, ReplayReplay, CollectReplay DEF Step
<1>6. PreviewedWasReplayed'
  <2>1. CASE Preview(c) BY <2>1, PreviewReplay
  <2>2. CASE ~ Preview(c)
    <3>1. previews' = previews BY <2>2, OnlyPreviewsShow
    <3> QED BY <3>1, ProjectStays DEF TypeInv, ReplayInv, PreviewedWasReplayed
  <2> QED BY <2>1, <2>2
<1> QED BY <1>1, <1>5, <1>6 DEF ReplayInv

(* An edit leaves an artifact newer than all that was read of it. *)
LEMMA EditReplay ==
  ASSUME TypeInv, ReplayInv, NEW f \in Files, Edit(f)
  PROVE  ReplayInv'
<1> USE DEF TypeInv, TypeOK, shownVars, readVars, bundleVars
<1>1. ASSUME NEW g \in Files
      PROVE  file[g] \in Nat /\ file'[g] \in Nat /\ file[g] <= file'[g]
  <2>1. file'[g] = IF g = f THEN file[f] + 1 ELSE file[g] BY DEF Edit, Contents
  <2> QED BY <2>1, ReadsAreNumbers
<1>2. \A c \in Commands, g \in Files :
        /\ hashed[c][g] # None => hashed[c][g] \in Nat
        /\ used[c][g] # None => used[c][g] \in Nat
  BY ReadsAreNumbers
<1>3. /\ at' = at /\ hashed' = hashed /\ used' = used /\ snap' = snap
      /\ replayed' = replayed /\ previews' = previews
  BY DEF Edit
<1>4. ASSUME NEW c \in Commands PROVE Older(c)'
  BY <1>1, <1>2, <1>3 DEF ReplayInv, Older
<1>5. ASSUME NEW c \in Commands PROVE Kept(c)'
  <2>1. CASE at[c] \notin Replayed BY <2>1, <1>3 DEF Kept
  <2>2. CASE hashed[c] \in replayed BY <2>2, <1>3 DEF Kept
  <2>3. CASE at[c] \in Replayed /\ Edited(c)
    <3>1. PICK g \in Files : hashed[c][g] < file[g] /\ snap[c][g] = None
      BY <2>3 DEF Edited
    <3>2. hashed[c][g] \in Nat
      BY <2>3, Numbers DEF Has, Contents
    <3>3. hashed[c][g] < file'[g] BY <3>1, <3>2, <1>1
    <3> QED BY <3>1, <3>3, <1>3 DEF Kept, Edited
  <2> QED BY <2>1, <2>2, <2>3 DEF ReplayInv, Kept
<1> QED BY <1>3, <1>4, <1>5 DEF ReplayInv, PreviewedWasReplayed

LEMMA ReplayNext == TypeInv /\ ReplayInv /\ [Next]_vars => ReplayInv'
<1> SUFFICES ASSUME TypeInv, ReplayInv, [Next]_vars PROVE ReplayInv'
  OBVIOUS
<1>1. CASE \E c \in Commands : Step(c) BY <1>1, StepReplay
<1>2. CASE \E f \in Files : Edit(f) BY <1>2, EditReplay
<1>3. CASE ConfirmIntent \/ Approve \/ Tick \/ UNCHANGED vars
  BY <1>3 DEF ConfirmIntent, Approve, Tick, vars, projectVars, shownVars, startVars, readVars,
     bundleVars, ReplayInv, Older, Kept, Edited, PreviewedWasReplayed
<1> QED BY <1>1, <1>2, <1>3 DEF Next

-----------------------------------------------------------------------------
(* What is previewed was approved. *)

(* The times of approvals, of reports and of the clock are numbers. *)
LEMMA TimesAreNumbers ==
  ASSUME TypeOK
  PROVE  /\ clock \in Nat
         /\ Final(approval) => approval.final.at \in Nat
         /\ \A c \in Commands :
              /\ Final(claimed[c]) => claimed[c].final.at \in Nat
              /\ result[c] # None => result[c].at \in Nat
<1>1. clock \in Times BY DEF TypeOK
<1>2. ASSUME NEW a \in Approvals \cup {None}, Final(a) PROVE a.final.at \in Times
  BY <1>2 DEF Final, Approvals, Finals
<1>3. ASSUME NEW c \in Commands, result[c] # None PROVE result[c].at \in Times
  BY <1>3 DEF TypeOK, Reports
<1> QED BY <1>1, <1>2, <1>3, Numbers DEF TypeOK

LEMMA ApprovalInit == Init => ApprovalInv
BY DEF Init, ApprovalInv, Final, Sees, Reported, PreviewedWasApproved, UploadedWasPreviewed

LEMMA LeaveApproval ==
  ASSUME TypeInv, NEW c \in Commands, Leave(c)
  PROVE  Sees(c)'
BY DEF Leave, Goto, TypeInv, TypeOK, Sees, Final, Reported

(* The permission is for a release that was previewed. *)
LEMMA StartApproval ==
  ASSUME TypeInv, ApprovalInv, NEW c \in Commands, Start(c)
  PROVE  Sees(c)'
<1>1. /\ approval' = approval /\ clock' = clock /\ claimed' = claimed /\ previews' = previews
      /\ at'[c] \in {"read", "before"}
      /\ expect'[c] \in {expect[c]} \cup previews
  BY DEF Start, Goto, TypeInv, TypeOK, projectVars, shownVars, readVars
<1> QED BY <1>1 DEF ApprovalInv, Sees, Reported, Final

LEMMA ReadApproval ==
  ASSUME TypeInv, ApprovalInv, NEW c \in Commands,
         ReadBefore(c) \/ Hash(c) \/ Parse(c) \/ Replay(c)
  PROVE  Sees(c)'
<1>1. /\ approval' = approval /\ clock' = clock /\ claimed' = claimed /\ previews' = previews
      /\ at'[c] \in {"read", "compare"} /\ expect' = expect
  BY DEF ReadBefore, Hash, Parse, Replay, Reaches, Goto, TypeInv, TypeOK, projectVars, shownVars,
         readVars, startVars
<1> QED BY <1>1 DEF ApprovalInv, Sees, Reported, Final

(* The approval that the check parses is the latest there is. *)
LEMMA IntentApproval ==
  ASSUME TypeInv, ApprovalInv, NEW c \in Commands, Intent(c)
  PROVE  Sees(c)'
<1>1. /\ approval' = approval /\ clock' = clock /\ claimed'[c] = approval /\ previews' = previews
      /\ at'[c] = "read" /\ expect' = expect /\ approval # None
  BY DEF Intent, TypeInv, TypeOK, projectVars, shownVars, startVars
<1>2. Final(approval) => approval.final.at \in Nat BY TimesAreNumbers DEF TypeInv
<1> QED BY <1>1, <1>2 DEF ApprovalInv, Sees, Reported, Final

(* A report that is kept says what the check has hashed. *)
LEMMA CompareApproval ==
  ASSUME TypeInv, ApprovalInv, NEW c \in Commands, Compare(c)
  PROVE  Sees(c)'
<1>1. /\ approval' = approval /\ clock' = clock /\ claimed' = claimed /\ previews' = previews
      /\ at'[c] \in {"bind", "write"} /\ expect' = expect /\ hashed' = hashed
  BY DEF Compare, Goto, TypeInv, TypeOK, projectVars, shownVars, startVars, readVars
<1>2. result'[c].files = hashed[c]
  BY DEF Compare, TypeInv, TypeOK
<1> QED BY <1>1, <1>2 DEF ApprovalInv, Sees, Final

LEMMA WriteApproval ==
  ASSUME TypeInv, ApprovalInv, NEW c \in Commands, Write(c)
  PROVE  Sees(c)'
<1>1. /\ approval' = approval /\ clock' = clock /\ claimed' = claimed /\ previews' = previews
      /\ at[c] = "write" /\ at'[c] = "bind" /\ expect' = expect /\ hashed' = hashed
      /\ result' = result
  BY DEF Write, Goto, TypeInv, TypeOK, shownVars, startVars, readVars, bundleVars
<1> QED BY <1>1 DEF ApprovalInv, Sees, Reported, Final

(* The final approval that binds is later than the report; so is every later   *)
(* one.                                                                    *)
LEMMA BindApproval ==
  ASSUME TypeInv, ApprovalInv, NEW c \in Commands, Bind(c)
  PROVE  Sees(c)'
<1>1. /\ approval' = approval /\ clock' = clock /\ claimed'[c] = None /\ previews' = previews
      /\ at[c] = "bind" /\ at'[c] = "after" /\ expect' = expect /\ hashed' = hashed
      /\ result' = result
  BY DEF Bind, Goto, TypeInv, TypeOK, projectVars, shownVars, startVars, bundleVars
<1>2. claimed[c] # None BY <1>1 DEF TypeInv, Has, Replayed, Bound
<1>3. Final(claimed[c]) /\ result[c].at < claimed[c].final.at
  BY <1>2 DEF Bind, Binds, Final
<1>4. result[c] # None BY <1>1 DEF TypeInv, TypeOK
<1>5. /\ clock \in Nat /\ claimed[c].final.at \in Nat /\ result[c].at \in Nat
      /\ Final(approval) => approval.final.at \in Nat
  BY <1>3, <1>4, TimesAreNumbers DEF TypeInv
<1>6. /\ claimed[c].final.at <= clock
      /\ Final(approval) => claimed[c].final.at <= approval.final.at
  BY <1>3 DEF ApprovalInv, Sees
<1>7. /\ result[c].at < clock
      /\ Final(approval) => result[c].at < approval.final.at
  BY <1>3, <1>5, <1>6
<1>8. result[c].files = hashed[c] BY <1>1 DEF ApprovalInv, Sees, Reported
<1>9. expect[c] # None => expect[c] \in previews BY DEF ApprovalInv, Sees
<1> QED BY <1>1, <1>7, <1>8, <1>9 DEF Sees, Final

LEMMA ReadAfterApproval ==
  ASSUME TypeInv, ApprovalInv, NEW c \in Commands, ReadAfter(c)
  PROVE  Sees(c)'
<1>1. /\ approval' = approval /\ clock' = clock /\ claimed' = claimed /\ previews' = previews
      /\ at[c] = "after" /\ at'[c] = "snapshot" /\ expect' = expect /\ hashed' = hashed
      /\ result' = result /\ before' = before /\ approval = before[c]
  BY DEF ReadAfter, Goto, TypeInv, TypeOK, projectVars, shownVars, startVars, readVars, bundleVars
<1> QED BY <1>1 DEF ApprovalInv, Sees, Reported, Final

LEMMA CollectApproval ==
  ASSUME TypeInv, ApprovalInv, NEW c \in Commands, Collect(c)
  PROVE  Sees(c)'
<1>1. /\ approval' = approval /\ clock' = clock /\ claimed' = claimed /\ previews' = previews
      /\ at' = at /\ expect' = expect /\ hashed' = hashed /\ result' = result /\ before' = before
  BY DEF Collect, projectVars, shownVars, startVars, readVars
<1> QED BY <1>1 DEF ApprovalInv, Sees, Final

(* The snapshot is what was hashed, so the report is of it; and the approval    *)
(* was the same before and after the check.                                *)
LEMMA PreviewApproval ==
  ASSUME TypeInv, ReplayInv, ApprovalInv, NEW c \in Commands, Preview(c)
  PROVE  PreviewedWasApproved'
<1> DEFINE p == Publication(c)
<1>1. at[c] = "snapshot" /\ Confirmed(c) /\ Valid(p)
  BY DEF Preview
<1>2. snap[c] = hashed[c] BY <1>1, SnapshotWasHashed
<1>3. p.files = snap[c] /\ p.report = result[c] /\ p.approval = before[c]
  BY <1>1 DEF Publication, Confirmed
<1>4. p.report.files = p.files
  BY <1>1, <1>2, <1>3 DEF ApprovalInv, Sees, Reported
<1>5. p.approval.intent = p.files[1]
  BY <1>1, <1>3 DEF Confirmed
<1>6. Final(before[c])
  BY <1>1, <1>3 DEF TypeInv, Has, Bound, Valid, Final
<1>7. p.approval.final.at > p.report.at
  BY <1>1, <1>3, <1>6 DEF ApprovalInv, Sees
<1>8. previews' = previews \cup {p}
  BY DEF Preview
<1> QED
  BY <1>1, <1>4, <1>5, <1>7, <1>8 DEF ApprovalInv, PreviewedWasApproved, Valid

LEMMA UploadApproval ==
  ASSUME TypeInv, ApprovalInv, NEW c \in Commands, Upload(c)
  PROVE  UploadedWasPreviewed'
<1>1. at[c] = "snapshot" /\ Confirmed(c) /\ Publication(c) = expect[c]
  BY DEF Upload
<1>2. Publication(c) # None BY <1>1, PublicationIsOne, EvalPublishAssumption
<1>3. Publication(c) \in previews BY <1>1, <1>2 DEF ApprovalInv, Sees
<1> QED BY <1>3 DEF Upload, ApprovalInv, UploadedWasPreviewed

LEMMA StepApproval ==
  ASSUME TypeInv, ReplayInv, ApprovalInv, NEW c \in Commands, Step(c)
  PROVE  ApprovalInv'
<1>1. ASSUME NEW d \in Commands, d # c PROVE Sees(d)'
  BY <1>1, OthersStay, ProjectStays DEF TypeInv, ApprovalInv, Sees, Final
<1>2. ASSUME Throw(c) \/ EndCheck(c) \/ Preview(c) \/ Upload(c)
      PROVE  Sees(c)'
  BY <1>2, LeaveApproval DEF Throw, EndCheck, Preview, Upload
<1>3. Sees(c)'
  BY <1>2, StartApproval, ReadApproval, IntentApproval, CompareApproval, WriteApproval,
     BindApproval, ReadAfterApproval, CollectApproval DEF Step
<1>4. PreviewedWasApproved'
  <2>1. CASE Preview(c) BY <2>1, PreviewApproval
  <2>2. CASE ~ Preview(c)
    <3>1. previews' = previews BY <2>2, OnlyPreviewsShow
    <3> QED BY <3>1 DEF ApprovalInv, PreviewedWasApproved
  <2> QED BY <2>1, <2>2
<1>5. UploadedWasPreviewed'
  <2>1. CASE Upload(c) BY <2>1, UploadApproval
  <2>2. CASE ~ Upload(c)
    <3>1. uploads' = uploads BY <2>2, OnlyPreviewsShow
    <3> QED BY <3>1, ProjectStays DEF TypeInv, ApprovalInv, UploadedWasPreviewed
  <2> QED BY <2>1, <2>2
<1>6. Final(approval)' => approval'.final.at <= clock'
  BY ProjectStays DEF TypeInv, ApprovalInv, Final
<1> QED BY <1>1, <1>3, <1>4, <1>5, <1>6 DEF ApprovalInv

(* Confirming an intent takes the final approval away; a final approval is of  *)
(* this moment, to which the clock never returns.                          *)
LEMMA OutsideApproval ==
  ASSUME TypeInv, ApprovalInv, (\E f \in Files : Edit(f)) \/ ConfirmIntent \/ Approve \/ Tick
  PROVE  ApprovalInv'
<1> USE DEF shownVars, startVars, readVars, bundleVars
<1>1. /\ at' = at /\ hashed' = hashed /\ result' = result /\ claimed' = claimed
      /\ before' = before /\ expect' = expect /\ previews' = previews /\ uploads' = uploads
  BY DEF Edit, ConfirmIntent, Approve, Tick
<1>2. PreviewedWasApproved' /\ UploadedWasPreviewed'
  BY <1>1 DEF ApprovalInv, PreviewedWasApproved, UploadedWasPreviewed
<1>3. TypeOK BY DEF TypeInv
<1>4. CASE \E f \in Files : Edit(f)
  BY <1>1, <1>2, <1>4 DEF Edit, ApprovalInv, Sees, Final
<1>5. CASE ConfirmIntent
  <2>1. approval' \in Approvals
    <3>1. file[1] \in Versions BY <1>3, EvalPublishAssumption DEF TypeOK, Contents, Files
    <3> QED BY <1>5, <3>1 DEF ConfirmIntent, Approvals
  <2>2. approval' # None /\ ~ Final(approval)' /\ clock' = clock
    BY <1>5, <2>1, EvalPublishAssumption DEF ConfirmIntent, Final
  <2> QED BY <1>1, <1>2, <2>2 DEF ApprovalInv, Sees, Final
<1>6. CASE Approve
  <2>1. approval # None /\ approval' # None /\ clock' = clock
        /\ Final(approval)' /\ approval'.final.at = clock
    <3>1. PICK p \in printed :
            approval' = [approval EXCEPT !.final = [files |-> p.files, report |-> p.report, at |-> clock]]
      BY <1>6 DEF Approve
    <3>2. approval \in Approvals /\ approval # None BY <1>3, <1>6 DEF Approve, TypeOK
    <3>3. [files |-> p.files, report |-> p.report, at |-> clock] \in Finals
      BY <1>3 DEF TypeOK, Printed, Finals
    <3>4. approval' \in Approvals /\ approval'.final \in Finals /\ approval'.final.at = clock
      BY <3>1, <3>2, <3>3 DEF Approvals
    <3> QED BY <1>6, <3>2, <3>4, EvalPublishAssumption DEF Approve, Final
  <2>2. clock \in Nat BY <1>3, TimesAreNumbers
  <2> QED BY <1>1, <1>2, <2>1, <2>2 DEF ApprovalInv, Sees, Final
<1>7. CASE Tick
  <2>1. approval' = approval /\ clock' = clock + 1 BY <1>7 DEF Tick
  <2>2. clock \in Nat /\ Final(approval) => approval.final.at \in Nat
    BY <1>3, TimesAreNumbers
  <2>3. Final(approval) => approval.final.at <= clock'
    BY <2>1, <1>3, TimesAreNumbers DEF ApprovalInv
  <2>4. ASSUME NEW c \in Commands PROVE Sees(c)'
    <3>1. Final(claimed[c]) => claimed[c].final.at <= clock'
      BY <2>1, <1>3, TimesAreNumbers DEF ApprovalInv, Sees
    <3>2. at[c] = "after" => result[c].at < clock'
      <4>1. at[c] = "after" => result[c] # None BY <1>3 DEF TypeOK
      <4> QED BY <4>1, <2>1, <1>3, TimesAreNumbers DEF ApprovalInv, Sees
    <3> QED BY <1>1, <2>1, <3>1, <3>2 DEF ApprovalInv, Sees, Final
  <2> QED BY <1>2, <2>1, <2>3, <2>4 DEF ApprovalInv, Final
<1> QED BY <1>4, <1>5, <1>6, <1>7

LEMMA ApprovalNext == TypeInv /\ ReplayInv /\ ApprovalInv /\ [Next]_vars => ApprovalInv'
<1> SUFFICES ASSUME TypeInv, ReplayInv, ApprovalInv, [Next]_vars PROVE ApprovalInv'
  OBVIOUS
<1>1. CASE \E c \in Commands : Step(c) BY <1>1, StepApproval
<1>2. CASE (\E f \in Files : Edit(f)) \/ ConfirmIntent \/ Approve \/ Tick BY <1>2, OutsideApproval
<1>3. CASE UNCHANGED vars
  BY <1>3 DEF vars, projectVars, shownVars, startVars, readVars, bundleVars, ApprovalInv, Sees,
     Final, PreviewedWasApproved, UploadedWasPreviewed
<1> QED BY <1>1, <1>2, <1>3 DEF Next

-----------------------------------------------------------------------------

LEMMA InvHolds == Spec => []Inv
<1>1. Init => Inv BY TypeInit, ReplayInit, ApprovalInit DEF Inv
<1>2. Inv /\ [Next]_vars => Inv' BY TypeNext, ReplayNext, ApprovalNext DEF Inv
<1> QED BY <1>1, <1>2, PTL DEF Spec

(* Every variable of the checks and publications keeps its type, and a command *)
(* that got past the comparison of reports has a report to return.          *)
THEOREM TypeCorrect == Spec => []TypeOK
<1>1. Inv => TypeOK BY DEF Inv, TypeInv
<1> QED BY <1>1, InvHolds, PTL

(* Whatever the agent edits and the owner approves meanwhile, and however many *)
(* checks and publications overlap: a release that a preview shows is one    *)
(* state of the project, with which the fixtures have passed while the        *)
(* project was in it, and its approval is of it and later than its report;   *)
(* and no other release is ever uploaded.                                  *)
THEOREM UploadsStaySound == Spec => []UploadsAreSound
<1>1. Inv => UploadsAreSound BY DEF Inv, ReplayInv, ApprovalInv, UploadsAreSound
<1> QED BY <1>1, InvHolds, PTL
=============================================================================
