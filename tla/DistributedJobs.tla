-------------------------- MODULE DistributedJobs --------------------------
(***************************************************************************)
(* The mutations of the distributed rollout hub                            *)
(* (src/apps/distributed-training/convex/jobs.ts).  Each runs as one        *)
(* transaction, so an action is a whole mutation; the hazards are sequences *)
(* of legal calls.  A worker claims part of a job, submits rollouts, with   *)
(* or without naming a claim, and may release its claim.                   *)
(***************************************************************************)
EXTENDS Integers, FiniteSets

CONSTANTS
  Jobs,            \* job documents that are ever created
  Slug,            \* Slug[j]: the slug that j is created with
  Target,          \* Target[j]: its targetRollouts
  Claims,          \* claim documents that are ever created
  Sizes,           \* rollout counts that workers claim and submit, negative ones too
  MaxSubmissions,  \* bound: calls of submit
  None

(* v.number() checks neither sign nor bounds.  Fractions are left out: only   *)
(* order, sum and sign of the counts matter.                               *)
ASSUME DistributedJobsAssumption ==
  /\ DOMAIN Slug = Jobs
  /\ Target \in [Jobs -> Int]
  /\ IsFiniteSet(Claims)
  /\ Sizes \subseteq Int
  /\ MaxSubmissions \in Nat
  /\ None \notin Jobs \cup Claims

VARIABLES
  job,         \* job[j]: its mutable fields
  claim,       \* claim[c]: the document of claim c
  submissions, \* the documents of the submissions
  completedBy  \* history: claims that were active when they became submitted

vars == <<job, claim, submissions, completedBy>>

Statuses == {"absent", "open", "running", "complete", "removed"}
NoClaim == [job |-> None, status |-> "absent", target |-> 0, submitted |-> 0]
Exists(j) == job[j].status # "absent"
ClaimsOf(j, status) == {c \in Claims : claim[c].job = j /\ claim[c].status = status}

Init ==
  /\ job = [j \in Jobs |-> [status |-> "absent", completed |-> 0, active |-> 0]]
  /\ claim = [c \in Claims |-> NoClaim]
  /\ submissions = {}
  /\ completedBy = {}

Create(j) ==
  /\ ~Exists(j)
  /\ \A other \in Jobs : Exists(other) => Slug[other] # Slug[j]
  /\ job' = [job EXCEPT ![j] = [status |-> "open", completed |-> 0, active |-> 0]]
  /\ UNCHANGED <<claim, submissions, completedBy>>

ClaimableAgain(j) == job[j].status \notin {"absent", "removed"}

Claimable(j) == job[j].status \in {"open", "running"}

(* claim: a finished or removed job takes no more workers. *)
ClaimJob(j, c, n) ==
  /\ Claimable(j) /\ claim[c] = NoClaim
  /\ claim' = [claim EXCEPT ![c] = [job |-> j, status |-> "active", target |-> n, submitted |-> 0]]
  /\ job' = [job EXCEPT ![j].status = "running", ![j].active = @ + 1]
  /\ UNCHANGED <<submissions, completedBy>>

(* What releaseClaim and submit make of the status of a job, a removed one    *)
(* included where the caller does not look.                                *)
StatusFor(j, completed, active) ==
  IF completed >= Target[j] THEN "complete" ELSE IF active > 0 THEN "running" ELSE "open"

AtLeastZero(n) == IF n < 0 THEN 0 ELSE n

Release(c) ==
  /\ claim' = [claim EXCEPT ![c].status = "released"]
  /\ LET j == claim[c].job
         active == AtLeastZero(job[j].active - 1) IN
       job' = [job EXCEPT ![j].active = active,
                          ![j].status = StatusFor(j, job[j].completed, active)]
  /\ UNCHANGED <<submissions, completedBy>>

ReleaseAgain(c) == claim[c].status \in {"active", "submitted"} /\ Release(c)

ReleaseClaim(c) == claim[c].status = "active" /\ Release(c)

(* submit: the claim may be one of another job, or released; a claim whose   *)
(* target is met becomes submitted, and the job does not count it out.      *)
CountTowards(c, n) ==
  IF c = None THEN UNCHANGED <<claim, completedBy>>
  ELSE LET submitted == claim[c].submitted + n
           met == submitted >= claim[c].target IN
       /\ claim' = [claim EXCEPT ![c].submitted = submitted,
                                 ![c].status = IF met THEN "submitted" ELSE @]
       /\ completedBy' = IF met /\ claim[c].status = "active" THEN completedBy \cup {c}
                                                              ELSE completedBy

Record(j, c, n) ==
  submissions' = submissions \cup
    {[id |-> Cardinality(submissions), job |-> j, claim |-> c, count |-> n]}

AcceptingAny(j) == Exists(j)

Accepting(j) == Exists(j) /\ job[j].status # "removed"

Submit(j, c, n) ==
  /\ Accepting(j)
  /\ Record(j, c, n)
  /\ LET completed == job[j].completed + n IN
       job' = [job EXCEPT ![j].completed = completed,
                          ![j].status = StatusFor(j, completed, job[j].active)]
  /\ CountTowards(c, n)

Remove(j) ==
  /\ Exists(j)
  /\ job' = [job EXCEPT ![j].status = "removed"]
  /\ UNCHANGED <<claim, submissions, completedBy>>

Next ==
  \/ \E j \in Jobs : Create(j) \/ Remove(j)
  \/ \E j \in Jobs, c \in Claims, n \in Sizes : ClaimJob(j, c, n)
  \/ \E c \in Claims : ReleaseClaim(c)
  \/ /\ Cardinality(submissions) < MaxSubmissions
     /\ \E j \in Jobs, c \in {d \in Claims : claim[d] # NoClaim} \cup {None}, n \in Sizes :
          Submit(j, c, n)

Spec == Init /\ [][Next]_vars
-----------------------------------------------------------------------------
(* Properties. *)

JobDocs == [status : Statuses, completed : Int, active : Nat]
ClaimDocs == [job : Jobs, status : {"active", "submitted", "released"},
              target : Sizes, submitted : Int]

(* The numbers of the documents stand for their fresh ids. *)
SubmissionsTyped ==
  /\ IsFiniteSet(submissions)
  /\ submissions \subseteq [id : 0..(Cardinality(submissions) - 1), job : Jobs,
                            claim : Claims \cup {None}, count : Sizes]

TypeOK ==
  /\ job \in [Jobs -> JobDocs]
  /\ claim \in [Claims -> ClaimDocs \cup {NoClaim}]
  /\ \A c \in Claims : claim[c] # NoClaim => Exists(claim[c].job)
  /\ completedBy \subseteq {c \in Claims : claim[c].status = "submitted"}
  /\ SubmissionsTyped
  /\ \A s \in submissions : Exists(s.job)

(* The count of active claims that a job keeps is never below the number of   *)
(* its active claims, and above it by exactly those that submit found met     *)
(* while they were active and never counted out: no release, repeated, late   *)
(* or after a submission, and no other submission moves it.                 *)
Counted(j) == {c \in Claims : claim[c].job = j /\ (claim[c].status = "active" \/ c \in completedBy)}
ActiveCounted == \A j \in Jobs : job[j].active = Cardinality(Counted(j))

(* Whatever the order of claims, releases and submissions, a job that is     *)
(* listed shows the status that its counts call for, and so takes workers    *)
(* just as long as rollouts are missing.  Only a job that was created with   *)
(* nothing to do takes them before the first submission or release, since    *)
(* neither create nor claim looks at the counts.                           *)
Untouched(j) == job[j].completed = 0 /\ \A s \in submissions : s.job # j
Current(j) ==
  \/ job[j].status = StatusFor(j, job[j].completed, job[j].active)
  \/ /\ Target[j] <= 0 /\ Untouched(j)
     /\ job[j].status = IF job[j].active > 0 THEN "running" ELSE "open"
StatusCurrent ==
  \A j \in Jobs : Exists(j) /\ job[j].status # "removed" => Current(j)

(* Both: after every sequence of mutations the counts and the status of a job *)
(* are what its claims and submissions have made them.                      *)
JobsAgree == ActiveCounted /\ StatusCurrent

(* A removed job comes back only through a claim that was still active.      *)
RemovedForGood ==
  [][\A j \in Jobs : job[j].status = "removed" /\ ClaimsOf(j, "active") = {}
                       => job'[j].status = "removed"]_vars

(* A job that is over, complete or removed with its rollouts, stays so and     *)
(* keeps its rollouts, whatever is submitted, released or removed later; only *)
(* a submission of a negative count takes rollouts back.  While it is over    *)
(* it gets no more workers.                                                *)
Over(j) ==
  \/ job[j].status = "complete"
  \/ job[j].status = "removed" /\ job[j].completed >= Target[j]
TakenBack(j) == \E s \in submissions' \ submissions : s.job = j /\ s.count < 0
OverUnlessTakenBack ==
  [][\A j \in Jobs : Over(j) =>
       /\ \/ Over(j)' /\ job'[j].completed >= job[j].completed
          \/ TakenBack(j)
       /\ ClaimsOf(j, "active")' \subseteq ClaimsOf(j, "active")]_vars

(* Both: a job leaves its end only by an active claim or by rollouts that are  *)
(* taken back.                                                             *)
EndsHold == RemovedForGood /\ OverUnlessTakenBack
=============================================================================
