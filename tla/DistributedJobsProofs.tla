----------------------- MODULE DistributedJobsProofs -----------------------
(***************************************************************************)
(* What DistributedJobs promises for any jobs, claims and counts: its        *)
(* bookkeeping of active claims and of statuses, over every sequence of      *)
(* mutations.                                                              *)
(***************************************************************************)
EXTENDS DistributedJobs, FiniteSetTheorems, TLAPS

Inv == TypeOK /\ ActiveCounted /\ StatusCurrent

-----------------------------------------------------------------------------
(* Lemmas. *)

LEMMA CountedFinite == \A j \in Jobs : IsFiniteSet(Counted(j))
<1>1. IsFiniteSet(Claims) BY DistributedJobsAssumption
<1> QED BY <1>1, FS_Subset DEF Counted

(* What a claim that counts is, and one that exists. *)
LEMMA ClaimFacts ==
  ASSUME TypeOK, NEW c \in Claims
  PROVE  /\ claim[c] # NoClaim => claim[c] \in ClaimDocs
         /\ claim[c] \in ClaimDocs => claim[c] # NoClaim /\ claim[c].status # "absent"
         /\ NoClaim.status = "absent" /\ NoClaim.job = None
         /\ c \in completedBy => claim[c].status = "submitted"
BY DEF TypeOK, ClaimDocs, NoClaim

LEMMA StatusForType ==
  ASSUME NEW j \in Jobs, NEW completed \in Int, NEW active \in Nat
  PROVE  StatusFor(j, completed, active) \in Statuses \ {"absent", "removed"}
BY DEF StatusFor, Statuses

(* A mutation of one job leaves the statuses of the others current. *)
LEMMA StatusCurrentNext ==
  ASSUME StatusCurrent, NEW j \in Jobs, \A k \in Jobs \ {j} : job'[k] = job[k],
         \A s \in submissions' : s \in submissions \/ s.job = j,
         job'[j].status \notin {"absent", "removed"} => Current(j)'
  PROVE  StatusCurrent'
<1> SUFFICES ASSUME NEW k \in Jobs, Exists(k)', job'[k].status # "removed" PROVE Current(k)'
  BY DEF StatusCurrent
<1>1. CASE k = j BY <1>1 DEF Exists
<1>2. CASE k # j
  <2>1. job'[k] = job[k] /\ (Untouched(k) => Untouched(k)') BY <1>2 DEF Untouched
  <2>2. Current(k) BY <2>1 DEF StatusCurrent, Exists
  <2> QED BY <2>1, <2>2 DEF Current, StatusFor
<1> QED BY <1>1, <1>2

(* A submission is a new document. *)
LEMMA RecordFacts ==
  ASSUME SubmissionsTyped, NEW j \in Jobs, NEW c \in Claims \cup {None}, NEW n \in Sizes,
         Record(j, c, n)
  PROVE  /\ SubmissionsTyped'
         /\ \A s \in submissions' : s \in submissions \/ s.job = j
         /\ \E s \in submissions' \ submissions : s.job = j /\ s.count = n
<1> DEFINE size == Cardinality(submissions)
           new == [id |-> size, job |-> j, claim |-> c, count |-> n]
<1>1. size \in Nat BY FS_CardinalityType DEF SubmissionsTyped
<1>2. new \notin submissions
  <2>1. \A s \in submissions : s.id \in 0..(size - 1) BY DEF SubmissionsTyped
  <2>2. new.id \notin 0..(size - 1) BY <1>1
  <2> QED BY <2>1, <2>2
<1>3. IsFiniteSet(submissions') /\ Cardinality(submissions') = size + 1
  BY <1>2, FS_AddElement DEF SubmissionsTyped, Record
<1>4. \A i \in 0..(size - 1) : i \in 0..size BY <1>1
<1>5. submissions' \subseteq [id : 0..size, job : Jobs, claim : Claims \cup {None}, count : Sizes]
  <2>1. size \in 0..size BY <1>1
  <2>2. new \in [id : 0..size, job : Jobs, claim : Claims \cup {None}, count : Sizes] BY <2>1
  <2> QED BY <1>4, <2>2 DEF SubmissionsTyped, Record
<1>6. Cardinality(submissions') - 1 = size BY <1>1, <1>3
<1>7. SubmissionsTyped' BY <1>3, <1>5, <1>6 DEF SubmissionsTyped
<1>8. submissions' = submissions \cup {new} /\ new.job = j /\ new.count = n BY DEF Record
<1> HIDE DEF new
<1> QED BY <1>2, <1>7, <1>8

LEMMA InitInv == Init => Inv
<1> SUFFICES ASSUME Init PROVE Inv OBVIOUS
<1>1. TypeOK
  <2>1. SubmissionsTyped BY FS_EmptySet DEF Init, SubmissionsTyped
  <2> QED BY <2>1 DEF Init, TypeOK, Statuses, NoClaim, JobDocs
<1>2. \A j \in Jobs : Counted(j) = {}
  BY DistributedJobsAssumption DEF Init, Counted, NoClaim
<1>3. ActiveCounted BY <1>2, FS_EmptySet DEF Init, ActiveCounted
<1>4. StatusCurrent BY DEF Init, StatusCurrent, Exists
<1> QED BY <1>1, <1>3, <1>4 DEF Inv

(* The actions, one by one. *)

LEMMA CreateInv ==
  ASSUME Inv, NEW j \in Jobs, Create(j)
  PROVE  Inv'
<1> USE DEF Inv
<1>1. job'[j] = [status |-> "open", completed |-> 0, active |-> 0]
  BY DEF Create, TypeOK
<1>2. \A k \in Jobs \ {j} : job'[k] = job[k] BY DEF Create, TypeOK
<1>3. UNCHANGED <<claim, completedBy, submissions>> BY DEF Create
<1>4. \A c \in Claims : claim[c].job # j
  BY ClaimFacts, DistributedJobsAssumption DEF TypeOK, Create, Exists
<1>5. TypeOK'
  <2>1. job' \in [Jobs -> JobDocs] BY DEF Create, TypeOK, Statuses, JobDocs
  <2>2. \A c \in Claims : claim[c] # NoClaim => Exists(claim[c].job)'
    <3> SUFFICES ASSUME NEW c \in Claims, claim[c] # NoClaim PROVE Exists(claim[c].job)'
      OBVIOUS
    <3>1. claim[c].job \in Jobs \ {j} BY <1>4, ClaimFacts DEF ClaimDocs
    <3> QED BY <3>1, <1>2, <1>3 DEF TypeOK, Exists
  <2>3. SubmissionsTyped' BY <1>3 DEF TypeOK, SubmissionsTyped
  <2>4. \A s \in submissions : Exists(s.job)'
    BY <1>1, <1>2 DEF TypeOK, SubmissionsTyped, Exists
  <2> QED BY <2>1, <2>2, <2>3, <2>4, <1>3 DEF TypeOK
<1>6. ActiveCounted'
  <2>1. Counted(j) = {} BY <1>4 DEF Counted
  <2>2. \A k \in Jobs : Counted(k)' = Counted(k) BY <1>3 DEF Counted
  <2>3. job'[j].active = Cardinality(Counted(j)') BY <2>1, <2>2, <1>1, FS_EmptySet
  <2>4. \A k \in Jobs \ {j} : job'[k].active = Cardinality(Counted(k)')
    BY <1>2, <2>2 DEF ActiveCounted
  <2> QED BY <2>3, <2>4 DEF ActiveCounted
<1>7. StatusCurrent'
  <2>1. CASE Target[j] > 0
    <3>1. StatusFor(j, 0, 0) = "open" BY <2>1, DistributedJobsAssumption DEF StatusFor
    <3>2. Current(j)' BY <1>1, <3>1 DEF Current, StatusFor
    <3> QED BY <1>2, <1>3, <3>2, StatusCurrentNext
  <2>2. CASE Target[j] <= 0
    <3>1. \A s \in submissions : s.job # j BY DEF Create, TypeOK
    <3>2. Current(j)' BY <1>1, <1>3, <2>2, <3>1 DEF Current, Untouched
    <3> QED BY <1>2, <1>3, <3>2, StatusCurrentNext
  <2> QED BY <2>1, <2>2, DistributedJobsAssumption
<1> QED BY <1>5, <1>6, <1>7

LEMMA RemoveInv ==
  ASSUME Inv, NEW j \in Jobs, Remove(j)
  PROVE  Inv'
<1> USE DEF Inv
<1>1. job[j] \in JobDocs BY DEF TypeOK
<1>2. /\ job'[j] \in JobDocs /\ job'[j].status = "removed" /\ job'[j].active = job[j].active
  BY <1>1 DEF Remove, TypeOK, JobDocs, Statuses
<1>3. \A k \in Jobs \ {j} : job'[k] = job[k] BY DEF Remove, TypeOK
<1>4. UNCHANGED <<claim, completedBy, submissions>> BY DEF Remove
<1>5. TypeOK'
  <2>1. job' \in [Jobs -> JobDocs] BY <1>2 DEF Remove, TypeOK
  <2>2. \A c \in Claims : claim[c] # NoClaim => Exists(claim[c].job)'
    BY <1>2, <1>3, <1>4, ClaimFacts DEF TypeOK, Exists, ClaimDocs
  <2>3. SubmissionsTyped' BY <1>4 DEF TypeOK, SubmissionsTyped
  <2>4. \A s \in submissions : Exists(s.job)'
    BY <1>2, <1>3 DEF TypeOK, SubmissionsTyped, Exists
  <2> QED BY <2>1, <2>2, <2>3, <2>4, <1>4 DEF TypeOK
<1>6. ActiveCounted'
  <2>1. \A k \in Jobs : Counted(k)' = Counted(k) BY <1>4 DEF Counted
  <2> QED BY <2>1, <1>2, <1>3 DEF ActiveCounted
<1>7. StatusCurrent' BY <1>2, <1>3, <1>4, StatusCurrentNext
<1> QED BY <1>5, <1>6, <1>7

LEMMA ClaimInv ==
  ASSUME Inv, NEW j \in Jobs, NEW c \in Claims, NEW n \in Sizes, ClaimJob(j, c, n)
  PROVE  Inv'
<1> USE DEF Inv
<1> DEFINE new == [job |-> j, status |-> "active", target |-> n, submitted |-> 0]
<1>1. job[j] \in JobDocs /\ job[j].status \in {"open", "running"} /\ claim[c] = NoClaim
  BY DEF TypeOK, ClaimJob, Claimable
<1>2. job'[j] = [status |-> "running", completed |-> job[j].completed, active |-> job[j].active + 1]
  BY <1>1 DEF ClaimJob, TypeOK, JobDocs
<1>3. \A k \in Jobs \ {j} : job'[k] = job[k] BY DEF ClaimJob, TypeOK
<1>4. claim'[c] = new /\ completedBy' = completedBy /\ submissions' = submissions
  BY DEF ClaimJob, TypeOK
<1>5. \A d \in Claims \ {c} : claim'[d] = claim[d] BY DEF ClaimJob, TypeOK
<1>6. c \notin completedBy BY <1>1, ClaimFacts
<1>7. TypeOK'
  <2>1. job' \in [Jobs -> JobDocs]
    BY <1>1, <1>2 DEF ClaimJob, TypeOK, JobDocs, Statuses
  <2>2. new \in ClaimDocs BY DEF ClaimDocs
  <2>3. claim' \in [Claims -> ClaimDocs \cup {NoClaim}] BY <2>2 DEF ClaimJob, TypeOK
  <2>4. \A d \in Claims : claim'[d] # NoClaim => job'[claim'[d].job].status # "absent"
    <3>1. \A k \in Jobs : job[k].status # "absent" => job'[k].status # "absent"
      BY <1>2, <1>3
    <3>2. job'[j].status # "absent" BY <1>2
    <3>3. \A d \in Claims \ {c} : claim'[d] # NoClaim =>
            claim'[d].job \in Jobs /\ job[claim'[d].job].status # "absent"
      BY <1>5, ClaimFacts DEF TypeOK, ClaimDocs, Exists
    <3>4. claim'[c].job = j BY <1>4
    <3> QED BY <3>1, <3>2, <3>3, <3>4
  <2>5. completedBy' \subseteq {d \in Claims : claim'[d].status = "submitted"}
    BY <1>4, <1>5, <1>6 DEF TypeOK
  <2>6. SubmissionsTyped' BY <1>4 DEF TypeOK, SubmissionsTyped
  <2>7. \A s \in submissions : Exists(s.job)'
    BY <1>2, <1>3 DEF TypeOK, SubmissionsTyped, Exists
  <2> QED BY <2>1, <2>3, <2>4, <2>5, <2>6, <2>7, <1>4 DEF TypeOK, Exists
<1>8. ActiveCounted'
  <2>1. Counted(j)' = Counted(j) \cup {c} BY <1>4, <1>5 DEF Counted
  <2>2. c \notin Counted(j) BY <1>1, ClaimFacts, DistributedJobsAssumption DEF Counted
  <2>3. Cardinality(Counted(j) \cup {c}) = Cardinality(Counted(j)) + 1
    BY <2>2, CountedFinite, FS_AddElement
  <2>4. \A k \in Jobs \ {j} : Counted(k)' = Counted(k)
    BY <1>1, <1>4, <1>5, <1>6, ClaimFacts, DistributedJobsAssumption DEF Counted
  <2>5. job[j].active = Cardinality(Counted(j)) BY DEF ActiveCounted
  <2>6. job'[j].active = Cardinality(Counted(j)') BY <2>1, <2>3, <2>5, <1>2
  <2>7. \A k \in Jobs \ {j} : job'[k].active = Cardinality(Counted(k)')
    BY <2>4, <1>3 DEF ActiveCounted
  <2> QED BY <2>6, <2>7 DEF ActiveCounted
<1>9. StatusCurrent'
  <2>1. Current(j) /\ job[j].active + 1 > 0 /\ job'[j].active = job[j].active + 1
    BY <1>1, <1>2 DEF StatusCurrent, Exists, JobDocs
  <2>2. CASE job[j].status = StatusFor(j, job[j].completed, job[j].active)
    <3>1. ~(job[j].completed >= Target[j]) BY <1>1, <2>2 DEF StatusFor
    <3>2. StatusFor(j, job[j].completed, job[j].active + 1) = "running"
      BY <2>1, <3>1 DEF StatusFor
    <3>3. Current(j)' BY <1>2, <3>2 DEF Current, StatusFor
    <3> QED BY <1>3, <1>4, <3>3, StatusCurrentNext
  <2>3. CASE Target[j] <= 0 /\ Untouched(j)
    <3>1. Untouched(j)' BY <1>2, <1>4, <2>3 DEF Untouched
    <3>2. Current(j)' BY <1>2, <2>1, <2>3, <3>1 DEF Current
    <3> QED BY <1>3, <1>4, <3>2, StatusCurrentNext
  <2> QED BY <2>1, <2>2, <2>3 DEF Current
<1> QED BY <1>7, <1>8, <1>9

(* Release, of an active claim. *)
LEMMA ReleaseInv ==
  ASSUME Inv, NEW c \in Claims, ReleaseClaim(c)
  PROVE  Inv'
<1> USE DEF Inv
<1>1. claim[c] \in ClaimDocs /\ claim[c].status = "active" /\ c \notin completedBy
  BY ClaimFacts DEF ReleaseClaim, TypeOK, NoClaim
<1> PICK j \in Jobs : claim[c].job = j BY <1>1 DEF ClaimDocs
<1> DEFINE active == job[j].active - 1
<1>2. Exists(j) /\ job[j] \in JobDocs BY <1>1, ClaimFacts DEF TypeOK
<1>3. c \in Counted(j) BY <1>1 DEF Counted
<1>4. Cardinality(Counted(j)) \in Nat /\ Cardinality(Counted(j) \ {c}) = Cardinality(Counted(j)) - 1
  BY <1>2, <1>3, CountedFinite, FS_RemoveElement, FS_CardinalityType
<1>5. active \in Nat /\ AtLeastZero(active) = active
  <2>1. Cardinality(Counted(j) \ {c}) \in Nat
    BY <1>2, CountedFinite, FS_Subset, FS_CardinalityType
  <2> QED BY <2>1, <1>2, <1>4 DEF ActiveCounted, AtLeastZero
<1>6. /\ job'[j].completed = job[j].completed /\ job'[j].active = active
      /\ job'[j].status = StatusFor(j, job[j].completed, active)
      /\ job'[j] \in JobDocs /\ job'[j].status \notin {"absent", "removed"}
  <2>1. job[j].completed \in Int BY <1>2 DEF JobDocs
  <2>2. StatusFor(j, job[j].completed, active) \in Statuses \ {"absent", "removed"}
    BY <1>2, <1>5, <2>1, StatusForType
  <2>3. job' = [job EXCEPT ![j].active = active,
                           ![j].status = StatusFor(j, job[j].completed, active)]
    BY <1>5 DEF ReleaseClaim, Release
  <2> QED BY <1>2, <1>5, <2>2, <2>3 DEF TypeOK, JobDocs
<1>7. \A k \in Jobs \ {j} : job'[k] = job[k] BY DEF ReleaseClaim, Release, TypeOK
<1>8. /\ claim'[c] = [claim[c] EXCEPT !.status = "released"]
      /\ completedBy' = completedBy /\ submissions' = submissions
  BY DEF ReleaseClaim, Release, TypeOK
<1>9. \A d \in Claims \ {c} : claim'[d] = claim[d] BY DEF ReleaseClaim, Release, TypeOK
<1>10. claim'[c] \in ClaimDocs /\ claim'[c].job = j /\ claim'[c].status = "released"
  BY <1>1, <1>8 DEF ClaimDocs
<1>11. TypeOK'
  <2>1. job' \in [Jobs -> JobDocs] BY <1>6, <1>7 DEF ReleaseClaim, Release, TypeOK
  <2>2. claim' \in [Claims -> ClaimDocs \cup {NoClaim}]
    BY <1>10, <1>9 DEF ReleaseClaim, Release, TypeOK
  <2>3. \A d \in Claims : claim'[d] # NoClaim => job'[claim'[d].job].status # "absent"
    <3>1. \A k \in Jobs : job[k].status # "absent" => job'[k].status # "absent"
      BY <1>6, <1>7
    <3>2. \A d \in Claims \ {c} : claim'[d] # NoClaim =>
            claim'[d].job \in Jobs /\ job[claim'[d].job].status # "absent"
      BY <1>9, ClaimFacts DEF TypeOK, ClaimDocs, Exists
    <3> QED BY <1>6, <1>10, <3>1, <3>2
  <2>4. completedBy' \subseteq {d \in Claims : claim'[d].status = "submitted"}
    BY <1>1, <1>8, <1>9 DEF TypeOK
  <2>5. SubmissionsTyped' BY <1>8 DEF TypeOK, SubmissionsTyped
  <2>6. \A s \in submissions : Exists(s.job)'
    BY <1>6, <1>7 DEF TypeOK, SubmissionsTyped, Exists
  <2> QED BY <2>1, <2>2, <2>3, <2>4, <2>5, <2>6, <1>8 DEF TypeOK, Exists
<1>12. ActiveCounted'
  <2>1. Counted(j)' = Counted(j) \ {c} BY <1>1, <1>8, <1>9, <1>10 DEF Counted
  <2>2. \A k \in Jobs \ {j} : Counted(k)' = Counted(k) BY <1>8, <1>9, <1>10 DEF Counted
  <2>3. job[j].active = Cardinality(Counted(j)) BY <1>2 DEF ActiveCounted
  <2>4. job'[j].active = Cardinality(Counted(j)') BY <2>1, <2>3, <1>4, <1>6
  <2>5. \A k \in Jobs \ {j} : job'[k].active = Cardinality(Counted(k)')
    BY <2>2, <1>7 DEF ActiveCounted
  <2> QED BY <2>4, <2>5 DEF ActiveCounted
<1>13. StatusCurrent'
  <2>1. Current(j)' BY <1>6 DEF Current, StatusFor
  <2> QED BY <1>7, <1>8, <2>1, StatusCurrentNext
<1> QED BY <1>11, <1>12, <1>13

(* What a submission does to the claim it names, if any. *)
LEMMA TowardsFacts ==
  ASSUME TypeOK, NEW c \in {d \in Claims : claim[d] # NoClaim} \cup {None}, NEW n \in Sizes,
         CountTowards(c, n)
  PROVE  /\ claim' \in [Claims -> ClaimDocs \cup {NoClaim}]
         /\ \A d \in Claims : claim'[d].job = claim[d].job /\ (claim'[d] = NoClaim <=> claim[d] = NoClaim)
         /\ completedBy' \subseteq {d \in Claims : claim'[d].status = "submitted"}
         /\ \A d \in Claims : (claim'[d].status = "active" \/ d \in completedBy')
                              <=> (claim[d].status = "active" \/ d \in completedBy)
<1>1. CASE c = None
  BY <1>1 DEF CountTowards, TypeOK
<1>2. CASE c # None
  <2> DEFINE submitted == claim[c].submitted + n
             met == submitted >= claim[c].target
             status == IF met THEN "submitted" ELSE claim[c].status
  <2>1. c \in Claims /\ claim[c] \in ClaimDocs BY <1>2, ClaimFacts
  <2>2. submitted \in Int BY <2>1, DistributedJobsAssumption DEF ClaimDocs
  <2>3. /\ claim' = [claim EXCEPT ![c].submitted = submitted, ![c].status = status]
        /\ completedBy' = IF met /\ claim[c].status = "active" THEN completedBy \cup {c}
                                                               ELSE completedBy
    BY <1>2 DEF CountTowards
  <2>4. claim'[c] = [claim[c] EXCEPT !.submitted = submitted, !.status = status]
    BY <2>1, <2>3 DEF TypeOK
  <2>5. \A d \in Claims \ {c} : claim'[d] = claim[d] BY <2>3 DEF TypeOK
  <2> HIDE DEF submitted, status
  <2>6. /\ claim'[c] \in ClaimDocs /\ claim'[c].job = claim[c].job
        /\ claim'[c].status = status
    BY <2>1, <2>2, <2>4 DEF ClaimDocs, status
  <2> USE DEF status
  <2>7. claim'[c] # NoClaim /\ claim[c] # NoClaim BY <2>1, <2>6 DEF ClaimDocs, NoClaim
  <2>8. claim' \in [Claims -> ClaimDocs \cup {NoClaim}] BY <2>3, <2>5, <2>6 DEF TypeOK
  <2>9. \A d \in Claims : claim'[d].job = claim[d].job /\ (claim'[d] = NoClaim <=> claim[d] = NoClaim)
    BY <2>5, <2>6, <2>7
  <2>10. c \in completedBy => claim[c].status = "submitted" BY DEF TypeOK
  <2>11. completedBy' \subseteq {d \in Claims : claim'[d].status = "submitted"}
    BY <2>1, <2>3, <2>5, <2>6, <2>10 DEF TypeOK
  <2>12. \A d \in Claims : (claim'[d].status = "active" \/ d \in completedBy')
                           <=> (claim[d].status = "active" \/ d \in completedBy)
    <3>1. (claim'[c].status = "active" \/ c \in completedBy')
          <=> (claim[c].status = "active" \/ c \in completedBy)
      <4>1. CASE met /\ claim[c].status = "active" BY <4>1, <2>3
      <4>2. CASE met /\ claim[c].status # "active" BY <4>2, <2>3, <2>6
      <4>3. CASE ~met BY <4>3, <2>3, <2>6
      <4> QED BY <4>1, <4>2, <4>3
    <3>2. \A d \in Claims \ {c} : d \in completedBy' <=> d \in completedBy BY <2>3
    <3> QED BY <3>1, <3>2, <2>5
  <2> QED BY <2>8, <2>9, <2>11, <2>12
<1> QED BY <1>1, <1>2

LEMMA SubmitInv ==
  ASSUME Inv, NEW j \in Jobs, NEW c \in {d \in Claims : claim[d] # NoClaim} \cup {None},
         NEW n \in Sizes, Submit(j, c, n)
  PROVE  Inv'
<1> USE DEF Inv
<1> DEFINE completed == job[j].completed + n
<1>1. job[j] \in JobDocs /\ Exists(j) BY DEF TypeOK, Submit, Accepting
<1>2. completed \in Int BY <1>1, DistributedJobsAssumption DEF JobDocs
<1>3. /\ job'[j].completed = completed /\ job'[j].active = job[j].active
      /\ job'[j].status = StatusFor(j, completed, job[j].active)
      /\ job'[j] \in JobDocs /\ job'[j].status \notin {"absent", "removed"}
  <2>1. StatusFor(j, completed, job[j].active) \in Statuses \ {"absent", "removed"}
    BY <1>1, <1>2, StatusForType DEF JobDocs
  <2>2. job' = [job EXCEPT ![j].completed = completed,
                           ![j].status = StatusFor(j, completed, job[j].active)]
    BY DEF Submit
  <2> QED BY <1>1, <1>2, <2>1, <2>2 DEF TypeOK, JobDocs
<1>4. \A k \in Jobs \ {j} : job'[k] = job[k] BY DEF Submit, TypeOK
<1>5. /\ CountTowards(c, n) /\ SubmissionsTyped'
      /\ \A s \in submissions' : s \in submissions \/ s.job = j
  BY RecordFacts DEF Submit, TypeOK
<1>6. TypeOK'
  <2>1. job' \in [Jobs -> JobDocs] BY <1>3, <1>4 DEF Submit, TypeOK
  <2>2. \A d \in Claims : claim'[d] # NoClaim => job'[claim'[d].job].status # "absent"
    <3>1. \A k \in Jobs : job[k].status # "absent" => job'[k].status # "absent"
      BY <1>3, <1>4
    <3>2. \A d \in Claims : claim[d] # NoClaim =>
            claim[d].job \in Jobs /\ job[claim[d].job].status # "absent"
      BY ClaimFacts DEF TypeOK, ClaimDocs, Exists
    <3> QED BY <3>1, <3>2, <1>5, TowardsFacts
  <2>3. \A s \in submissions' : Exists(s.job)'
    BY <1>3, <1>4, <1>5 DEF TypeOK, SubmissionsTyped, Exists
  <2> QED BY <2>1, <2>2, <2>3, <1>5, TowardsFacts DEF TypeOK, Exists
<1>7. ActiveCounted'
  <2>1. \A k \in Jobs : Counted(k)' = Counted(k) BY <1>5, TowardsFacts DEF Counted
  <2> QED BY <2>1, <1>3, <1>4 DEF ActiveCounted
<1>8. StatusCurrent'
  <2>1. Current(j)' BY <1>3 DEF Current, StatusFor
  <2> QED BY <1>4, <1>5, <2>1, StatusCurrentNext
<1> QED BY <1>6, <1>7, <1>8

-----------------------------------------------------------------------------
(* The invariant, and what follows from it. *)

LEMMA StutterInv == Inv /\ UNCHANGED vars => Inv'
BY DEF Inv, TypeOK, SubmissionsTyped, ActiveCounted, StatusCurrent, Current, Untouched, Counted,
       Exists, StatusFor, vars

LEMMA NextInv == Inv /\ [Next]_vars => Inv'
<1> SUFFICES ASSUME Inv, [Next]_vars PROVE Inv' OBVIOUS
<1>1. CASE \E j \in Jobs : Create(j) \/ Remove(j) BY <1>1, CreateInv, RemoveInv
<1>2. CASE \E j \in Jobs, c \in Claims, n \in Sizes : ClaimJob(j, c, n) BY <1>2, ClaimInv
<1>3. CASE \E c \in Claims : ReleaseClaim(c) BY <1>3, ReleaseInv
<1>4. CASE \E j \in Jobs, c \in {d \in Claims : claim[d] # NoClaim} \cup {None}, n \in Sizes :
             Submit(j, c, n)
  BY <1>4, SubmitInv
<1>5. CASE UNCHANGED vars BY <1>5, StutterInv
<1> QED BY <1>1, <1>2, <1>3, <1>4, <1>5 DEF Next

LEMMA InvHolds == Spec => []Inv
BY InitInv, NextInv, PTL DEF Spec

(* The documents keep the fields of the schema, a claim and a submission belong *)
(* to a job, and the count of active claims is never below zero, whatever     *)
(* numbers are claimed and submitted: for the five mutations of jobs.ts.    *)
THEOREM TypeCorrect == Spec => []TypeOK
BY InvHolds, PTL DEF Inv

(* A job counts its active claims, and those met while active, which claim,    *)
(* releaseClaim, submit and remove never count out; its status is the one its *)
(* counts call for, or that of a job of no rollouts nobody has submitted to.  *)
THEOREM JobsStayRight == Spec => []JobsAgree
BY InvHolds, PTL DEF Inv, JobsAgree

(* A removed job without active claims stays removed: submit refuses it, and  *)
(* only releaseClaim recomputes its status.                                 *)
THEOREM RemovedStays == Spec => RemovedForGood
<1> DEFINE Removed(j) == job[j].status = "removed" /\ ClaimsOf(j, "active") = {}
<1>1. ASSUME Inv, [Next]_vars, NEW k \in Jobs, Removed(k)
      PROVE  job'[k].status = "removed"
  <2>1. CASE \E j \in Jobs : Create(j) \/ Remove(j)
    <3> PICK j \in Jobs : Create(j) \/ Remove(j) BY <2>1
    <3>1. job[k].status = "removed" /\ job \in [Jobs -> JobDocs] BY <1>1 DEF Inv, TypeOK
    <3>2. CASE Create(j)
      <4>1. j # k BY <3>1, <3>2 DEF Create, Exists
      <4> QED BY <4>1, <3>1, <3>2 DEF Create
    <3>3. CASE Remove(j)
      <4>1. CASE j = k BY <4>1, <3>1, <3>3 DEF Remove, JobDocs
      <4>2. CASE j # k BY <4>2, <3>1, <3>3 DEF Remove
      <4> QED BY <4>1, <4>2
    <3> QED BY <3>2, <3>3
  <2>2. CASE \E j \in Jobs, c \in Claims, n \in Sizes : ClaimJob(j, c, n)
    BY <2>2, <1>1 DEF Inv, TypeOK, ClaimJob, Claimable
  <2>3. CASE \E c \in Claims : ReleaseClaim(c)
    <3> PICK c \in Claims : ReleaseClaim(c) BY <2>3
    <3>1. claim[c].job # k BY <1>1 DEF ReleaseClaim, ClaimsOf
    <3>2. UNCHANGED job[k]
      <4>1. \A j, active, status : j # k =>
              [job EXCEPT ![j].active = active, ![j].status = status][k] = job[k]
        BY <1>1 DEF Inv, TypeOK
      <4> QED BY <4>1, <3>1 DEF ReleaseClaim, Release
    <3> QED BY <3>2, <1>1
  <2>4. CASE \E j \in Jobs, c \in {d \in Claims : claim[d] # NoClaim} \cup {None}, n \in Sizes :
               Submit(j, c, n)
    BY <2>4, <1>1 DEF Inv, TypeOK, Submit, Accepting
  <2>5. CASE UNCHANGED vars BY <2>5, <1>1 DEF vars
  <2> QED BY <1>1, <2>1, <2>2, <2>3, <2>4, <2>5 DEF Next
<1>2. Inv /\ [Next]_vars =>
        [\A j \in Jobs : job[j].status = "removed" /\ ClaimsOf(j, "active") = {}
                         => job'[j].status = "removed"]_vars
  BY <1>1
<1> QED BY <1>2, InvHolds, PTL DEF Spec, RemovedForGood

(* A submission adds no worker to a job, to whichever claim it counts. *)
LEMMA SubmittedMoves ==
  ASSUME TypeOK, NEW c \in {d \in Claims : claim[d] # NoClaim} \cup {None}, NEW n \in Sizes,
         CountTowards(c, n), NEW d \in Claims, claim'[d].status = "active"
  PROVE  claim[d].status = "active" /\ claim'[d].job = claim[d].job
<1>1. CASE c = None BY <1>1 DEF CountTowards
<1>2. CASE d # c BY <1>2 DEF CountTowards, TypeOK
<1>3. CASE c # None /\ d = c
  <2>1. claim[c] \in ClaimDocs BY <1>3, ClaimFacts
  <2> DEFINE submitted == claim[c].submitted + n
             met == submitted >= claim[c].target
  <2>2. claim' = [claim EXCEPT ![c].submitted = submitted,
                               ![c].status = IF met THEN "submitted" ELSE @]
    BY <1>3 DEF CountTowards
  <2>3. claim'[c] = [claim[c] EXCEPT !.submitted = submitted,
                                     !.status = IF met THEN "submitted" ELSE @]
    BY <1>3, <2>2 DEF TypeOK
  <2> QED BY <1>3, <2>1, <2>3 DEF ClaimDocs
<1> QED BY <1>1, <1>2, <1>3

(* What a mutation makes of the fields of a job: only ClaimJob adds a worker to *)
(* it, and only a submission of a negative count takes rollouts away.       *)
Restated(k) == \/ job'[k].status \in {job[k].status, "removed"}
               \/ \E active \in Int : job'[k].status = StatusFor(k, job'[k].completed, active)
LEMMA JobMoves ==
  ASSUME Inv, [Next]_vars, NEW k \in Jobs, Exists(k)
  PROVE  \/ Claimable(k)
         \/ /\ Restated(k) /\ job'[k].completed \in Int
            /\ job'[k].completed >= job[k].completed \/ TakenBack(k)
            /\ ClaimsOf(k, "active")' \subseteq ClaimsOf(k, "active")
<1>0. job[k] \in JobDocs /\ job[k].completed \in Int /\ job \in [Jobs -> JobDocs]
  BY DEF Inv, TypeOK, JobDocs
<1>1. CASE \E j \in Jobs : Create(j) \/ Remove(j)
  <2> PICK j \in Jobs : Create(j) \/ Remove(j) BY <1>1
  <2>1. ClaimsOf(k, "active")' = ClaimsOf(k, "active") BY DEF Create, Remove, ClaimsOf
  <2>2. CASE j = k
    <3>1. job' = [job EXCEPT ![k].status = "removed"] BY <2>2 DEF Create, Remove
    <3>2. job'[k] = [job[k] EXCEPT !.status = "removed"] BY <1>0, <3>1
    <3> QED BY <1>0, <2>1, <3>2 DEF JobDocs, Restated
  <2>3. CASE j # k
    <3>1. job'[k] = job[k] BY <1>0, <2>3 DEF Create, Remove
    <3> QED BY <1>0, <2>1, <3>1 DEF Restated
  <2> QED BY <2>2, <2>3
<1>2. CASE \E j \in Jobs, c \in Claims, n \in Sizes : ClaimJob(j, c, n)
  <2> PICK j \in Jobs, c \in Claims, n \in Sizes : ClaimJob(j, c, n) BY <1>2
  <2>1. /\ Claimable(j)
        /\ job' = [job EXCEPT ![j].status = "running", ![j].active = @ + 1]
        /\ claim' = [claim EXCEPT ![c] = [job |-> j, status |-> "active", target |-> n, submitted |-> 0]]
    BY DEF ClaimJob
  <2>2. CASE j # k
    <3>1. job'[k] = job[k] BY <1>0, <2>1, <2>2
    <3>2. ClaimsOf(k, "active")' \subseteq ClaimsOf(k, "active")
      BY <2>1, <2>2 DEF ClaimsOf, Inv, TypeOK
    <3> QED BY <1>0, <3>1, <3>2 DEF Restated
  <2> QED BY <2>1, <2>2
<1>3. CASE \E c \in Claims : ReleaseClaim(c)
  <2> PICK c \in Claims : ReleaseClaim(c) BY <1>3
  <2> DEFINE j == claim[c].job
             active == AtLeastZero(job[j].active - 1)
             status == StatusFor(j, job[j].completed, active)
  <2>1. /\ claim' = [claim EXCEPT ![c].status = "released"]
        /\ job' = [job EXCEPT ![j].active = active, ![j].status = status]
    BY DEF ReleaseClaim, Release
  <2>2. claim[c] \in ClaimDocs BY ClaimFacts DEF Inv, TypeOK, ReleaseClaim, NoClaim
  <2>3. j = k => active \in Int BY <1>0 DEF AtLeastZero, JobDocs
  <2> HIDE DEF status, active
  <2>4. ClaimsOf(k, "active")' \subseteq ClaimsOf(k, "active")
    <3>1. claim'[c] = [claim[c] EXCEPT !.status = "released"] BY <2>1 DEF Inv, TypeOK
    <3>2. claim'[c].status = "released" BY <2>2, <3>1 DEF ClaimDocs
    <3>3. \A d \in Claims \ {c} : claim'[d] = claim[d] BY <2>1 DEF Inv, TypeOK
    <3> QED BY <3>2, <3>3 DEF ClaimsOf
  <2>5. CASE j = k
    <3>1. job'[k] = [job[k] EXCEPT !.active = active, !.status = status]
      BY <1>0, <2>1, <2>5
    <3>2. job'[k].status = status /\ job'[k].completed = job[k].completed
      BY <1>0, <3>1 DEF JobDocs
    <3>3. status = StatusFor(k, job'[k].completed, active) BY <2>5, <3>2 DEF status
    <3>4. Restated(k) BY <2>3, <2>5, <3>2, <3>3 DEF Restated
    <3> QED BY <1>0, <2>4, <3>2, <3>4
  <2>6. CASE j # k
    <3>1. job'[k] = job[k] BY <1>0, <2>1, <2>6
    <3> QED BY <1>0, <2>4, <3>1 DEF Restated
  <2> QED BY <2>5, <2>6
<1>4. CASE \E j \in Jobs, c \in {d \in Claims : claim[d] # NoClaim} \cup {None}, n \in Sizes :
             Submit(j, c, n)
  <2> PICK j \in Jobs, c \in {d \in Claims : claim[d] # NoClaim} \cup {None}, n \in Sizes :
             Submit(j, c, n)
    BY <1>4
  <2> DEFINE completed == job[j].completed + n
             status == StatusFor(j, completed, job[j].active)
  <2>1. job' = [job EXCEPT ![j].completed = completed, ![j].status = status]
    BY DEF Submit
  <2>2. ClaimsOf(k, "active")' \subseteq ClaimsOf(k, "active")
    BY SubmittedMoves DEF Submit, Inv, ClaimsOf
  <2> HIDE DEF status
  <2>3. CASE j = k
    <3>1. job'[k] = [job[k] EXCEPT !.completed = completed, !.status = status]
      BY <1>0, <2>1, <2>3
    <3>2. job'[k].status = status /\ job'[k].completed = job[k].completed + n
      BY <1>0, <2>3, <3>1 DEF JobDocs
    <3>3. n \in Int BY DistributedJobsAssumption
    <3>4. Restated(k)
      <4>1. status = StatusFor(k, job'[k].completed, job[k].active)
        BY <2>3, <3>2 DEF status
      <4> QED BY <1>0, <3>2, <4>1 DEF Restated, JobDocs
    <3>5. n >= 0 \/ TakenBack(k)
      <4>1. \E s \in submissions' \ submissions : s.job = j /\ s.count = n
        BY RecordFacts DEF Submit, Inv, TypeOK
      <4> QED BY <2>3, <3>3, <4>1 DEF TakenBack
    <3> QED BY <1>0, <2>2, <3>2, <3>3, <3>4, <3>5
  <2>4. CASE j # k
    <3>1. job'[k] = job[k] BY <1>0, <2>1, <2>4
    <3> QED BY <1>0, <2>2, <3>1 DEF Restated
  <2> QED BY <2>3, <2>4
<1>5. CASE UNCHANGED vars BY <1>0, <1>5 DEF vars, Restated, ClaimsOf
<1> QED BY <1>1, <1>2, <1>3, <1>4, <1>5 DEF Next

(* A job that is over stays over until rollouts are taken back, and gains no   *)
(* worker: claim looks at a status that says so, and releaseClaim and submit   *)
(* compute it from a count that only a negative submission lowers.          *)
THEOREM OverStaysOver == Spec => OverUnlessTakenBack
<1>1. ASSUME Inv, [Next]_vars, NEW k \in Jobs, Over(k)
      PROVE  /\ \/ Over(k)' /\ job'[k].completed >= job[k].completed
                \/ TakenBack(k)
             /\ ClaimsOf(k, "active")' \subseteq ClaimsOf(k, "active")
  <2>1. Exists(k) /\ ~Claimable(k) BY <1>1 DEF Over, Exists, Claimable
  <2>2. job[k].completed \in Int /\ Target[k] \in Int
    BY <1>1, DistributedJobsAssumption DEF Inv, TypeOK, JobDocs
  <2>3. job[k].completed >= Target[k]
    <3>1. CASE job[k].status = "complete"
      <4>1. Current(k) BY <1>1, <2>1, <3>1 DEF Inv, StatusCurrent
      <4> QED BY <3>1, <4>1 DEF Current, StatusFor
    <3> QED BY <1>1, <3>1 DEF Over
  <2>4. /\ Restated(k) /\ job'[k].completed \in Int
        /\ job'[k].completed >= job[k].completed \/ TakenBack(k)
        /\ ClaimsOf(k, "active")' \subseteq ClaimsOf(k, "active")
    BY <1>1, <2>1, JobMoves
  <2>5. ASSUME job'[k].completed >= job[k].completed PROVE Over(k)'
    <3>1. job'[k].completed >= Target[k] BY <2>2, <2>3, <2>4, <2>5
    <3>2. \A active \in Int : StatusFor(k, job'[k].completed, active) = "complete"
      BY <3>1 DEF StatusFor
    <3>3. job'[k].status \in {"complete", "removed"}
      BY <1>1, <2>4, <3>2 DEF Restated, Over
    <3> QED BY <3>1, <3>3 DEF Over
  <2> QED BY <2>4, <2>5
<1>2. Inv /\ [Next]_vars =>
        [\A j \in Jobs : Over(j) =>
           /\ \/ Over(j)' /\ job'[j].completed >= job[j].completed
              \/ TakenBack(j)
           /\ ClaimsOf(j, "active")' \subseteq ClaimsOf(j, "active")]_vars
  BY <1>1
<1> QED BY <1>2, InvHolds, PTL DEF Spec, OverUnlessTakenBack

(* Only a claim that is still active, or rollouts that are taken back, lead a   *)
(* job away from its end.                                                  *)
THEOREM EndsStay == Spec => EndsHold
BY RemovedStays, OverStaysOver, PTL DEF EndsHold
=============================================================================
